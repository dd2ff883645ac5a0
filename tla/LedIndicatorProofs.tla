------------------------- MODULE LedIndicatorProofs -------------------------
(***************************************************************************)
(* Proofs about module LedIndicator, for every reload value, every length  *)
(* of a fade and every pass that is short against a millisecond.           *)
(***************************************************************************)
EXTENDS LedIndicator, IntegerLemmas

(* How far the millisecond has gone, and the tick_ms that belongs to it:   *)
(* the handler counts up in the last count of the millisecond.             *)
Elapsed == Upcounting(val)
ThisMs == IF val = 0 /\ ~pending THEN (tick_ms - 1) % Wrap ELSE tick_ms

(* A pass reads the phase in its own time: it is at most age old when the  *)
(* pins are written, or was read in the last counts of the millisecond     *)
(* before, where every LED is off.                                         *)
PassInv ==
    pc = "write" =>
        \/ phase <= Elapsed /\ Elapsed <= phase + age
        \/ phase > Elapsed /\ Elapsed < age /\ phase >= MAX_DUTY

(* In an undisturbed millisecond the handler is late only in its last      *)
(* count, and a pass that began in it uses its tick.                       *)
TickInv ==
    ~disturbed =>
        /\ pc # "flash"
        /\ val # 0 => ~pending
        /\ pc \in {"phase", "write"} =>
              now = ThisMs \/ Elapsed < age \/ Elapsed = SYSTICK_RELOAD - 1

(* An LED that is on when it should be off, or off when it should be on,   *)
(* is the work of a pass that began early enough to be followed by         *)
(* another one in time.                                                    *)
OnInv ==
    /\ \A i \in LEDs : on[i] <= Elapsed
    /\ ~disturbed => \A i \in LEDs :
          /\ i \in lit => Elapsed <= age + Duty(ThisMs, i) + (PassTime - 1)
          /\ i \notin lit /\ Elapsed < Duty(ThisMs, i) => Elapsed <= age + (PassTime - 1)
          /\ on[i] <= Duty(ThisMs, i) + Slack
          /\ on[i] + Slack >= Elapsed \/ on[i] + Slack >= Duty(ThisMs, i)

LedInv == TypeOK /\ PassInv /\ TickInv /\ OnInv

-----------------------------------------------------------------------------
LEMMA Constants ==
    /\ SYSTICK_RELOAD \in Nat \ {0} /\ FADE_MS \in Nat \ {0} /\ Wrap \in Nat \ {0} /\ PassTime \in Nat \ {0}
    /\ MAX_DUTY \in Nat \ {0} /\ MAX_DUTY + 2 * PassTime < SYSTICK_RELOAD
    /\ Slack = 2 * PassTime - 1
<1>1. /\ SYSTICK_RELOAD \in Nat \ {0} /\ FADE_MS \in Nat \ {0} /\ Wrap \in Nat \ {0} /\ PassTime \in Nat \ {0}
  BY LedAssumption
<1>2. MAX_DUTY \in Int
  BY <1>1 DEF MAX_DUTY
<1> QED BY <1>1, <1>2, LedAssumption DEF Slack

(* A quotient is at most y when the number is below t * y + t.             *)
LEMMA Below ==
    ASSUME NEW t \in Nat \ {0}, NEW x \in Int, NEW y \in Int, t * x < t * y + t PROVE x <= y
<1> SUFFICES ASSUME x >= y + 1 PROVE FALSE
  OBVIOUS
<1>1. t * x >= t * (y + 1)
  OBVIOUS
<1>2. t * (y + 1) = t * y + t
  OBVIOUS
<1> QED BY <1>1, <1>2

(* The incoming duty climbs from 0 to MAX_DUTY by at most Ramp.            *)
Level(p) == (MAX_DUTY * p) \div FADE_MS

LEMMA LevelRange ==
    ASSUME NEW p \in 0 .. FADE_MS PROVE Level(p) \in 0 .. MAX_DUTY
<1>1. /\ MAX_DUTY \in Nat /\ FADE_MS \in Nat \ {0} /\ p \in Nat /\ p <= FADE_MS
  BY Constants
<1>2. MAX_DUTY * p \in Nat /\ MAX_DUTY * p <= MAX_DUTY * FADE_MS /\ MAX_DUTY * FADE_MS = FADE_MS * MAX_DUTY
  BY <1>1
<1>3. MAX_DUTY * p < FADE_MS * MAX_DUTY + FADE_MS
  BY <1>1, <1>2
<1> QED BY <1>1, <1>2, <1>3, QuotientBound DEF Level

LEMMA LevelEnds == Level(0) = 0 /\ Level(FADE_MS) = MAX_DUTY
<1>1. MAX_DUTY \in Nat /\ FADE_MS \in Nat \ {0}
  BY Constants
<1>2. MAX_DUTY * 0 = 0 * FADE_MS + 0 /\ MAX_DUTY * FADE_MS = MAX_DUTY * FADE_MS + 0 /\ 0 \in 0 .. FADE_MS - 1
  BY <1>1
<1>3. (0 * FADE_MS + 0) \div FADE_MS = 0 /\ (MAX_DUTY * FADE_MS + 0) \div FADE_MS = MAX_DUTY
  BY <1>1, <1>2, Digits
<1> QED BY <1>2, <1>3 DEF Level

LEMMA LevelStep ==
    ASSUME NEW p \in 0 .. FADE_MS - 1
    PROVE  Ramp \in Nat /\ Level(p + 1) - Level(p) \in 0 .. Ramp
<1> DEFINE M == MAX_DUTY
           F == FADE_MS
           a == M * p
           b == M * (p + 1)
           c == M + F - 1
           x == a \div F
           y == b \div F
           r == c \div F
<1>1. M \in Nat /\ F \in Nat \ {0} /\ p \in Nat /\ p + 1 \in 0 .. F /\ p \in 0 .. F
  BY Constants
<1>2. a \in Int /\ b \in Int /\ c \in Int /\ b = a + M
  BY <1>1
<1>3. /\ x \in Int /\ F * x <= a /\ a < F * x + F
      /\ y \in Int /\ F * y <= b /\ b < F * y + F
      /\ r \in Int /\ F * r <= c /\ c < F * r + F
  BY <1>1, <1>2
<1>4. c = M + F - 1
  OBVIOUS
<1>5. r >= 0
  <2>1. F * 0 < F * r + F
    <3> HIDE DEF r, c
    <3> QED BY <1>1, <1>3, <1>4
  <2> HIDE DEF r
  <2> QED BY <1>1, <1>3, <2>1, Below
<1>6. y <= x + r
  <2> HIDE DEF r, c, x, a, y, b
  <2>1. F * (x + r) = F * x + F * r /\ F * x \in Int /\ F * y \in Int /\ F * r \in Int
    BY <1>1, <1>3
  <2>2. M <= F * r
    BY <1>1, <1>3, <1>4, <2>1
  <2>3. F * y < F * (x + r) + F
    BY <1>1, <1>2, <1>3, <2>1, <2>2
  <2> QED BY <1>1, <1>3, <2>3, Below
<1>7. x <= y
  <2> HIDE DEF r, c, x, a, y, b
  <2>1. F * x < F * y + F
    BY <1>1, <1>2, <1>3
  <2> QED BY <1>1, <1>3, <2>1, Below
<1>8. r = Ramp /\ x = Level(p) /\ y = Level(p + 1)
  BY DEF Ramp, Level
<1> HIDE DEF r, x, y
<1> QED BY <1>3, <1>5, <1>6, <1>7, <1>8

-----------------------------------------------------------------------------
LEMMA DutyRange ==
    ASSUME NEW ms \in Nat, NEW i \in LEDs PROVE Duty(ms, i) \in 0 .. MAX_DUTY
<1>1. fade_pos(ms) \in 0 .. FADE_MS
  BY Constants DEF fade_pos
<1>2. duty_in(ms) \in 0 .. MAX_DUTY
  BY <1>1, LevelRange DEF duty_in, Level
<1> QED BY <1>2, Constants DEF Duty

(* One millisecond later the fade is one step on, or the next LED's turn.  *)
LEMMA NextMs ==
    ASSUME NEW ms \in Nat
    PROVE  /\ fade_pos(ms) \in 0 .. FADE_MS - 1 /\ ms \div FADE_MS \in Nat
           /\ \/ /\ fade_pos(ms) + 1 < FADE_MS /\ fade_pos(ms + 1) = fade_pos(ms) + 1
                 /\ (ms + 1) \div FADE_MS = ms \div FADE_MS
              \/ /\ fade_pos(ms) + 1 = FADE_MS /\ fade_pos(ms + 1) = 0
                 /\ (ms + 1) \div FADE_MS = (ms \div FADE_MS) + 1
<1> DEFINE p == ms % FADE_MS
           q == ms \div FADE_MS
<1>1. FADE_MS \in Nat \ {0}
  BY Constants
<1>2. p \in 0 .. FADE_MS - 1 /\ q \in Int /\ ms = FADE_MS * q + p
  BY <1>1
<1>3. q \in Nat
  <2> HIDE DEF p, q
  <2>1. FADE_MS * 0 < FADE_MS * q + FADE_MS
    BY <1>1, <1>2
  <2> QED BY <1>1, <1>2, <2>1, Below
<1>4. p + 1 < FADE_MS => (ms + 1) % FADE_MS = p + 1 /\ (ms + 1) \div FADE_MS = q
  <2> SUFFICES ASSUME p + 1 < FADE_MS PROVE (ms + 1) % FADE_MS = p + 1 /\ (ms + 1) \div FADE_MS = q
    OBVIOUS
  <2> HIDE DEF p, q
  <2>1. ms + 1 = q * FADE_MS + (p + 1) /\ p + 1 \in 0 .. FADE_MS - 1
    BY <1>1, <1>2, <1>3
  <2>2. (q * FADE_MS + (p + 1)) \div FADE_MS = q /\ (q * FADE_MS + (p + 1)) % FADE_MS = p + 1
    BY <1>1, <1>3, <2>1, Digits
  <2> QED BY <2>1, <2>2
<1>5. p + 1 = FADE_MS => (ms + 1) % FADE_MS = 0 /\ (ms + 1) \div FADE_MS = q + 1
  <2> SUFFICES ASSUME p + 1 = FADE_MS PROVE (ms + 1) % FADE_MS = 0 /\ (ms + 1) \div FADE_MS = q + 1
    OBVIOUS
  <2> HIDE DEF p, q
  <2>1. ms + 1 = (q + 1) * FADE_MS + 0 /\ 0 \in 0 .. FADE_MS - 1
    <3>1. (q + 1) * FADE_MS = FADE_MS * q + FADE_MS
      BY <1>1, <1>3
    <3> QED BY <1>1, <1>2, <1>3, <3>1
  <2>2. ((q + 1) * FADE_MS + 0) \div FADE_MS = q + 1 /\ ((q + 1) * FADE_MS + 0) % FADE_MS = 0
    BY <1>1, <1>3, <2>1, Digits
  <2> QED BY <2>1, <2>2
<1>6. p + 1 < FADE_MS \/ p + 1 = FADE_MS
  BY <1>1, <1>2
<1> QED BY <1>2, <1>3, <1>4, <1>5, <1>6 DEF fade_pos

(* In one millisecond no duty moves by more than Ramp.                     *)
LEMMA DutyStep ==
    ASSUME NEW ms \in Nat, NEW i \in LEDs
    PROVE  Duty(ms + 1, i) - Duty(ms, i) \in (-Ramp) .. Ramp
<1> DEFINE p == fade_pos(ms)
           q == ms \div FADE_MS
<1>1. /\ p \in 0 .. FADE_MS - 1 /\ q \in Nat
      /\ \/ p + 1 < FADE_MS /\ fade_pos(ms + 1) = p + 1 /\ (ms + 1) \div FADE_MS = q
         \/ p + 1 = FADE_MS /\ fade_pos(ms + 1) = 0 /\ (ms + 1) \div FADE_MS = q + 1
  BY NextMs
<1>2. /\ MAX_DUTY \in Nat /\ FADE_MS \in Nat \ {0} /\ p \in 0 .. FADE_MS /\ p + 1 \in 0 .. FADE_MS
  BY <1>1, Constants
<1>3. /\ Level(p) \in 0 .. MAX_DUTY /\ Level(p + 1) \in 0 .. MAX_DUTY
      /\ Ramp \in Nat /\ Level(p + 1) - Level(p) \in 0 .. Ramp
  BY <1>1, <1>2, LevelRange, LevelStep
<1>4. duty_in(ms) = Level(p)
  BY DEF duty_in, Level
<1>5. outgoing(ms) = q % 3 /\ incoming(ms) = ((q % 3) + 1) % 3
  BY DEF outgoing, incoming
<1>6. CASE p + 1 < FADE_MS /\ fade_pos(ms + 1) = p + 1 /\ (ms + 1) \div FADE_MS = q
  <2>1. duty_in(ms + 1) = Level(p + 1) /\ outgoing(ms + 1) = outgoing(ms) /\ incoming(ms + 1) = incoming(ms)
    BY <1>6 DEF duty_in, Level, outgoing, incoming
  <2> HIDE DEF p, q
  <2> QED BY <1>2, <1>3, <1>4, <2>1 DEF Duty
<1>7. CASE p + 1 = FADE_MS /\ fade_pos(ms + 1) = 0 /\ (ms + 1) \div FADE_MS = q + 1
  <2>1. duty_in(ms + 1) = Level(0) /\ Level(0) = 0 /\ Level(p + 1) = MAX_DUTY
    BY <1>7, LevelEnds DEF duty_in, Level
  <2>2. outgoing(ms + 1) = (q + 1) % 3 /\ incoming(ms + 1) = (((q + 1) % 3) + 1) % 3
    BY <1>7 DEF outgoing, incoming
  <2> HIDE DEF p, q
  <2>3. /\ outgoing(ms + 1) = incoming(ms) /\ incoming(ms + 1) # outgoing(ms)
        /\ outgoing(ms) # incoming(ms) /\ incoming(ms + 1) # incoming(ms)
    BY <1>1, <1>5, <2>2
  <2> QED BY <1>2, <1>3, <1>4, <2>1, <2>3 DEF Duty
<1> QED BY <1>1, <1>6, <1>7

LEMMA WrapBack ==
    ASSUME NEW w \in Nat \ {0}, NEW t \in 0 .. w - 1 PROVE (((t + 1) % w) - 1) % w = t
<1>1. CASE t + 1 < w
  <2>1. (t + 1) % w = t + 1 /\ (t + 1) - 1 = t /\ t % w = t
    BY <1>1
  <2> QED BY <2>1
<1>2. CASE t + 1 = w
  <2>1. (w * 1 + 0) % w = 0 /\ t + 1 = w * 1 + 0
    BY <1>2, ModUnique
  <2>2. (w * (-1) + (w - 1)) % w = w - 1 /\ w * (-1) + (w - 1) = 0 - 1
    BY ModUnique
  <2> QED BY <1>2, <2>1, <2>2
<1> QED BY <1>1, <1>2

-----------------------------------------------------------------------------
LEMMA Positions ==
    ASSUME TypeOK
    PROVE  /\ Elapsed = (SYSTICK_RELOAD - 1) - val /\ Elapsed \in 0 .. SYSTICK_RELOAD - 1
           /\ val \in Nat /\ phase \in Nat /\ age \in Nat /\ age <= PassTime /\ phase <= SYSTICK_RELOAD - 1
           /\ tick_ms \in Nat /\ ThisMs \in 0 .. Wrap - 1 /\ ThisMs \in Nat
           /\ \A i \in LEDs : on[i] \in Nat /\ Duty(ThisMs, i) \in 0 .. MAX_DUTY
<1>1. /\ SYSTICK_RELOAD \in Nat \ {0} /\ Wrap \in Nat \ {0} /\ PassTime \in Nat
      /\ val \in 0 .. SYSTICK_RELOAD - 1 /\ phase \in 0 .. SYSTICK_RELOAD - 1
      /\ tick_ms \in 0 .. Wrap - 1 /\ age \in 0 .. PassTime /\ on \in [LEDs -> 0 .. SYSTICK_RELOAD - 1]
  BY Constants DEF TypeOK
<1>2. tick_ms \in Int /\ tick_ms - 1 \in Int /\ (tick_ms - 1) % Wrap \in 0 .. Wrap - 1
  BY <1>1
<1>3. ThisMs \in 0 .. Wrap - 1 /\ ThisMs \in Nat
  BY <1>1, <1>2 DEF ThisMs
<1>4. \A i \in LEDs : on[i] \in Nat /\ Duty(ThisMs, i) \in 0 .. MAX_DUTY
  BY <1>1, <1>3, DutyRange
<1> QED BY <1>1, <1>3, <1>4 DEF Elapsed, Upcounting

LEMMA LedInit == Init => LedInv
<1> SUFFICES ASSUME Init PROVE LedInv
  OBVIOUS
<1>1. TypeOK
  <2>1. /\ tick_ms \in 0 .. Wrap - 1 /\ now \in 0 .. Wrap - 1
        /\ val \in 0 .. SYSTICK_RELOAD - 1 /\ phase \in 0 .. SYSTICK_RELOAD - 1 /\ age \in 0 .. PassTime
        /\ on \in [LEDs -> 0 .. SYSTICK_RELOAD - 1]
    BY Constants DEF Init
  <2>2. lit \in SUBSET LEDs /\ pc \in {"poll", "flash", "tick", "phase", "write"}
    BY DEF Init
  <2>3. pending \in BOOLEAN /\ disturbed \in BOOLEAN
    BY Zenon DEF Init
  <2> QED BY <2>1, <2>2, <2>3 DEF TypeOK
<1>2. \A i \in LEDs : on[i] = 0
  BY DEF Init
<1>3. PassInv /\ TickInv /\ OnInv
  BY <1>1, <1>2, Positions DEF Init, PassInv, TickInv, OnInv
<1> QED BY <1>1, <1>3 DEF LedInv

(* One count later in the same millisecond.                                *)
LEMMA CountOn == ASSUME LedInv, Count, val # 0 PROVE LedInv'
<1> USE Constants
<1>1. /\ TypeOK /\ val' = val - 1 /\ pending' = (pending \/ val = 1)
      /\ UNCHANGED <<tick_ms, pc, now, phase, lit, disturbed>>
      /\ on' = [i \in LEDs |-> OnAfter(i)]
      /\ age' = (IF Stalled THEN age ELSE age + 1) /\ (Stalled \/ (~pending /\ age < PassTime))
  BY DEF LedInv, Count, pass
<1>2. /\ Elapsed = (SYSTICK_RELOAD - 1) - val /\ Elapsed \in 0 .. SYSTICK_RELOAD - 1
      /\ val \in Nat /\ phase \in Nat /\ age \in Nat /\ age <= PassTime /\ phase <= SYSTICK_RELOAD - 1
      /\ \A i \in LEDs : on[i] \in Nat /\ Duty(ThisMs, i) \in 0 .. MAX_DUTY
  BY <1>1, Positions
<1>3. Elapsed' = Elapsed + 1 /\ Elapsed' \in 0 .. SYSTICK_RELOAD - 1 /\ val' \in 0 .. SYSTICK_RELOAD - 1
  BY <1>1, <1>2 DEF Elapsed, Upcounting
<1>4. \A i \in LEDs : on'[i] = OnAfter(i) /\ OnAfter(i) \in Nat /\ on[i] <= OnAfter(i) /\ OnAfter(i) <= on[i] + 1
  BY <1>1, <1>2 DEF OnAfter
<1>5. \A i \in LEDs : on'[i] \in Nat /\ on'[i] <= Elapsed'
  BY <1>2, <1>3, <1>4 DEF LedInv, OnInv
<1>6. TypeOK'
  <2>1. on' \in [LEDs -> 0 .. SYSTICK_RELOAD - 1]
    BY <1>1, <1>3, <1>4, <1>5
  <2>2. age' \in 0 .. PassTime
    BY <1>1, <1>2
  <2>3. pending' \in BOOLEAN
    BY <1>1 DEF TypeOK
  <2> QED BY <1>1, <1>3, <2>1, <2>2, <2>3 DEF TypeOK
<1>7. pc # "flash" => age' = age + 1 /\ age < PassTime /\ ~pending
  BY <1>1 DEF Stalled
<1>8. PassInv'
  <2> SUFFICES ASSUME pc = "write"
               PROVE  \/ phase <= Elapsed' /\ Elapsed' <= phase + age'
                      \/ phase > Elapsed' /\ Elapsed' < age' /\ phase >= MAX_DUTY
    BY <1>1 DEF PassInv
  <2>1. age' = age + 1
    BY <1>7
  <2> QED BY <1>2, <1>3, <2>1 DEF LedInv, PassInv
<1>9. ~disturbed => pc # "flash" /\ ~pending /\ ThisMs' = ThisMs /\ age' = age + 1 /\ age < PassTime
  <2> SUFFICES ASSUME ~disturbed PROVE pc # "flash" /\ ~pending /\ ThisMs' = ThisMs
    BY <1>7
  <2>1. pc # "flash" /\ ~pending
    BY <1>1 DEF LedInv, TickInv
  <2>2. val' = 0 => pending'
    <3>1. val' = 0 => val = 1
      BY <1>1, <1>2
    <3> QED BY <1>1, <3>1, Zenon
  <2>3. ThisMs = tick_ms
    BY DEF ThisMs
  <2>4. ThisMs' = tick_ms'
    BY <2>2, Zenon DEF ThisMs
  <2> HIDE DEF ThisMs
  <2>5. ThisMs' = ThisMs
    BY <1>1, <2>3, <2>4
  <2> QED BY <2>1, <2>5
<1>10. TickInv'
  <2> SUFFICES ASSUME ~disturbed
               PROVE  /\ pc # "flash"
                      /\ val' # 0 => ~pending'
                      /\ pc \in {"phase", "write"} =>
                            now = ThisMs' \/ Elapsed' < age' \/ Elapsed' = SYSTICK_RELOAD - 1
    BY <1>1 DEF TickInv
  <2>1. val' # 0 => ~pending'
    <3>1. val' # 0 => val # 1
      BY <1>1, <1>2
    <3> QED BY <1>1, <1>9, <3>1, Zenon
  <2>2. pc \in {"phase", "write"} => now = ThisMs \/ Elapsed < age
    BY <1>1, <1>2 DEF LedInv, TickInv
  <2> QED BY <1>2, <1>3, <1>9, <2>1, <2>2
<1>11. OnInv'
  <2> SUFFICES ASSUME ~disturbed, NEW i \in LEDs
               PROVE  /\ i \in lit => Elapsed' <= age' + Duty(ThisMs, i) + (PassTime - 1)
                      /\ i \notin lit /\ Elapsed' < Duty(ThisMs, i) => Elapsed' <= age' + (PassTime - 1)
                      /\ on'[i] <= Duty(ThisMs, i) + Slack
                      /\ on'[i] + Slack >= Elapsed' \/ on'[i] + Slack >= Duty(ThisMs, i)
    BY <1>1, <1>5, <1>9 DEF OnInv
  <2> QED BY <1>2, <1>3, <1>4, <1>9 DEF LedInv, OnInv, OnAfter
<1> QED BY <1>6, <1>8, <1>10, <1>11 DEF LedInv

(* The counter reloads: whatever is lit, the millisecond is a new one.     *)
LEMMA CountReload == ASSUME LedInv, Count, val = 0 PROVE LedInv'
<1> USE Constants
<1>1. /\ TypeOK /\ val' = SYSTICK_RELOAD - 1
      /\ UNCHANGED <<tick_ms, pc, now, phase, lit>>
      /\ on' = [i \in LEDs |-> 0]
      /\ age' = (IF Stalled THEN age ELSE age + 1) /\ (Stalled \/ (~pending /\ age < PassTime))
  BY DEF LedInv, Count, pass
<1>2. /\ Elapsed = SYSTICK_RELOAD - 1 /\ phase \in Nat /\ age \in Nat /\ age <= PassTime
      /\ phase <= SYSTICK_RELOAD - 1
  BY <1>1, Positions
<1>3. Elapsed' = 0 /\ val' # 0 /\ val' \in 0 .. SYSTICK_RELOAD - 1
  BY <1>1 DEF Elapsed, Upcounting
<1>4. disturbed' = Stalled /\ pending' = pending
  <2>1. ~(val = 1)
    OBVIOUS
  <2>2. pending' = (pending \/ val = 1) /\ pending \in BOOLEAN
    BY <1>1, Zenon DEF Count, TypeOK
  <2>3. pending' = pending
    BY <2>1, <2>2, Zenon
  <2>4. disturbed' = Stalled
    BY Zenon DEF Count
  <2> QED BY <2>3, <2>4
<1>5. \A i \in LEDs : on'[i] = 0
  BY <1>1
<1>6. TypeOK'
  <2>1. on' \in [LEDs -> 0 .. SYSTICK_RELOAD - 1] /\ age' \in 0 .. PassTime
    BY <1>1, <1>2
  <2>2. disturbed' \in BOOLEAN /\ pending' \in BOOLEAN
    BY <1>1, <1>4, Zenon DEF TypeOK, Stalled
  <2> QED BY <1>1, <1>3, <2>1, <2>2 DEF TypeOK
<1>7. pc # "flash" => age' = age + 1 /\ age < PassTime /\ ~pending
  BY <1>1 DEF Stalled
<1>8. PassInv'
  <2> SUFFICES ASSUME pc = "write" PROVE phase > 0 /\ 0 < age' /\ phase >= MAX_DUTY
    BY <1>1, <1>3 DEF PassInv
  <2> QED BY <1>2, <1>7 DEF LedInv, PassInv
<1>9. ~disturbed' => pc # "flash" /\ ~pending' /\ age' = age + 1
  BY <1>4, <1>7 DEF Stalled
<1>10. TickInv'
  BY <1>1, <1>2, <1>3, <1>9 DEF TickInv
<1>11. OnInv'
  <2>1. ASSUME NEW i \in LEDs PROVE Duty(ThisMs, i)' \in 0 .. MAX_DUTY
    <3>1. Duty(ThisMs', i) \in 0 .. MAX_DUTY
      <4>1. ThisMs' \in Nat
        <5>1. tick_ms' \in Nat /\ tick_ms' - 1 \in Int
          BY <1>6 DEF TypeOK
        <5>2. \A x \in Int : x % Wrap \in Nat
          OBVIOUS
        <5>3. (tick_ms' - 1) % Wrap \in Nat
          BY <5>1, <5>2, Zenon
        <5> QED BY <5>1, <5>3 DEF ThisMs
      <4> QED BY <4>1, DutyRange
    <3> QED BY <3>1
  <2>2. age' \in Nat
    BY <1>6 DEF TypeOK
  <2>3. ASSUME NEW i \in LEDs
        PROVE  /\ on'[i] <= Elapsed'
               /\ Elapsed' <= (age' + Duty(ThisMs, i)') + (PassTime - 1)
               /\ Elapsed' <= age' + (PassTime - 1)
               /\ on'[i] <= Duty(ThisMs, i)' + Slack
               /\ on'[i] + Slack >= Elapsed'
    <3>1. on'[i] = 0 /\ Duty(ThisMs, i)' \in Nat
      BY <1>5, <2>1
    <3>2. Elapsed' = 0
      BY <1>3
    <3>3. \A a \in Nat, d \in Nat :
            0 <= (a + d) + (PassTime - 1) /\ 0 <= a + (PassTime - 1) /\ 0 <= d + Slack /\ 0 + Slack >= 0
      BY Constants
    <3>4. 0 <= 0
      OBVIOUS
    <3> QED BY <2>2, <3>1, <3>2, <3>3, <3>4, Zenon
  <2> QED BY <2>3 DEF OnInv
<1> QED BY <1>6, <1>8, <1>10, <1>11 DEF LedInv

(* The handler counts up in the last count: the millisecond is the same.   *)
LEMMA HandlerKeeps == ASSUME LedInv, sys_tick_handler PROVE LedInv'
<1> USE Constants
<1>1. /\ TypeOK /\ pending /\ ~pending' /\ tick_ms' = NextTick
      /\ UNCHANGED <<val, pc, now, phase, lit, age, disturbed, on>>
  BY DEF LedInv, sys_tick_handler, pass
<1>2. TypeOK'
  <2>1. tick_ms' \in 0 .. Wrap - 1
    BY <1>1 DEF TypeOK, NextTick
  <2>2. pending' \in BOOLEAN
    <3>1. pending' = FALSE
      BY Zenon DEF sys_tick_handler
    <3> QED BY <3>1
  <2> QED BY <1>1, <2>1, <2>2 DEF TypeOK
<1>3. Elapsed' = Elapsed
  BY <1>1 DEF Elapsed
<1>4. PassInv'
  BY <1>1, <1>3 DEF LedInv, PassInv
<1>5. ~disturbed => val = 0 /\ ThisMs' = ThisMs
  <2> SUFFICES ASSUME ~disturbed PROVE val = 0 /\ ThisMs' = ThisMs
    OBVIOUS
  <2>1. val = 0
    BY <1>1 DEF LedInv, TickInv
  <2>2. ThisMs = tick_ms
    BY <1>1, Zenon DEF ThisMs
  <2>3. ThisMs' = (tick_ms' - 1) % Wrap
    <3>1. val' = 0
      BY <1>1, <2>1
    <3> QED BY <1>1, <3>1, Zenon DEF ThisMs
  <2>4. (((tick_ms + 1) % Wrap) - 1) % Wrap = tick_ms
    BY <1>1, WrapBack DEF TypeOK
  <2> QED BY <1>1, <2>1, <2>2, <2>3, <2>4 DEF NextTick
<1>6. TickInv'
  BY <1>1, <1>3, <1>5 DEF LedInv, TickInv
<1>7. OnInv'
  BY <1>1, <1>3, <1>5 DEF LedInv, OnInv
<1> QED BY <1>2, <1>4, <1>6, <1>7 DEF LedInv

-----------------------------------------------------------------------------
(* The passes.                                                             *)
LEMMA SameMs == ASSUME UNCHANGED <<val, tick_ms, pending>> PROVE Elapsed' = Elapsed /\ ThisMs' = ThisMs
<1> QED BY DEF Elapsed, ThisMs

LEMMA PollKeeps == ASSUME LedInv, usbd_poll \/ FlashDone PROVE LedInv'
<1> USE Constants
<1>1. /\ TypeOK /\ UNCHANGED <<tick_ms, val, pending, now, phase, lit, age>> /\ pc' \in {"flash", "tick"}
  BY DEF LedInv, usbd_poll, FlashDone
<1>2. Elapsed' = Elapsed /\ ThisMs' = ThisMs /\ Elapsed \in Nat
  BY <1>1, SameMs, Positions
<1>3. /\ disturbed' \in BOOLEAN /\ (disturbed => disturbed')
      /\ pc' = "flash" => disturbed'
      /\ on' = [i \in LEDs |-> 0] \/ on' = on
      /\ ~disturbed' => on' = on
  <2>1. CASE usbd_poll
    BY <1>1, <2>1, Zenon DEF usbd_poll, TypeOK
  <2>2. CASE FlashDone
    BY <1>1, <2>2 DEF FlashDone, TypeOK
  <2> QED BY <2>1, <2>2
<1>4. \A i \in LEDs : on'[i] = 0 \/ on'[i] = on[i]
  BY <1>3
<1>5. TypeOK'
  <2>1. on' \in [LEDs -> 0 .. SYSTICK_RELOAD - 1]
    BY <1>1, <1>3 DEF TypeOK
  <2> QED BY <1>1, <1>3, <2>1 DEF TypeOK
<1>6. PassInv' /\ TickInv'
  BY <1>1, <1>2, <1>3 DEF LedInv, PassInv, TickInv
<1>7. \A i \in LEDs : on'[i] <= Elapsed'
  BY <1>2, <1>4 DEF LedInv, OnInv
<1>8. ~disturbed' => ~disturbed /\ on' = on
  BY <1>3
<1>9. OnInv'
  BY <1>1, <1>2, <1>7, <1>8 DEF LedInv, OnInv
<1> QED BY <1>5, <1>6, <1>9 DEF LedInv

LEMMA ReadKeeps == ASSUME LedInv, ReadTick \/ ReadPhase PROVE LedInv'
<1> USE Constants
<1>1. TypeOK /\ UNCHANGED <<tick_ms, val, pending, lit, age, disturbed, on>>
  BY DEF LedInv, ReadTick, ReadPhase
<1>2. Elapsed' = Elapsed /\ ThisMs' = ThisMs /\ Elapsed = (SYSTICK_RELOAD - 1) - val
      /\ Elapsed \in 0 .. SYSTICK_RELOAD - 1 /\ age \in Nat
  BY <1>1, SameMs, Positions
<1>3. OnInv'
  BY <1>1, <1>2 DEF LedInv, OnInv
<1>4. CASE ReadTick
  <2>1. pc' = "phase" /\ now' = tick_ms /\ phase' = phase /\ pc = "tick"
    BY <1>4 DEF ReadTick
  <2>2. TypeOK'
    BY <1>1, <2>1 DEF TypeOK
  <2>3. now' = ThisMs \/ Elapsed = SYSTICK_RELOAD - 1
    BY <1>2, <2>1 DEF ThisMs
  <2>4. TickInv'
    BY <1>1, <1>2, <2>1, <2>3 DEF LedInv, TickInv
  <2>5. PassInv'
    BY <2>1 DEF PassInv
  <2> QED BY <1>3, <2>2, <2>4, <2>5 DEF LedInv
<1>5. CASE ReadPhase
  <2>1. pc' = "write" /\ now' = now /\ phase' = Elapsed /\ pc = "phase"
    BY <1>5 DEF ReadPhase, Elapsed
  <2>2. TypeOK'
    BY <1>1, <1>2, <2>1 DEF TypeOK
  <2>3. TickInv'
    BY <1>1, <1>2, <2>1 DEF LedInv, TickInv
  <2>4. PassInv'
    BY <1>1, <1>2, <2>1 DEF PassInv
  <2> QED BY <1>3, <2>2, <2>3, <2>4 DEF LedInv
<1> QED BY <1>4, <1>5

(* What a pass writes is right, or the pass began before the millisecond.  *)
LEMMA WriteKeeps == ASSUME LedInv, WritePins PROVE LedInv'
<1> USE Constants
<1>1. /\ TypeOK /\ UNCHANGED <<tick_ms, val, pending, disturbed, on>>
      /\ pc = "write" /\ pc' = "poll" /\ lit' = {i \in LEDs : phase < Duty(now, i)}
      /\ now' = 0 /\ phase' = 0 /\ age' = 0
  BY DEF LedInv, WritePins, Pins
<1>2. /\ Elapsed' = Elapsed /\ ThisMs' = ThisMs
      /\ Elapsed \in 0 .. SYSTICK_RELOAD - 1 /\ age \in Nat /\ age <= PassTime /\ phase \in Nat
      /\ \A i \in LEDs : on[i] \in Nat /\ Duty(ThisMs, i) \in 0 .. MAX_DUTY
  BY <1>1, SameMs, Positions
<1>3. \A i \in LEDs : Duty(now, i) \in 0 .. MAX_DUTY
  BY <1>1, DutyRange DEF TypeOK
<1>4. TypeOK'
  BY <1>1 DEF TypeOK
<1>5. PassInv' /\ TickInv'
  BY <1>1, <1>2 DEF PassInv, TickInv, LedInv
<1>6. OnInv'
  <2> SUFFICES ASSUME ~disturbed, NEW i \in LEDs
               PROVE  /\ i \in lit' => Elapsed <= 0 + Duty(ThisMs, i) + (PassTime - 1)
                      /\ i \notin lit' /\ Elapsed < Duty(ThisMs, i) => Elapsed <= 0 + (PassTime - 1)
    BY <1>1, <1>2 DEF LedInv, OnInv
  <2>1. /\ now = ThisMs \/ Elapsed < age \/ Elapsed = SYSTICK_RELOAD - 1
        /\ \/ phase <= Elapsed /\ Elapsed <= phase + age
           \/ phase > Elapsed /\ Elapsed < age /\ phase >= MAX_DUTY
    BY <1>1 DEF LedInv, TickInv, PassInv
  <2>2. i \in lit' <=> phase < Duty(now, i)
    BY <1>1
  <2>3. CASE Elapsed < age
    BY <1>2, <2>3
  <2>4. CASE Elapsed = SYSTICK_RELOAD - 1
    BY <1>2, <1>3, <2>1, <2>2, <2>4
  <2>5. CASE now = ThisMs /\ ~(Elapsed < age)
    BY <1>2, <1>3, <2>1, <2>2, <2>5
  <2> QED BY <2>1, <2>3, <2>4, <2>5
<1> QED BY <1>4, <1>5, <1>6 DEF LedInv

LEMMA LedStep == LedInv /\ [Next]_vars => LedInv'
<1> SUFFICES ASSUME LedInv, [Next]_vars PROVE LedInv'
  OBVIOUS
<1>1. CASE Count
  BY <1>1, CountOn, CountReload
<1>2. CASE sys_tick_handler
  BY <1>2, HandlerKeeps
<1>3. CASE Loop
  BY <1>3, PollKeeps, ReadKeeps, WriteKeeps DEF Loop
<1>4. CASE UNCHANGED vars
  BY <1>4 DEF vars, pass, LedInv, TypeOK, PassInv, TickInv, OnInv, Elapsed, ThisMs
<1> QED BY <1>1, <1>2, <1>3, <1>4 DEF Next

LEMMA LedInvariant == Spec => []LedInv
<1> QED BY LedInit, LedStep, PTL DEF Spec

-----------------------------------------------------------------------------
(* Types of the indicator: a pass does not outlast PassTime, and no LED is *)
(* on for more counts than the millisecond has had.                        *)
THEOREM TypeCorrect == Spec => []TypeOK
<1>1. LedInv => TypeOK
  BY DEF LedInv
<1> QED BY <1>1, LedInvariant, PTL

(* led_indicator.c:29-31: the crossfade never jumps, at no hand-off, but   *)
(* where the 32-bit count wraps.                                           *)
THEOREM SmoothFade == Spec => Smooth
<1>1. ASSUME LedInv, [Next]_vars
      PROVE  [tick_ms' = 0 \/ \A i \in LEDs : Duty(tick_ms', i) - Duty(tick_ms, i) \in (-Ramp) .. Ramp]_vars
  <2> SUFFICES ASSUME tick_ms' # 0, NEW i \in LEDs
               PROVE  Duty(tick_ms', i) - Duty(tick_ms, i) \in (-Ramp) .. Ramp
    OBVIOUS
  <2>1. tick_ms \in 0 .. Wrap - 1 /\ tick_ms \in Nat
    BY <1>1, Constants DEF LedInv, TypeOK
  <2>2. CASE tick_ms' = tick_ms
    <3>1. Duty(tick_ms, i) \in 0 .. MAX_DUTY /\ MAX_DUTY \in Nat /\ Ramp \in Nat /\ 0 \in 0 .. FADE_MS - 1
      BY <2>1, DutyRange, Constants, LevelStep
    <3> QED BY <2>2, <3>1
  <2>3. CASE sys_tick_handler
    <3>1. tick_ms' = (tick_ms + 1) % Wrap
      BY <2>3 DEF sys_tick_handler, NextTick
    <3>2. tick_ms + 1 < Wrap
      <4> SUFFICES ASSUME tick_ms + 1 = Wrap PROVE FALSE
        BY <2>1, Constants
      <4>1. (Wrap * 1 + 0) % Wrap = 0 /\ tick_ms + 1 = Wrap * 1 + 0
        BY ModUnique, Constants
      <4> QED BY <3>1, <4>1
    <3>3. tick_ms' = tick_ms + 1
      BY <2>1, <3>1, <3>2, Constants
    <3> QED BY <2>1, <3>3, DutyStep
  <2>4. tick_ms' = tick_ms \/ sys_tick_handler
    BY <1>1 DEF Next, Count, Loop, usbd_poll, FlashDone, ReadTick, ReadPhase, WritePins, vars
  <2> QED BY <2>2, <2>3, <2>4
<1> QED BY <1>1, LedInvariant, PTL DEF Spec, Smooth

(* led_indicator.c:5-9: each LED is on for its duty, give or take less     *)
(* than two passes, in every millisecond without a flash operation.        *)
THEOREM DutyBound == Spec => DutyKept
<1>1. ASSUME LedInv, [Next]_vars, val = 0, val' # 0, ~disturbed, NEW i \in LEDs
      PROVE  OnAfter(i) - Duty((tick_ms - 1) % Wrap, i) \in (-Slack) .. Slack
  <2>1. Count
    BY <1>1 DEF Next, sys_tick_handler, Loop, usbd_poll, FlashDone, ReadTick, ReadPhase, WritePins, vars
  <2>2. ~pending /\ age < PassTime
    BY <1>1, <2>1 DEF Count, Stalled, LedInv, TickInv
  <2>3. ThisMs = (tick_ms - 1) % Wrap
    BY <1>1, <2>2, Zenon DEF ThisMs
  <2>4. /\ Elapsed = SYSTICK_RELOAD - 1 /\ age \in Nat
        /\ on[i] \in Nat /\ Duty(ThisMs, i) \in 0 .. MAX_DUTY /\ on[i] <= Elapsed
    BY <1>1, Constants, Positions DEF LedInv, OnInv
  <2>5. OnAfter(i) \in Nat /\ on[i] <= OnAfter(i) /\ OnAfter(i) <= on[i] + 1 /\ (i \notin lit => OnAfter(i) = on[i])
    BY <2>4 DEF OnAfter
  <2> HIDE DEF ThisMs, Elapsed
  <2>6. /\ i \in lit => Elapsed <= age + Duty(ThisMs, i) + (PassTime - 1)
        /\ on[i] <= Duty(ThisMs, i) + Slack
        /\ on[i] + Slack >= Elapsed \/ on[i] + Slack >= Duty(ThisMs, i)
    BY <1>1 DEF LedInv, OnInv
  <2>7. OnAfter(i) <= Duty(ThisMs, i) + Slack /\ Duty(ThisMs, i) <= OnAfter(i) + Slack
    BY <2>2, <2>4, <2>5, <2>6, Constants
  <2> QED BY <2>3, <2>4, <2>5, <2>7, Constants
<1>2. LedInv /\ [Next]_vars =>
        [val = 0 /\ val' # 0 /\ ~disturbed =>
           \A i \in LEDs : OnAfter(i) - Duty((tick_ms - 1) % Wrap, i) \in (-Slack) .. Slack]_vars
  BY <1>1
<1> QED BY <1>2, LedInvariant, PTL DEF Spec, DutyKept
=============================================================================
