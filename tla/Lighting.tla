------------------------------ MODULE Lighting ------------------------------
(***************************************************************************)
(* The RGB lighting of the firmware (firmware/src/drivers/lighting.cpp):   *)
(* the main loop computes a breathing brightness and writes the duty of    *)
(* each channel, while the TIM6 interrupt shows the duties bit by bit      *)
(* (binary code modulation): phase n puts bit n on the pins and reloads    *)
(* the timer with 2^n base ticks.                                          *)
(*                                                                         *)
(* One LED stands for the three, which the same loops handle.  The         *)
(* interrupt comes between any two steps of the loop; the timer keeps      *)
(* counting while the handler waits and while it runs.                     *)
(***************************************************************************)
EXTENDS Integers

CONSTANTS N,               \* channels, 3 of an LED
          K,               \* kPhaseCount, 10
          Top,             \* 255, the largest colour and brightness
          StepMs,          \* 8, the time between two updates
          Wrap,            \* 2^32, the modulus of tick_ms
          CntMod,          \* 2^16, the modulus of the timer
          Colours,         \* what set() and set_base() are called with
          MaxLate,         \* bound: base ticks from an update event to the end of its handler
          MaxGap           \* bound: ms between two calls of tick()

Channels == 0 .. N - 1
Phases == 0 .. K - 1
Duties == [Channels -> 0 .. 2^K - 1]
Triangle == 2 * (Top + 1)

ASSUME LightingAssumption ==
    /\ {N, K, Top, StepMs, Wrap, CntMod} \subseteq Nat \ {0} /\ {MaxLate, MaxGap} \subseteq Nat
    /\ Colours \subseteq [Channels -> 0 .. Top]
    /\ Wrap % (Triangle * StepMs) = 0

\* A timer of 16 bits for periods of 10.
ASSUME PowerAssumption ==
    /\ \A n \in 0 .. K : 2^n \in 1 .. CntMod - 1
    /\ Top < 2^K

VARIABLES duty,                              \* duty_
          phase, arr, cnt, uif,              \* phase_ and TIM6
          isr, late,                         \* the handler runs; ticks since its event
          base, now, last_breath_ms, bright, \* bright of the last update
          target, next,                      \* the loop is about to write duty[next]
          shown,                             \* the pins in the phases of this cycle
          before, writes,                    \* duty when the cycle began, writes since
          held, period                       \* ticks since the phase began; how it is timed

timer == <<arr, cnt, uif>>
breath == <<base, now, last_breath_ms, bright>>
cycle == <<phase, shown, before>>
vars == <<duty, cycle, timer, isr, late, breath, target, next, writes, held, period>>

Bit(d, n) == (d \div 2^n) % 2

-----------------------------------------------------------------------------
(* init(), with off().  The first period runs on the prescaler the timer   *)
(* had before, since PSC is loaded by an update event: its length in base  *)
(* ticks is left open.                                                     *)
Init ==
    /\ duty = [c \in Channels |-> 0]
    /\ phase = 0 /\ arr = 2^(K - 1) - 1 /\ cnt \in 0 .. arr /\ uif = FALSE
    /\ isr = FALSE /\ late = 0
    /\ base = [c \in Channels |-> 0]
    /\ now \in 0 .. Wrap - 1 /\ last_breath_ms = 0 /\ bright = 0
    /\ target = duty /\ next = N
    /\ shown = [c \in Channels |-> [n \in {0} |-> 0]]
    /\ before = duty /\ writes = [c \in Channels |-> 0]
    /\ held = 0 /\ period = "first"

-----------------------------------------------------------------------------
(* TIM6 and its handler.                                                   *)
\* Mutants: ARR=0 stops the timer; the counter is left where it is.
ArrMinusOne(n) == 2^n - 1
ArrOf(n) == IF n = 0 THEN 1 ELSE 2^n - 1
KeepCnt == cnt
ResetCnt == 0

Pending == uif \/ isr

TimerTick ==
    /\ arr # 0
    /\ Pending => late < MaxLate
    /\ cnt' = IF cnt = arr THEN 0 ELSE (cnt + 1) % CntMod
    /\ uif' = (uif \/ cnt = arr)
    /\ late' = IF Pending THEN late + 1 ELSE late
    /\ held' = held + 1
    /\ UNCHANGED <<duty, cycle, arr, isr, breath, target, next, writes, period>>

\* Mutant: the mask of the outgoing phase.
OldPhase == phase
NextPhase == (phase + 1) % K
ShownBit == NextPhase

\* tim6_dac_isr, on_tick up to the writes of the ports
IsrEnter ==
    /\ uif /\ ~isr
    /\ isr' = TRUE /\ uif' = FALSE
    /\ phase' = NextPhase
    /\ shown' = [c \in Channels |-> [n \in 0 .. NextPhase |->
                   IF n = NextPhase THEN Bit(duty[c], ShownBit) ELSE shown[c][n]]]
    /\ before' = IF NextPhase = 0 THEN duty ELSE before
    /\ writes' = IF NextPhase = 0 THEN [c \in Channels |-> 0] ELSE writes
    /\ held' = 0
    /\ UNCHANGED <<duty, arr, cnt, late, breath, target, next, period>>

\* The timer may have run full again under the handler: then the next
\* interrupt follows at once.
IsrExit ==
    /\ isr
    /\ arr' = ArrOf(phase) /\ cnt' = ResetCnt
    /\ isr' = FALSE /\ late' = 0
    /\ period' = IF uif THEN "overtaken" ELSE "full"
    /\ UNCHANGED <<duty, cycle, uif, breath, target, next, writes, held>>

-----------------------------------------------------------------------------
(* The loop.                                                               *)
Idle == ~isr /\ next = N

\* Mutant: a sawtooth.
Sawtooth(ms) == (ms \div StepMs) % (Top + 1)
Bright(ms) == LET t == (ms \div StepMs) % Triangle
              IN IF t <= Top THEN t ELSE Triangle - 1 - t
\* Mutant: rounding up.
RoundUp(b) == (b * b * (2^K - 1) + Top * Top) \div (Top * Top)
Gamma(b) == (b * b * (2^K - 1) + (Top * Top) \div 2) \div (Top * Top)
Scaled(colour, b) == (colour * Gamma(b) + Top \div 2) \div Top

set(v) ==
    /\ Idle /\ target' = v /\ next' = 0
    /\ UNCHANGED <<duty, cycle, timer, isr, late, breath, writes, held, period>>

\* Only the loop reads base_, so that the channels count as one write.
set_base(v) ==
    /\ Idle /\ base' = v
    /\ UNCHANGED <<duty, cycle, timer, isr, late, now, last_breath_ms, bright, target, next, writes, held, period>>

\* The clock is read once per iteration; the update may come any time later.
tick ==
    /\ Idle
    /\ \E d \in 0 .. MaxGap : now' = (now + d) % Wrap
    /\ IF (now' - last_breath_ms) % Wrap < StepMs
         THEN UNCHANGED <<last_breath_ms, bright, target, next>>
         ELSE /\ last_breath_ms' = now'
              /\ bright' = Bright(now')
              /\ target' = [c \in Channels |-> Scaled(base[c], Bright(now'))]
              /\ next' = 0
    /\ UNCHANGED <<duty, cycle, timer, isr, late, base, writes, held, period>>

WriteDuty ==
    /\ ~isr /\ next < N
    /\ duty' = [duty EXCEPT ![next] = target[next]]
    /\ writes' = [writes EXCEPT ![next] = IF @ < 2 THEN @ + 1 ELSE @]
    /\ next' = next + 1
    /\ UNCHANGED <<cycle, timer, isr, late, breath, target, held, period>>

Isr == IsrEnter \/ IsrExit
Loop == tick \/ WriteDuty \/ \E v \in Colours : set(v) \/ set_base(v)

Next == TimerTick \/ Isr \/ Loop

(* The timer counts, and its interrupt is never masked.                    *)
Spec == Init /\ [][Next]_vars /\ WF_vars(TimerTick) /\ WF_vars(Isr)

-----------------------------------------------------------------------------
(* Every duty fits the K bits the interrupt looks at, whatever brightness  *)
(* and colour are (lighting.cpp:113-116).                                  *)
TypeOK ==
    /\ duty \in Duties /\ target \in Duties /\ before \in Duties
    /\ phase \in Phases /\ arr \in Nat /\ cnt \in Nat /\ uif \in BOOLEAN
    /\ isr \in BOOLEAN /\ late \in 0 .. MaxLate
    /\ base \in [Channels -> 0 .. Top] /\ now \in 0 .. Wrap - 1
    /\ last_breath_ms \in 0 .. Wrap - 1 /\ bright \in 0 .. Top
    /\ next \in 0 .. N
    /\ shown \in [Channels -> [0 .. phase -> 0 .. 1]]
    /\ writes \in [Channels -> 0 .. 2]
    /\ held \in Nat /\ period \in {"first", "full", "overtaken"}

(* lighting.hpp:52-53 "single-channel ISR reads don't need a lock": a      *)
(* channel written at most once in a cycle shows the low bits of its old   *)
(* duty and the high bits of its new one; left alone, exactly its duty.    *)
Splice(c, j, n) == Bit(IF n < j THEN before[c] ELSE duty[c], n)
Spliced ==
    \A c \in Channels : writes[c] <= 1 =>
        \E j \in 0 .. phase + 1 : \A n \in 0 .. phase : shown[c][n] = Splice(c, j, n)

(* lighting.cpp:17-18, 148-150: a phase lasts its weight and at most the   *)
(* two handlers around it longer, even when the counter has run past the   *)
(* new ARR; it is shorter only if the timer overtook its handler.          *)
Weight(n) == IF n = 0 THEN 2 ELSE 2^n
PhaseLength ==
    [][phase' # phase =>
         /\ period # "first" => held <= Weight(phase) + 2 * MaxLate
         /\ period = "full" => held >= Weight(phase)]_vars

(* lighting.cpp:105-108: the brightness changes by at most one level for   *)
(* each StepMs that passes between two updates, at the turning points and  *)
(* when the clock wraps as well.                                           *)
Steps == (last_breath_ms' \div StepMs - last_breath_ms \div StepMs) % (Wrap \div StepMs)
NoJump == [][bright' - bright \in -Steps .. Steps]_vars

(* lighting.cpp:144-147: the modulation never stalls.                      *)
Refreshes == \A n \in Phases : []<>(phase = n)
=============================================================================
