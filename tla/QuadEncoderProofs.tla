-------------------------- MODULE QuadEncoderProofs --------------------------
(***************************************************************************)
(* Proofs about module QuadEncoder, for every reach, every number of edges *)
(* missed and every saturation limit.                                      *)
(***************************************************************************)
EXTENDS QuadEncoder, TLAPS

LEMMA EvenIsDouble ==
    ASSUME NEW n \in Int, n % 2 = 0 PROVE \E i \in Int : n = 2 * i
<1>1. n \div 2 \in Int /\ n = 2 * (n \div 2)
  OBVIOUS
<1> QED BY <1>1

(* Neighbouring positions decode to the edge between them; any other pair  *)
(* decodes to something of the right parity.                               *)
LEMMA StepParity ==
    ASSUME NEW p \in Int, NEW q \in Int
    PROVE  /\ kStep(phase(p), phase(q)) \in -1 .. 1
           /\ (q - p - kStep(phase(p), phase(q))) % 2 = 0
           /\ q - p \in -1 .. 1 => kStep(phase(p), phase(q)) = q - p
<1> DEFINE a == p % 4
           b == q % 4
<1>1. a \in 0 .. 3 /\ b \in 0 .. 3
  OBVIOUS
<1>2. \A n \in Int : n % 4 \in 0 .. 3 => phase(n) = IF n % 4 = 0 THEN 0 ELSE IF n % 4 = 1 THEN 2
                                             ELSE IF n % 4 = 2 THEN 3 ELSE 1
  BY DEF phase
<1>3. phase(p) = (IF a = 0 THEN 0 ELSE IF a = 1 THEN 2 ELSE IF a = 2 THEN 3 ELSE 1)
      /\ phase(q) = (IF b = 0 THEN 0 ELSE IF b = 1 THEN 2 ELSE IF b = 2 THEN 3 ELSE 1)
  BY <1>1, <1>2
<1>4. kStep(phase(p), phase(q)) =
        IF b = a + 1 \/ (a = 3 /\ b = 0) THEN 1
        ELSE IF a = b + 1 \/ (b = 3 /\ a = 0) THEN -1 ELSE 0
  <2>1. CASE a = 0
    BY <1>1, <1>3, <2>1 DEF kStep, Forward, Backward
  <2>2. CASE a = 1
    BY <1>1, <1>3, <2>2 DEF kStep, Forward, Backward
  <2>3. CASE a = 2
    BY <1>1, <1>3, <2>3 DEF kStep, Forward, Backward
  <2>4. CASE a = 3
    BY <1>1, <1>3, <2>4 DEF kStep, Forward, Backward
  <2> QED BY <1>1, <2>1, <2>2, <2>3, <2>4
<1>5. PICK i \in Int, j \in Int : p = 4 * i + a /\ q = 4 * j + b
  <2>1. p \div 4 \in Int /\ q \div 4 \in Int /\ p = 4 * (p \div 4) + a /\ q = 4 * (q \div 4) + b
    OBVIOUS
  <2> QED BY <2>1
<1> HIDE DEF a, b
<1>6. (q - p - kStep(phase(p), phase(q))) % 2 = 0
  BY <1>1, <1>4, <1>5
<1>7. q - p \in -1 .. 1 => kStep(phase(p), phase(q)) = q - p
  BY <1>1, <1>4, <1>5
<1> QED BY <1>1, <1>4, <1>6, <1>7

(* What the two loops do to a counter that is at most two away from zero.  *)
LEMMA EmitRange ==
    ASSUME NEW n \in -2 .. 2
    PROVE  /\ Emitted(n) \in -1 .. 1
           /\ n - 2 * Emitted(n) \in -1 .. 1
<1>1. CASE n \in 0 .. 1
  BY <1>1 DEF Emitted
<1>2. CASE n = 2
  BY <1>2 DEF Emitted
<1>3. CASE n = -1
  BY <1>3 DEF Emitted
<1>4. CASE n = -2
  BY <1>4 DEF Emitted
<1> QED BY <1>1, <1>2, <1>3, <1>4

LEMMA InitInv == Init => EncoderInv
<1> SUFFICES ASSUME Init PROVE EncoderInv
  OBVIOUS
<1>1. phase(shaft) \in 0 .. 3
  BY DEF Init, phase
<1> QED BY <1>1, EncoderAssumption DEF Init, EncoderInv, TypeOK, NoDrift, InStep, Turned, Ticks

(* The step that matters: poll() decodes what happened since the last one. *)
LEMMA PollInv == EncoderInv /\ poll => EncoderInv'
<1> SUFFICES ASSUME EncoderInv, poll PROVE EncoderInv'
  OBVIOUS
<1> DEFINE d == kStep(phase(seen), phase(shaft))
           a == accum + d
           e == Emitted(a)
<1>1. /\ shaft \in Int /\ seen \in Int /\ origin \in Int /\ sent \in Int /\ lost \in Int
      /\ misses \in Nat /\ accum \in -1 .. 1 /\ ticks \in -MaxTicks .. MaxTicks
      /\ MaxTicks \in Nat
  BY EncoderAssumption DEF EncoderInv, TypeOK
<1>2. /\ last' = phase(shaft) /\ seen' = shaft /\ accum' = a - 2 * e
      /\ ticks' = Saturated(ticks + e) /\ lost' = lost + (ticks + e - ticks')
      /\ shaft' = shaft /\ origin' = origin /\ sent' = sent
      /\ misses' = IF Abs(shaft - seen) >= 2 THEN misses + 1 ELSE misses
  BY DEF poll, EncoderInv
<1>3. /\ d \in -1 .. 1 /\ (shaft - seen - d) % 2 = 0
      /\ shaft - seen \in -1 .. 1 => d = shaft - seen
  BY <1>1, StepParity
<1> HIDE DEF d
<1>4. e \in -1 .. 1 /\ a - 2 * e \in -1 .. 1
  BY <1>1, <1>3, EmitRange
<1> HIDE DEF e
<1>5. ticks' \in -MaxTicks .. MaxTicks
  BY <1>1, <1>2, <1>4 DEF Saturated
<1>6. misses' \in Nat /\ (misses' = 0 => misses = 0 /\ shaft - seen \in -1 .. 1)
  BY <1>1, <1>2 DEF Abs
<1>7. TypeOK'
  <2>1. phase(shaft) \in 0 .. 3
    BY <1>1 DEF phase
  <2> QED BY <1>1, <1>2, <1>4, <1>5, <1>6, <2>1 DEF TypeOK
<1>8. (last = phase(seen))'
  BY <1>2
<1>9. NoDrift'
  BY <1>1, <1>2, <1>3, <1>4, <1>5, <1>6 DEF NoDrift, Turned, Ticks, EncoderInv
<1>10. InStep'
  <2> DEFINE x == seen - origin - accum
             y == shaft - seen - d
  <2>1. x \in Int /\ x % 2 = 0
    BY <1>1 DEF EncoderInv, InStep, Turned
  <2>2. y \in Int /\ y % 2 = 0
    BY <1>1, <1>3
  <2>3. shaft - origin - (a - 2 * e) = x + y + 2 * e
    BY <1>1, <1>3, <1>4
  <2> HIDE DEF x, y
  <2>4. PICK i \in Int, j \in Int : x = 2 * i /\ y = 2 * j
    BY <2>1, <2>2, EvenIsDouble
  <2>5. x + y + 2 * e = 2 * (i + j + e) /\ i + j + e \in Int
    BY <1>4, <2>4
  <2>6. (x + y + 2 * e) % 2 = 0
    BY <2>5
  <2> QED BY <1>2, <2>3, <2>6 DEF InStep, Turned
<1> QED BY <1>7, <1>8, <1>9, <1>10 DEF EncoderInv

LEMMA StepInv == EncoderInv /\ [Next]_vars => EncoderInv'
<1> SUFFICES ASSUME EncoderInv, [Next]_vars PROVE EncoderInv'
  OBVIOUS
<1>1. ASSUME NEW d \in {-1, 1}, Turn(d) PROVE EncoderInv'
  BY <1>1 DEF Turn, wheel, history, EncoderInv, TypeOK, NoDrift, InStep, Turned, Ticks
<1>2. CASE poll
  BY <1>2, PollInv
<1>3. CASE consume_ticks
  BY <1>3, EncoderAssumption
     DEF consume_ticks, EncoderInv, TypeOK, NoDrift, InStep, Turned, Ticks
<1>4. CASE UNCHANGED vars
  BY <1>4 DEF vars, wheel, history, EncoderInv, TypeOK, NoDrift, InStep, Turned, Ticks
<1> QED BY <1>1, <1>2, <1>3, <1>4 DEF Next

LEMMA EncoderCorrect == Spec => []EncoderInv
<1> QED BY InitInv, StepInv, PTL DEF Spec

(* The types of the decoder's state.                                       *)
THEOREM TypeCorrect == Spec => []TypeOK
<1>1. EncoderInv => TypeOK
  BY DEF EncoderInv
<1> QED BY <1>1, EncoderCorrect, PTL

(* encoder_quad.hpp:51-56 for every turning of the wheel and every         *)
(* interleaving of poll() and consume_ticks(): without missed edges the    *)
(* ticks are exactly half of the edges.                                    *)
THEOREM DecodingExact == Spec => []NoDrift
<1>1. EncoderInv => NoDrift
  BY DEF EncoderInv
<1> QED BY <1>1, EncoderCorrect, PTL

(* encoder_quad.hpp:40-41, however many edges were missed: an error is     *)
(* always a whole number of ticks.                                         *)
THEOREM DecoderInStep == Spec => []InStep
<1>1. EncoderInv => InStep
  BY DEF EncoderInv
<1> QED BY <1>1, EncoderCorrect, PTL

(* encoder_quad.hpp:73-79: saturation loses what exceeds the limit and     *)
(* nothing else.                                                           *)
THEOREM SaturationKeeps == Spec => OnlyOverflowIsLost
<1> DEFINE Kept == lost' # lost => /\ Abs(ticks) = MaxTicks /\ ticks' = ticks
                                   /\ Abs(lost' - lost) = 1 /\ (lost' > lost <=> ticks > 0)
<1>1. EncoderInv /\ [Next]_vars => Kept
  <2> SUFFICES ASSUME EncoderInv, [Next]_vars, lost' # lost
               PROVE  /\ Abs(ticks) = MaxTicks /\ ticks' = ticks
                      /\ Abs(lost' - lost) = 1 /\ (lost' > lost <=> ticks > 0)
    OBVIOUS
  <2>1. poll
    BY DEF Next, Turn, consume_ticks, vars, history
  <2> DEFINE e == Emitted(accum + kStep(phase(seen), phase(shaft)))
  <2>2. /\ MaxTicks \in Nat \ {0} /\ ticks \in -MaxTicks .. MaxTicks /\ accum \in -1 .. 1
        /\ lost \in Int /\ shaft \in Int /\ seen \in Int
    BY EncoderAssumption DEF EncoderInv, TypeOK
  <2>3. ticks' = Saturated(ticks + e) /\ lost' = lost + (ticks + e - ticks')
    BY <2>1 DEF poll, EncoderInv
  <2>4. kStep(phase(seen), phase(shaft)) \in -1 .. 1
    BY <2>2, StepParity
  <2>5. e \in -1 .. 1
    <3> DEFINE s == kStep(phase(seen), phase(shaft))
    <3> HIDE DEF s
    <3>1. accum + s \in -2 .. 2
      BY <2>2, <2>4 DEF s
    <3>2. Emitted(accum + s) \in -1 .. 1
      BY <3>1, EmitRange
    <3> QED BY <3>2 DEF s
  <2> HIDE DEF e
  <2> QED BY <2>2, <2>3, <2>5 DEF Saturated, Abs
<1> QED BY <1>1, EncoderCorrect, PTL DEF Spec, OnlyOverflowIsLost
=============================================================================
