--------------------------- MODULE LightingProofs ---------------------------
(***************************************************************************)
(* Proofs about module Lighting, for every number of channels and of       *)
(* phases, every range of colours and every lateness of the handler.       *)
(***************************************************************************)
EXTENDS Lighting, IntegerLemmas

LEMMA ConstantTypes ==
    /\ N \in Nat \ {0} /\ K \in Nat \ {0} /\ Top \in Nat \ {0} /\ StepMs \in Nat \ {0}
    /\ Wrap \in Nat \ {0} /\ CntMod \in Nat \ {0} /\ MaxLate \in Nat /\ MaxGap \in Nat
<1> QED BY LightingAssumption

LEMMA PowerType == \A n \in 0 .. K : 2^n \in Nat /\ 2^n >= 1 /\ 2^n <= CntMod - 1
<1> QED BY PowerAssumption, ConstantTypes

(* The gamma curve stays below the largest duty, and so does its scaling   *)
(* by a colour: lighting.cpp:113-116 fit K bits.                           *)
LEMMA ScaledFits ==
    ASSUME NEW colour \in 0 .. Top, NEW b \in 0 .. Top
    PROVE  Scaled(colour, b) \in 0 .. 2^K - 1
<1> DEFINE m == 2^K - 1
           sq == Top * Top
<1>1. m \in Nat /\ Top \in Nat /\ Top >= 1 /\ b \in Nat /\ b <= Top /\ colour \in Nat /\ colour <= Top
  BY ConstantTypes, PowerType
<1>2. sq \in Nat \ {0} /\ b * b \in Nat /\ b * b <= sq
  <2>1. b * b <= Top * b
    BY <1>1
  <2>2. Top * b <= Top * Top
    BY <1>1
  <2>3. Top * Top >= 1
    BY <1>1
  <2> QED BY <1>1, <2>1, <2>2, <2>3
<1> HIDE DEF m, sq
<1>3. (b * b) * m <= sq * m /\ (b * b) * m \in Nat
  BY <1>1, <1>2
<1>4. sq \div 2 \in Nat /\ sq \div 2 < sq
  BY <1>2
<1>5. ((b * b) * m + sq \div 2) \div sq \in 0 .. m
  <2> DEFINE a == (b * b) * m + sq \div 2
  <2>1. a \in Nat /\ a < sq * m + sq
    BY <1>1, <1>2, <1>3, <1>4
  <2> HIDE DEF a
  <2>2. a \div sq \in 0 .. m
    BY <1>1, <1>2, <2>1, QuotientBound
  <2> QED BY <2>2 DEF a
<1>6. Gamma(b) \in 0 .. m
  BY <1>5 DEF Gamma, m, sq
<1>7. (colour * Gamma(b) + Top \div 2) \div Top \in 0 .. m
  <2> DEFINE g == Gamma(b)
             a == colour * g + Top \div 2
  <2>1. g \in Nat /\ g <= m
    BY <1>1, <1>6
  <2> HIDE DEF g
  <2>2. colour * g \in Nat /\ colour * g <= Top * g
    BY <1>1, <2>1
  <2>3. Top * g <= Top * m
    BY <1>1, <2>1
  <2>4. Top \div 2 \in Nat /\ Top \div 2 < Top
    BY <1>1
  <2>5. a \in Nat /\ a < Top * m + Top
    <3> DEFINE cg == colour * g
               tm == Top * m
    <3>1. cg \in Nat /\ tm \in Nat /\ cg <= tm
      BY <1>1, <2>1, <2>2, <2>3
    <3> HIDE DEF cg, tm
    <3>2. cg + Top \div 2 \in Nat /\ cg + Top \div 2 < tm + Top
      BY <1>1, <2>4, <3>1
    <3> QED BY <3>2 DEF cg, tm
  <2>6. Top \in Nat \ {0}
    BY <1>1
  <2> HIDE DEF a
  <2>7. a \div Top \in 0 .. m
    BY <1>1, <2>5, <2>6, QuotientBound
  <2> QED BY <2>7 DEF a, g
<1> QED BY <1>7 DEF Scaled, m

LEMMA BrightType == ASSUME NEW ms \in Nat PROVE Bright(ms) \in 0 .. Top
<1>1. Triangle \in Nat \ {0} /\ ms \div StepMs \in Int
  BY ConstantTypes DEF Triangle
<1>2. (ms \div StepMs) % Triangle \in 0 .. Triangle - 1
  BY <1>1
<1> QED BY <1>2, ConstantTypes DEF Bright, Triangle

LEMMA BitType == ASSUME NEW d \in Nat, NEW n \in 0 .. K PROVE Bit(d, n) \in 0 .. 1
<1>1. 2^n \in Nat \ {0}
  BY PowerType
<1>2. d \div 2^n \in Int
  BY <1>1
<1> QED BY <1>2 DEF Bit

LEMMA ZeroBit == \A n \in 0 .. K : Bit(0, n) = 0
<1> SUFFICES ASSUME NEW n \in 0 .. K PROVE Bit(0, n) = 0
  OBVIOUS
<1> DEFINE p == 2^n
<1>1. p \in Nat \ {0}
  BY PowerType
<1> HIDE DEF p
<1>2. 0 \div p = 0
  BY <1>1
<1>3. (0 \div p) % 2 = 0
  BY <1>2
<1> QED BY <1>3 DEF Bit, p

LEMMA NextPhaseType == ASSUME phase \in Phases
                       PROVE  /\ NextPhase \in Phases
                              /\ NextPhase # 0 => NextPhase = phase + 1
<1> QED BY ConstantTypes DEF NextPhase, Phases

-----------------------------------------------------------------------------
(* Types.                                                                  *)
LEMMA DutyBit == ASSUME NEW d \in Duties, NEW c \in Channels, NEW n \in 0 .. K
                 PROVE  d[c] \in Nat /\ Bit(d[c], n) \in 0 .. 1
<1>1. 2^K \in Nat /\ K \in 0 .. K
  BY PowerType, ConstantTypes
<1>2. d[c] \in Nat
  BY <1>1 DEF Duties
<1> QED BY <1>2, BitType

LEMMA ArrType == \A n \in Phases : ArrOf(n) \in Nat /\ ArrOf(n) < CntMod /\ Weight(n) = ArrOf(n) + 1
<1> SUFFICES ASSUME NEW n \in Phases PROVE ArrOf(n) \in Nat /\ ArrOf(n) < CntMod /\ Weight(n) = ArrOf(n) + 1
  OBVIOUS
<1> DEFINE p == 2^n
<1>1. p \in Nat /\ p >= 1 /\ p <= CntMod - 1 /\ CntMod \in Nat
  <2>1. n \in 0 .. K
    BY ConstantTypes DEF Phases
  <2> QED BY <2>1, PowerType, ConstantTypes
<1> HIDE DEF p
<1>2. ArrOf(n) = (IF n = 0 THEN 1 ELSE p - 1) /\ Weight(n) = (IF n = 0 THEN 2 ELSE p)
  BY DEF ArrOf, Weight, p
<1> QED BY <1>1, <1>2

LEMMA CountType == \A w \in 0 .. 2 : (IF w < 2 THEN w + 1 ELSE w) \in 0 .. 2
<1> QED OBVIOUS

LEMMA InitTypes == Init => TypeOK
<1> SUFFICES ASSUME Init PROVE TypeOK
  OBVIOUS
<1> USE ConstantTypes DEF Init
<1>1. 2^K \in Nat /\ 2^K >= 1 /\ 2^(K - 1) - 1 \in Nat
  <2>1. K \in 0 .. K /\ K - 1 \in 0 .. K
    OBVIOUS
  <2>2. 2^K \in Nat /\ 2^K >= 1
    BY <2>1, PowerType
  <2>3. 2^(K - 1) \in Nat /\ 2^(K - 1) >= 1
    BY <2>1, PowerType
  <2> QED BY <2>2, <2>3
<1>2. duty \in Duties /\ target \in Duties /\ before \in Duties
  BY <1>1 DEF Duties
<1>3. arr \in Nat /\ cnt \in Nat
  BY <1>1
<1>4. base \in [Channels -> 0 .. Top]
  BY LightingAssumption
<1>5. shown \in [Channels -> [0 .. phase -> 0 .. 1]]
  <2>1. {0} = 0 .. 0
    OBVIOUS
  <2> QED BY <2>1
<1>6. phase \in Phases /\ next \in 0 .. N /\ last_breath_ms \in 0 .. Wrap - 1
  BY DEF Phases
<1>7. writes \in [Channels -> 0 .. 2] /\ late \in 0 .. MaxLate /\ bright \in 0 .. Top
  OBVIOUS
<1> QED BY <1>2, <1>3, <1>4, <1>5, <1>6, <1>7 DEF TypeOK

LEMMA StepTypes == TypeOK /\ [Next]_vars => TypeOK'
<1> SUFFICES ASSUME TypeOK, [Next]_vars PROVE TypeOK'
  OBVIOUS
<1> USE ConstantTypes DEF TypeOK
<1>1. CASE TimerTick
  <2> USE <1>1 DEF TimerTick, cycle, breath
  <2>1. cnt' \in Nat
    <3>1. (cnt + 1) % CntMod \in Nat
      OBVIOUS
    <3> QED BY <3>1
  <2>1a. uif' \in BOOLEAN
    OBVIOUS
  <2>1b. late' \in 0 .. MaxLate /\ held' \in Nat
    OBVIOUS
  <2>2. UNCHANGED <<duty, phase, shown, before, arr, isr, base, now, last_breath_ms, bright,
                    target, next, writes, period>>
    OBVIOUS
  <2> QED BY <2>1, <2>1a, <2>1b, <2>2
<1>2. CASE IsrEnter
  <2> USE <1>2 DEF IsrEnter, breath
  <2>1. NextPhase \in Phases /\ (NextPhase # 0 => NextPhase = phase + 1)
    BY NextPhaseType
  <2>2. shown' \in [Channels -> [0 .. phase' -> 0 .. 1]]
    <3> SUFFICES ASSUME NEW c \in Channels, NEW n \in 0 .. NextPhase
                 PROVE  (IF n = NextPhase THEN Bit(duty[c], ShownBit) ELSE shown[c][n]) \in 0 .. 1
      BY ConstantTypes
    <3>1. Bit(duty[c], ShownBit) \in 0 .. 1
      <4>1. ShownBit \in 0 .. K /\ duty \in Duties
        BY <2>1 DEF ShownBit, Phases
      <4> HIDE DEF IsrEnter, TypeOK
      <4> QED BY <4>1, DutyBit
    <3>2. n # NextPhase => n \in 0 .. phase
      BY <2>1 DEF Phases
    <3> QED BY <3>1, <3>2
  <2>3. before' \in Duties /\ writes' \in [Channels -> 0 .. 2] /\ held' \in Nat /\ phase' \in Phases
    BY <2>1
  <2>4. UNCHANGED <<duty, arr, cnt, late, base, now, last_breath_ms, bright, target, next, period>>
    OBVIOUS
  <2> QED BY <2>2, <2>3, <2>4
<1>3. CASE IsrExit
  <2> USE <1>3 DEF IsrExit, cycle, breath, ResetCnt
  <2>1. arr' \in Nat /\ cnt' \in Nat /\ late' \in 0 .. MaxLate
    BY ArrType
  <2> QED BY <2>1
<1>4. ASSUME NEW v \in Colours, set(v) PROVE TypeOK'
  <2> USE <1>4 DEF set, cycle, timer, breath
  <2>1. Top <= 2^K - 1 /\ 2^K \in Nat
    <3>1. K \in 0 .. K
      OBVIOUS
    <3> QED BY <3>1, PowerType, PowerAssumption
  <2>2. target' \in Duties /\ next' \in 0 .. N
    BY <2>1, LightingAssumption DEF Duties
  <2> QED BY <2>2
<1>5. CASE tick
  <2> USE <1>5 DEF tick, cycle, timer
  <2>1. now' \in 0 .. Wrap - 1
    <3> PICK d \in 0 .. MaxGap : now' = (now + d) % Wrap
      OBVIOUS
    <3>1. now + d \in Int
      OBVIOUS
    <3> QED BY <3>1
  <2>2. UNCHANGED <<duty, phase, shown, before, arr, cnt, uif, isr, late, base, writes, held, period>>
    OBVIOUS
  <2>3. CASE UNCHANGED <<last_breath_ms, bright, target, next>>
    BY <2>1, <2>2, <2>3
  <2>4. CASE ~UNCHANGED <<last_breath_ms, bright, target, next>>
    <3>1. /\ last_breath_ms' = now' /\ bright' = Bright(now') /\ next' = 0
          /\ target' = [c \in Channels |-> Scaled(base[c], Bright(now'))]
      BY <2>4
    <3>2. bright' \in 0 .. Top
      BY <2>1, <3>1, BrightType
    <3>3. target' \in Duties
      <4> SUFFICES ASSUME NEW c \in Channels PROVE Scaled(base[c], bright') \in 0 .. 2^K - 1
        BY <3>1 DEF Duties
      <4> QED BY <3>2, ScaledFits
    <3> QED BY <2>1, <2>2, <3>1, <3>2, <3>3
  <2> QED BY <2>3, <2>4
<1>6. CASE WriteDuty
  <2> USE <1>6 DEF WriteDuty, cycle, timer, breath
  <2>1. next \in Channels
    BY DEF Channels
  <2>2. duty' \in Duties
    BY <2>1 DEF Duties
  <2>3. writes' \in [Channels -> 0 .. 2] /\ next' \in 0 .. N
    <3>1. writes[next] \in 0 .. 2
      BY <2>1
    <3>2. (IF writes[next] < 2 THEN writes[next] + 1 ELSE writes[next]) \in 0 .. 2
      BY <3>1, CountType
    <3>3. next' \in 0 .. N
      <4>1. next \in Int /\ next >= 0 /\ next < N /\ next' = next + 1
        BY <2>1 DEF Channels
      <4> HIDE DEF WriteDuty, TypeOK
      <4> QED BY <4>1, ConstantTypes
    <3> QED BY <2>1, <3>2, <3>3
  <2>4. UNCHANGED <<phase, shown, before, arr, cnt, uif, isr, late, base, now, last_breath_ms, bright,
                    target, held, period>>
    OBVIOUS
  <2> QED BY <2>2, <2>3, <2>4
<1>7. ASSUME NEW v \in Colours, set_base(v) PROVE TypeOK'
  <2>1. base' \in [Channels -> 0 .. Top]
    BY <1>7, LightingAssumption DEF set_base
  <2> QED BY <1>7, <2>1 DEF set_base, cycle, timer
<1>8. CASE UNCHANGED vars
  BY <1>8 DEF vars, cycle, timer, breath
<1> QED BY <1>1, <1>2, <1>3, <1>4, <1>5, <1>6, <1>7, <1>8 DEF Next, Isr, Loop

(* lighting.cpp:99-118, 121-151: every duty the loop writes fits the bits  *)
(* the interrupt looks at, whatever the interleaving.                      *)
THEOREM TypeCorrect == Spec => []TypeOK
<1> QED BY InitTypes, StepTypes, PTL DEF Spec

-----------------------------------------------------------------------------
(* The splice.  A channel not written in this cycle has kept its duty; the *)
(* first write splits the cycle at the phase it comes in.                  *)
SpliceInv == /\ \A c \in Channels : writes[c] = 0 => before[c] = duty[c]
             /\ Spliced

LEMMA InitSplice == Init => SpliceInv
<1> SUFFICES ASSUME Init PROVE SpliceInv
  OBVIOUS
<1>1. \A c \in Channels : before[c] = duty[c] /\ duty[c] = 0
  BY DEF Init
<1>2. ASSUME NEW c \in Channels
      PROVE  \E j \in 0 .. phase + 1 : \A n \in 0 .. phase : shown[c][n] = Splice(c, j, n)
  <2>1. phase = 0 /\ shown[c] = [n \in {0} |-> 0]
    BY DEF Init
  <2>2. ASSUME NEW n \in 0 .. phase PROVE shown[c][n] = Splice(c, 0, n)
    <3>1. n = 0 /\ shown[c][n] = 0 /\ ~(n < 0)
      BY <2>1
    <3>2. Bit(0, 0) = 0
      BY ZeroBit, ConstantTypes
    <3> QED BY <1>1, <3>1, <3>2 DEF Splice
  <2>3. 0 \in 0 .. phase + 1
    BY <2>1
  <2> QED BY <2>2, <2>3
<1> QED BY <1>1, <1>2 DEF SpliceInv, Spliced

LEMMA StepSplice == TypeOK /\ SpliceInv /\ [Next]_vars => SpliceInv'
<1> SUFFICES ASSUME TypeOK, SpliceInv, [Next]_vars PROVE SpliceInv'
  OBVIOUS
<1> USE ConstantTypes
<1>1. CASE UNCHANGED <<duty, phase, shown, before, writes>>
  BY <1>1 DEF SpliceInv, Spliced, Splice
<1>2. CASE IsrEnter
  <2>1. /\ NextPhase \in Phases /\ phase' = NextPhase
        /\ NextPhase # 0 => NextPhase = phase + 1
        /\ duty' = duty /\ duty \in Duties
    BY <1>2, NextPhaseType DEF IsrEnter, TypeOK
  <2>2. \A c \in Channels : \A n \in 0 .. NextPhase :
          shown'[c][n] = IF n = NextPhase THEN Bit(duty[c], n) ELSE shown[c][n]
    BY <1>2 DEF IsrEnter, ShownBit
  <2>3. CASE NextPhase = 0
    <3>1. before' = duty /\ writes' = [c \in Channels |-> 0]
      BY <1>2, <2>3 DEF IsrEnter
    <3>2. ASSUME NEW c \in Channels
          PROVE  \E j \in 0 .. phase' + 1 : \A n \in 0 .. phase' : shown'[c][n] = Splice(c, j, n)'
      <4>1. ASSUME NEW n \in 0 .. phase' PROVE shown'[c][n] = Splice(c, 0, n)'
        BY <2>1, <2>2, <2>3, <4>1 DEF Splice
      <4>2. 0 \in 0 .. phase' + 1
        BY <2>1, <2>3
      <4> QED BY <4>1, <4>2
    <3> QED BY <2>1, <3>1, <3>2 DEF SpliceInv, Spliced
  <2>4. CASE NextPhase # 0
    <3>1. before' = before /\ writes' = writes /\ phase' = phase + 1 /\ phase \in Nat
      BY <1>2, <2>1, <2>4 DEF IsrEnter, TypeOK, Phases
    <3>2. ASSUME NEW c \in Channels, writes'[c] <= 1
          PROVE  \E j \in 0 .. phase' + 1 : \A n \in 0 .. phase' : shown'[c][n] = Splice(c, j, n)'
      <4>1. PICK j \in 0 .. phase + 1 : \A n \in 0 .. phase : shown[c][n] = Splice(c, j, n)
        BY <3>1, <3>2 DEF SpliceInv, Spliced
      <4>2. ASSUME NEW n \in 0 .. phase' PROVE shown'[c][n] = Splice(c, j, n)'
        <5>1. Splice(c, j, n)' = Splice(c, j, n)
          BY <2>1, <3>1 DEF Splice
        <5>2. CASE n = NextPhase
          <6>1. ~(n < j)
            BY <3>1, <5>2, <2>1
          <6> QED BY <2>1, <2>2, <5>1, <5>2, <6>1 DEF Splice
        <5>3. CASE n # NextPhase
          <6>1. n \in 0 .. phase
            BY <2>1, <3>1, <5>3
          <6> QED BY <2>1, <2>2, <4>1, <5>1, <5>3, <6>1
        <5> QED BY <5>2, <5>3
      <4>3. j \in 0 .. phase' + 1
        BY <3>1
      <4> QED BY <4>2, <4>3
    <3> QED BY <2>1, <3>1, <3>2 DEF SpliceInv, Spliced
  <2> QED BY <2>3, <2>4
<1>3. CASE WriteDuty
  <2>1. /\ next \in Channels /\ duty \in Duties /\ writes \in [Channels -> 0 .. 2] /\ phase \in Nat
        /\ phase' = phase /\ shown' = shown /\ before' = before
        /\ duty' = [duty EXCEPT ![next] = target[next]]
        /\ writes' = [writes EXCEPT ![next] = IF @ < 2 THEN @ + 1 ELSE @]
    <3>1. next \in Channels
      <4>1. next \in Int /\ next >= 0 /\ next < N
        BY <1>3 DEF WriteDuty, TypeOK
      <4> QED BY <4>1 DEF Channels
    <3>2. duty \in Duties /\ writes \in [Channels -> 0 .. 2] /\ phase \in Nat
      BY DEF TypeOK, Phases
    <3> QED BY <1>3, <3>1, <3>2 DEF WriteDuty, cycle
  <2>2. ASSUME NEW c \in Channels, c # next
        PROVE  duty'[c] = duty[c] /\ writes'[c] = writes[c]
    BY <2>1, <2>2 DEF Duties
  <2>3. writes[next] \in 0 .. 2 /\ writes'[next] = IF writes[next] < 2 THEN writes[next] + 1 ELSE writes[next]
    BY <2>1
  <2>4. writes'[next] # 0 /\ (writes'[next] <= 1 => writes[next] = 0)
    BY <2>3
  <2>5. \A c \in Channels : writes'[c] = 0 => before'[c] = duty'[c]
    BY <2>1, <2>2, <2>4 DEF SpliceInv
  <2>6. ASSUME NEW c \in Channels, writes'[c] <= 1
        PROVE  \E j \in 0 .. phase' + 1 : \A n \in 0 .. phase' : shown'[c][n] = Splice(c, j, n)'
    <3>1. CASE c # next
      <4>1. PICK j \in 0 .. phase + 1 : \A n \in 0 .. phase : shown[c][n] = Splice(c, j, n)
        BY <2>2, <2>6, <3>1 DEF SpliceInv, Spliced
      <4>2. ASSUME NEW n \in 0 .. phase' PROVE shown'[c][n] = Splice(c, j, n)'
        <5>1. Splice(c, j, n)' = Splice(c, j, n)
          BY <2>1, <2>2, <3>1 DEF Splice
        <5> QED BY <2>1, <4>1, <5>1
      <4>3. j \in 0 .. phase' + 1
        BY <2>1
      <4> QED BY <4>2, <4>3
    <3>2. CASE c = next
      <4>1. writes[c] = 0 /\ before[c] = duty[c]
        BY <2>4, <2>6, <3>2 DEF SpliceInv
      <4>2. PICK j \in 0 .. phase + 1 : \A n \in 0 .. phase : shown[c][n] = Splice(c, j, n)
        BY <4>1 DEF SpliceInv, Spliced
      <4>0. PICK k \in 0 .. phase + 1 : k = phase + 1
        BY <2>1
      <4>3. ASSUME NEW n \in 0 .. phase' PROVE shown'[c][n] = Splice(c, k, n)'
        <5>1. n \in 0 .. phase /\ n < k
          BY <2>1, <4>0
        <5>2. shown[c][n] = Bit(before[c], n)
          BY <4>1, <4>2, <5>1 DEF Splice
        <5> QED BY <2>1, <5>1, <5>2 DEF Splice
      <4>4. k \in 0 .. phase' + 1
        BY <2>1
      <4> QED BY <4>3, <4>4
    <3> QED BY <3>1, <3>2
  <2> QED BY <2>5, <2>6 DEF SpliceInv, Spliced
<1>4. CASE Loop /\ ~WriteDuty
  BY <1>4, <1>1 DEF Loop, set, set_base, tick, cycle
<1>5. CASE TimerTick \/ IsrExit \/ UNCHANGED vars
  BY <1>5, <1>1 DEF TimerTick, IsrExit, vars, cycle
<1> QED BY <1>2, <1>3, <1>4, <1>5 DEF Next, Isr

(* lighting.hpp:52-53 without a lock: a channel written at most once in a  *)
(* cycle shows the low bits of the old duty and the high bits of the new.  *)
THEOREM SplicedCorrect == Spec => []Spliced
<1>1. SpliceInv => Spliced
  BY DEF SpliceInv
<1> QED BY <1>1, InitTypes, StepTypes, InitSplice, StepSplice, PTL DEF Spec

-----------------------------------------------------------------------------
(* The length of a phase.  Between the handlers the counter says how long  *)
(* the phase has lasted, once the handler has reset it.                    *)
PeriodInv ==
    /\ ~Pending => late = 0
    /\ isr => held <= late
    /\ ~isr /\ period # "first" =>
          /\ arr = ArrOf(phase)
          /\ uif => held <= MaxLate + arr + 1 + late
          /\ ~uif => cnt <= arr /\ held <= MaxLate + cnt
    /\ ~isr /\ period = "full" => held >= IF uif THEN arr + 1 ELSE cnt

LEMMA InitPeriod == Init => PeriodInv
<1> QED BY ConstantTypes DEF Init, PeriodInv, Pending

LEMMA StepPeriod == TypeOK /\ PeriodInv /\ [Next]_vars => PeriodInv'
<1> SUFFICES ASSUME TypeOK, PeriodInv, [Next]_vars PROVE PeriodInv'
  OBVIOUS
<1> USE ConstantTypes
<1>0. ArrOf(phase) \in Nat /\ ArrOf(phase) < CntMod
  BY ArrType DEF TypeOK
<1>1. CASE TimerTick
  <2>1. /\ cnt' = IF cnt = arr THEN 0 ELSE (cnt + 1) % CntMod
        /\ uif' = (uif \/ cnt = arr) /\ held' = held + 1
        /\ late' = (IF Pending THEN late + 1 ELSE late)
        /\ phase' = phase /\ arr' = arr /\ isr' = isr /\ period' = period
    BY <1>1 DEF TimerTick, cycle
  <2>2. cnt \in Nat /\ arr \in Nat /\ held \in Nat /\ late \in 0 .. MaxLate /\ uif \in BOOLEAN /\ isr \in BOOLEAN
    BY DEF TypeOK
  <2>3. ASSUME ~isr, ~uif, period # "first", cnt # arr PROVE cnt' = cnt + 1 /\ cnt < arr
    <3>1. cnt <= arr /\ arr < CntMod
      BY <1>0, <2>3 DEF PeriodInv
    <3>2. cnt + 1 \in 0 .. CntMod - 1
      BY <2>2, <2>3, <3>1
    <3>3. (cnt + 1) % CntMod = cnt + 1
      BY <3>2
    <3> QED BY <2>1, <2>2, <2>3, <3>1, <3>3
  <2>4. (~Pending => late = 0)' /\ (isr => held <= late)'
    BY <2>1, <2>2 DEF PeriodInv, Pending
  <2>5. ASSUME ~isr, period # "first"
        PROVE  /\ arr' = ArrOf(phase')
               /\ uif' => held' <= MaxLate + arr' + 1 + late'
               /\ ~uif' => cnt' <= arr' /\ held' <= MaxLate + cnt'
    <3>0. arr' = ArrOf(phase')
      BY <2>1, <2>5 DEF PeriodInv
    <3>1. CASE uif
      <4>1. held <= MaxLate + arr + 1 + late /\ uif' /\ late' = late + 1
        BY <2>1, <2>2, <2>5, <3>1 DEF PeriodInv, Pending
      <4> QED BY <2>1, <2>2, <3>0, <4>1
    <3>2. CASE ~uif /\ cnt = arr
      <4>1. held <= MaxLate + cnt /\ uif' /\ late' = 0
        BY <2>1, <2>2, <2>5, <3>2 DEF PeriodInv, Pending
      <4> QED BY <2>1, <2>2, <3>0, <3>2, <4>1
    <3>3. CASE ~uif /\ cnt # arr
      <4>1. held <= MaxLate + cnt /\ ~uif' /\ cnt' = cnt + 1 /\ cnt < arr
        BY <2>1, <2>2, <2>3, <2>5, <3>3 DEF PeriodInv
      <4> QED BY <2>1, <2>2, <3>0, <4>1
    <3> QED BY <3>1, <3>2, <3>3
  <2>6. ASSUME ~isr, period = "full" PROVE held' >= IF uif' THEN arr' + 1 ELSE cnt'
    <3>1. CASE uif
      <4>1. held >= arr + 1 /\ uif'
        BY <2>1, <2>6, <3>1 DEF PeriodInv
      <4> QED BY <2>1, <2>2, <4>1
    <3>2. CASE ~uif /\ cnt = arr
      <4>1. held >= cnt /\ uif'
        BY <2>1, <2>6, <3>2 DEF PeriodInv
      <4> QED BY <2>1, <2>2, <3>2, <4>1
    <3>3. CASE ~uif /\ cnt # arr
      <4>1. held >= cnt /\ ~uif' /\ cnt' = cnt + 1
        BY <2>1, <2>2, <2>3, <2>6, <3>3 DEF PeriodInv
      <4> QED BY <2>1, <2>2, <4>1
    <3> QED BY <3>1, <3>2, <3>3
  <2> QED BY <2>1, <2>4, <2>5, <2>6 DEF PeriodInv
<1>2. CASE IsrEnter
  BY <1>2 DEF IsrEnter, TypeOK, PeriodInv, Pending
<1>3. CASE IsrExit
  BY <1>0, <1>3 DEF IsrExit, ResetCnt, TypeOK, PeriodInv, Pending, cycle
<1>4. CASE Loop \/ UNCHANGED vars
  <2>1. UNCHANGED <<phase, arr, cnt, uif, isr, late, held, period>>
    BY <1>4 DEF Loop, set, set_base, tick, WriteDuty, vars, cycle, timer
  <2> QED BY <2>1 DEF PeriodInv, Pending, ArrOf
<1> QED BY <1>1, <1>2, <1>3, <1>4 DEF Next, Isr

LEMMA PhaseStep ==
    TypeOK /\ PeriodInv /\ [Next]_vars =>
      [phase' # phase =>
         /\ period # "first" => held <= Weight(phase) + 2 * MaxLate
         /\ period = "full" => held >= Weight(phase)]_vars
<1> SUFFICES ASSUME TypeOK, PeriodInv, [Next]_vars, phase' # phase
             PROVE  /\ period # "first" => held <= Weight(phase) + 2 * MaxLate
                    /\ period = "full" => held >= Weight(phase)
  OBVIOUS
<1>1. uif /\ ~isr
  BY DEF Next, Isr, Loop, TimerTick, IsrEnter, IsrExit, set, set_base, tick, WriteDuty, vars, cycle
<1>2. ArrOf(phase) \in Nat /\ Weight(phase) = ArrOf(phase) + 1
  BY ArrType DEF TypeOK
<1> QED BY <1>1, <1>2, ConstantTypes DEF TypeOK, PeriodInv

(* lighting.cpp:148-150: no lateness of the handler makes a phase shorter, *)
(* unless the timer overtakes it, and none makes it longer than by two     *)
(* handlers.                                                               *)
THEOREM PhaseLengthCorrect == Spec => PhaseLength
<1> QED BY InitTypes, StepTypes, InitPeriod, StepPeriod, PhaseStep, PTL DEF Spec, PhaseLength

-----------------------------------------------------------------------------
(* The triangular wave over a clock that wraps.                            *)
Wave(x) == LET t == x % Triangle IN IF t <= Top THEN t ELSE Triangle - 1 - t

LEMMA BrightIsWave == \A ms : Bright(ms) = Wave(ms \div StepMs)
<1> QED BY DEF Bright, Wave

(* Within k levels of the phase the wave moves by k at most.               *)
LEMMA WaveStep == ASSUME NEW a \in Nat, NEW k \in Nat PROVE Wave(a + k) - Wave(a) \in -k .. k
<1> DEFINE T == Triangle
           u == a % T
           v == (a + k) % T
<1>1. T \in Nat \ {0} /\ T = 2 * Top + 2 /\ Top \in Nat
  BY ConstantTypes DEF Triangle
<1>2. u \in 0 .. T - 1 /\ v \in 0 .. T - 1
  BY <1>1
<1>3. Wave(a) = (IF u <= Top THEN u ELSE T - 1 - u) /\ Wave(a + k) = IF v <= Top THEN v ELSE T - 1 - v
  BY DEF Wave
<1>4. CASE k >= Top
  <2> HIDE DEF T, u, v
  <2> QED BY <1>1, <1>2, <1>3, <1>4
<1>5. CASE k < Top
  <2> DEFINE q == a \div T
  <2>1. q \in Int /\ a = T * q + u
    BY <1>1
  <2>2. CASE u + k < T
    <3>1. (T * q + (u + k)) % T = u + k
      <4> HIDE DEF T, u, q
      <4>1. u + k \in 0 .. T - 1
        BY <1>1, <1>2, <2>2
      <4> QED BY <1>1, <2>1, <4>1, ModUnique
    <3>2. a + k = T * q + (u + k)
      <4> HIDE DEF T, u, q
      <4> QED BY <1>1, <1>2, <2>1
    <3>3. v = u + k
      BY <3>1, <3>2
    <3> HIDE DEF T, u, v, q
    <3> QED BY <1>1, <1>2, <1>3, <3>3
  <2>3. CASE u + k >= T
    <3>1. (T * (q + 1) + (u + k - T)) % T = u + k - T
      <4> HIDE DEF T, u, q
      <4>1. u + k - T \in 0 .. T - 1 /\ q + 1 \in Int
        BY <1>1, <1>2, <1>5, <2>1, <2>3
      <4> QED BY <1>1, <4>1, ModUnique
    <3>2. a + k = T * (q + 1) + (u + k - T)
      <4> HIDE DEF T, u, q
      <4>1. T * (q + 1) = T * q + T
        BY <1>1, <2>1
      <4> QED BY <1>1, <1>2, <2>1, <4>1
    <3>3. v = u + k - T
      BY <3>1, <3>2
    <3> HIDE DEF T, u, v, q
    <3> QED BY <1>1, <1>2, <1>3, <1>5, <3>3
  <2> HIDE DEF T, u
  <2> QED BY <1>1, <1>2, <2>2, <2>3
<1> QED BY <1>1, <1>4, <1>5

(* The clock wraps after whole waves.                                      *)
LEMMA WaveWraps ==
    /\ Wrap \div StepMs \in Nat \ {0} /\ Wrap = StepMs * (Wrap \div StepMs)
    /\ \A x \in Nat : Wave(x + Wrap \div StepMs) = Wave(x)
<1> DEFINE T == Triangle
           S == StepMs
           m == Wrap \div (T * S)
           w == Wrap \div S
<1>1. T \in Nat \ {0} /\ S \in Nat \ {0} /\ Wrap \in Nat \ {0}
  BY ConstantTypes DEF Triangle
<1>2. T * S \in Nat \ {0} /\ Wrap % (T * S) = 0
  BY <1>1, LightingAssumption
<1>3. m \in Int /\ Wrap = (T * S) * m
  BY <1>1, <1>2
<1>4. w = T * m
  <2>1. w \in Int /\ Wrap = S * w + (Wrap % S) /\ Wrap % S \in 0 .. S - 1
    BY <1>1
  <2>2. (S * (T * m) + 0) % S = 0
    <3> HIDE DEF T, S, m
    <3> QED BY <1>1, <1>3, ModUnique
  <2>3. S * (T * m) + 0 = Wrap
    <3> HIDE DEF T, S, m
    <3> QED BY <1>1, <1>3
  <2>4. S * w = S * (T * m)
    BY <1>1, <2>1, <2>2, <2>3
  <2>5. T * m \in Int
    BY <1>1, <1>3
  <2> HIDE DEF S, w
  <2> QED BY <1>1, <2>1, <2>4, <2>5, Cancel
<1>5. w \in Nat \ {0} /\ Wrap = S * w
  <2>1. w \in Int /\ Wrap = S * w
    <3>1. w \in Int
      BY <1>1
    <3> HIDE DEF T, S, m, w
    <3> QED BY <1>1, <1>3, <1>4, <3>1
  <2> HIDE DEF T, S, m, w
  <2>2. w > 0
    BY <1>1, <2>1
  <2> QED BY <2>1, <2>2
<1>6. ASSUME NEW x \in Nat PROVE (x + w) % T = x % T
  <2> DEFINE q == x \div T
             r == x % T
  <2>1. q \in Int /\ r \in 0 .. T - 1 /\ x = T * q + r
    BY <1>1
  <2> HIDE DEF T, S, m, w, q, r
  <2>2. T * (q + m) = T * q + T * m /\ q + m \in Int
    BY <1>1, <1>3, <2>1
  <2>3. x + w = T * (q + m) + r
    BY <1>1, <1>3, <1>4, <2>1, <2>2
  <2>4. (T * (q + m) + r) % T = r
    BY <1>1, <2>1, <2>2, ModUnique
  <2> QED BY <2>3, <2>4 DEF r
<1> QED BY <1>5, <1>6 DEF Wave

LEMMA BrightMoves ==
    ASSUME NEW s \in 0 .. Wrap - 1, NEW t \in 0 .. Wrap - 1
    PROVE  LET k == (t \div StepMs - s \div StepMs) % (Wrap \div StepMs)
           IN Bright(t) - Bright(s) \in -k .. k
<1> DEFINE w == Wrap \div StepMs
           a == s \div StepMs
           b == t \div StepMs
           k == (b - a) % w
<1>1. StepMs \in Nat \ {0} /\ w \in Nat \ {0} /\ Wrap = StepMs * w
  BY ConstantTypes, WaveWraps
<1>2. ASSUME NEW x \in 0 .. Wrap - 1 PROVE x \div StepMs \in 0 .. w - 1
  <2>1. x \in Nat /\ w - 1 \in Nat /\ x < StepMs * (w - 1) + StepMs
    <3>1. StepMs * (w - 1) + StepMs = StepMs * w
      BY <1>1
    <3> HIDE DEF w
    <3> QED BY <1>1, <3>1
  <2> HIDE DEF w
  <2> QED BY <1>1, <2>1, QuotientBound
<1>3. a \in 0 .. w - 1 /\ b \in 0 .. w - 1
  BY <1>2
<1>4. k \in Nat /\ k = IF b >= a THEN b - a ELSE b - a + w
  <2> HIDE DEF w, a, b
  <2>1. CASE b >= a
    <3>1. b - a \in 0 .. w - 1
      BY <1>1, <1>3, <2>1
    <3> QED BY <1>1, <2>1, <3>1
  <2>2. CASE b < a
    <3>1. b - a + w \in 0 .. w - 1
      BY <1>1, <1>3, <2>2
    <3>2. (w * (-1) + (b - a + w)) % w = b - a + w
      BY <1>1, <3>1, ModUnique
    <3>3. w * (-1) + (b - a + w) = b - a
      BY <1>1, <1>3
    <3> QED BY <1>1, <1>3, <2>2, <3>1, <3>2, <3>3
  <2> QED BY <1>3, <2>1, <2>2
<1>5. Wave(b) - Wave(a) \in -k .. k
  <2>1. Wave(a + k) - Wave(a) \in -k .. k
    <3>1. a \in Nat /\ k \in Nat
      <4> HIDE DEF w, k, a, b
      <4> QED BY <1>1, <1>3, <1>4
    <3> HIDE DEF k, a
    <3> QED BY <3>1, WaveStep
  <2>2. CASE b >= a
    <3>1. a + k = b
      <4> HIDE DEF w, a, b, k
      <4> QED BY <1>3, <1>4, <2>2
    <3> QED BY <2>1, <3>1
  <2>3. CASE b < a
    <3>1. a + k = b + w
      <4> HIDE DEF w, a, b, k
      <4> QED BY <1>1, <1>3, <1>4, <2>3
    <3>2. Wave(b + w) = Wave(b)
      BY <1>3, WaveWraps
    <3> QED BY <2>1, <3>1, <3>2
  <2> HIDE DEF w, a, b, k
  <2> QED BY <1>3, <2>2, <2>3
<1> QED BY <1>5, BrightIsWave

BrightInv == bright = Bright(last_breath_ms)

LEMMA InitBright == Init => BrightInv
<1>1. Triangle \in Nat \ {0} /\ StepMs \in Nat \ {0} /\ Top \in Nat
  BY ConstantTypes DEF Triangle
<1>2. 0 \div StepMs = 0 /\ 0 % Triangle = 0
  BY <1>1
<1>3. Bright(0) = 0
  BY <1>1, <1>2 DEF Bright
<1> QED BY <1>3 DEF Init, BrightInv

LEMMA StepBright ==
    TypeOK /\ BrightInv /\ [Next]_vars =>
        BrightInv' /\ [bright' - bright \in -Steps .. Steps]_vars
<1> SUFFICES ASSUME TypeOK, BrightInv, [Next]_vars
             PROVE  BrightInv' /\ bright' - bright \in -Steps .. Steps
  OBVIOUS
<1>1. BrightInv'
  <2>1. CASE UNCHANGED <<last_breath_ms, bright>>
    BY <2>1 DEF BrightInv
  <2>2. CASE tick
    BY <2>2, <2>1 DEF tick, BrightInv
  <2> QED BY <2>1, <2>2 DEF Next, Isr, Loop, TimerTick, IsrEnter, IsrExit, set, set_base, WriteDuty, vars, breath
<1>2. last_breath_ms \in 0 .. Wrap - 1
  BY DEF TypeOK
<1>3. last_breath_ms' \in 0 .. Wrap - 1
  BY StepTypes DEF TypeOK
<1>4. Bright(last_breath_ms') - Bright(last_breath_ms) \in -Steps .. Steps
  BY <1>2, <1>3, BrightMoves DEF Steps
<1> QED BY <1>1, <1>4 DEF BrightInv

(* lighting.cpp:105-108: the breathing has no jump, for any clock whose    *)
(* modulus is a whole number of breaths.                                   *)
THEOREM NoJumpCorrect == Spec => NoJump
<1> QED BY InitTypes, StepTypes, InitBright, StepBright, PTL DEF Spec, NoJump
=============================================================================
