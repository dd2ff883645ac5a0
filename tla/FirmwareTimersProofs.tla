------------------------ MODULE FirmwareTimersProofs ------------------------
(***************************************************************************)
(* Proofs about module FirmwareTimers, for every length of the delays and  *)
(* of an iteration, and every counter that is wide enough for them.        *)
(***************************************************************************)
EXTENDS FirmwareTimers, IntegerLemmas

(* How long ago the clock showed now, state_started_ms and                 *)
(* dpi_pressed_since, if that is less than a turn of the counter.          *)
NowAge == (tick_ms - now) % Wrap
StartAge == (tick_ms - state_started_ms) % Wrap
PressAge == (tick_ms - dpi_pressed_since) % Wrap

Reading == pc \in {"sensor", "frames", "dpi"}
InLoop == pc = "head" \/ Reading

(* A pass is never followed by another one in the next iteration.          *)
LagInv ==
    /\ InLoop => NowAge = lag
    /\ InLoop /\ pc # "frames" /\ lag > LoopMs => state \in {"WaitGap", "SetDpi"}
    /\ pc = "sensor" => lag <= LoopMs
    /\ pc = "frames" => state \in {"Pass1", "Pass2"}

VccInv ==
    /\ InLoop /\ state = "WaitVcc" /\ settled < kVccSettleMs => StartAge = settled /\ lag <= settled
    /\ state # "WaitVcc" => settled >= kVccSettleMs

GapInv ==
    /\ InLoop /\ state = "WaitGap" /\ rested < kPassGapMs =>
         lag <= StartAge /\ StartAge <= rested + PassMs
    /\ state = "Pass2" => rested + PassMs >= kPassGapMs

(* dpi_pressed_since is not older than the last sample of a released pin.  *)
UpInv ==
    /\ InLoop /\ dpi_was_pressed /\ upAge < DPI_HOLD_MS => PressAge <= upAge
    /\ Reading /\ ~dpi_was_pressed /\ upAge < DPI_HOLD_MS => lag <= upAge
    /\ pc = "release" => upAge >= DPI_HOLD_MS

(* How long an iteration may have begun after the press was noticed.       *)
Noticed ==
    \/ PressAge <= (lag + LoopMs) + (DPI_HOLD_MS - 1)
    \/ /\ PressAge <= (lag + PassMs) + (DPI_HOLD_MS - 1)
       /\ pc # "frames" /\ lag <= LoopMs
       /\ pc = "sensor" => state \in {"WaitGap", "SetDpi"}

HeldInv ==
    /\ ~dpi => held = 0
    /\ pc = "head" /\ ~dpi_was_pressed => held <= lag /\ held <= LoopMs
    /\ Reading /\ ~dpi_was_pressed => held <= LoopMs + lag
    /\ InLoop /\ dpi_was_pressed => lag <= PressAge /\ held <= LoopMs + PressAge
    /\ pc = "head" /\ dpi_was_pressed => PressAge <= lag + (DPI_HOLD_MS - 1)
    /\ Reading /\ dpi_was_pressed => Noticed

TimerInv == TypeOK /\ LagInv /\ VccInv /\ GapInv /\ UpInv /\ HeldInv

(* How far the bring-up has come, by the age of init_start(): in each      *)
(* state of the driver, the age at which the iteration began that the      *)
(* state can last to, and lag.                                             *)
AtRest == pc = "head" \/ pc = "dpi"

WaitVccBy ==
    /\ StartAge = settled /\ lag <= settled
    /\ AtRest => lag <= LoopMs /\ settled <= (kVccSettleMs - 1) + lag
    /\ settled <= (kVccSettleMs - 1) + LoopMs + lag

Pass1By ==
    /\ AtRest => lag <= LoopMs /\ settled <= (kVccSettleMs - 1) + LoopMs + lag
    /\ settled <= SupplyBy + lag

WaitGapBy ==
    /\ lag <= StartAge /\ settled <= SupplyBy + StartAge
    /\ AtRest => StartAge = lag \/ (lag <= LoopMs /\ StartAge <= (kPassGapMs - 1) + lag)
    /\ StartAge <= GapBy + lag

Pass2By ==
    /\ AtRest => lag <= LoopMs /\ settled <= SupplyBy + GapBy + lag
    /\ settled <= SupplyBy + GapBy + LoopMs + lag

SetDpiBy ==
    /\ AtRest => settled <= SupplyBy + GapBy + LoopMs + lag
    /\ settled <= SupplyBy + GapBy + LoopMs + PassMs + lag
    /\ ~AtRest => lag <= LoopMs

BringInv == InLoop => /\ state = "WaitVcc" => WaitVccBy
                      /\ state = "Pass1" => Pass1By
                      /\ state = "WaitGap" => WaitGapBy
                      /\ state = "Pass2" => Pass2By
                      /\ state = "SetDpi" => SetDpiBy

-----------------------------------------------------------------------------
LEMMA Constants ==
    /\ Wrap \in Nat \ {0} /\ kVccSettleMs \in Nat /\ kPassGapMs \in Nat /\ DPI_HOLD_MS \in Nat
    /\ LoopMs \in Nat /\ PassMs \in Nat /\ LoopMs <= PassMs /\ Latest \in Nat
    /\ kVccSettleMs >= 1 /\ kVccSettleMs + PassMs + LoopMs < Wrap
    /\ kPassGapMs >= 1 /\ kPassGapMs + PassMs + LoopMs < Wrap
    /\ DPI_HOLD_MS >= 1 /\ DPI_HOLD_MS + PassMs + LoopMs < Wrap
    /\ Latest = 2 * LoopMs + PassMs + (DPI_HOLD_MS - 1)
    /\ BringupMs \in Nat /\ kVccSettleMs <= BringupMs + 1
<1>1. /\ {Wrap, kVccSettleMs, kPassGapMs, DPI_HOLD_MS, LoopMs, PassMs} \subseteq Nat
      /\ LoopMs <= PassMs
      /\ {kVccSettleMs, kPassGapMs, DPI_HOLD_MS} \subseteq 1 .. Wrap - PassMs - LoopMs - 1
  BY TimerAssumption
<1>2. /\ Wrap \in Nat /\ kVccSettleMs \in Nat /\ kPassGapMs \in Nat /\ DPI_HOLD_MS \in Nat
      /\ LoopMs \in Nat /\ PassMs \in Nat
  BY <1>1
<1>3. /\ kVccSettleMs \in 1 .. Wrap - PassMs - LoopMs - 1 /\ kPassGapMs \in 1 .. Wrap - PassMs - LoopMs - 1
      /\ DPI_HOLD_MS \in 1 .. Wrap - PassMs - LoopMs - 1
  BY <1>1
<1>4. BringupMs \in Nat /\ kVccSettleMs <= BringupMs + 1
  <2>1. SupplyBy \in Nat /\ SupplyBy >= kVccSettleMs - 1 /\ GapBy \in Nat
    BY <1>2, <1>3 DEF SupplyBy, GapBy
  <2> QED BY <1>2, <2>1 DEF BringupMs
<1> QED BY <1>1, <1>2, <1>3, <1>4 DEF Latest

(* A tick of the clock makes a time stamp one older, unless the counter    *)
(* has come round to it.                                                   *)
LEMMA Ticking ==
    ASSUME NEW w \in Nat \ {0}, NEW a \in 0 .. w - 1, NEW b \in 0 .. w - 1, ((a - b) % w) + 1 < w
    PROVE  (((a + 1) % w) - b) % w = ((a - b) % w) + 1
<1> DEFINE q == (a - b) \div w
           d == (a - b) % w
           p == (a + 1) \div w
           c == (a + 1) % w
<1>1. /\ a - b \in Int /\ a + 1 \in Int
  OBVIOUS
<1>2. /\ q \in Int /\ d \in 0 .. w - 1 /\ a - b = (w * q) + d
      /\ p \in Int /\ c \in 0 .. w - 1 /\ a + 1 = (w * p) + c
  BY <1>1
<1>3. w * (q - p) = (w * q) - (w * p) /\ q - p \in Int /\ w * q \in Int /\ w * p \in Int
  <2> HIDE DEF q, p
  <2> QED BY <1>2
<1>4. d + 1 \in 0 .. w - 1
  BY <1>2
<1> HIDE DEF q, d, p, c
<1>5. c - b = (w * (q - p)) + (d + 1)
  BY <1>2, <1>3
<1>6. ((w * (q - p)) + (d + 1)) % w = d + 1
  BY <1>3, <1>4, ModUnique
<1> QED BY <1>5, <1>6 DEF c, d

(* The time between two stamps is the difference of their ages.            *)
LEMMA Between ==
    ASSUME NEW w \in Nat \ {0}, NEW a \in 0 .. w - 1, NEW b \in 0 .. w - 1, NEW c \in 0 .. w - 1,
           (a - b) % w <= (a - c) % w
    PROVE  (b - c) % w = ((a - c) % w) - ((a - b) % w)
<1> DEFINE q == (a - b) \div w
           d == (a - b) % w
           p == (a - c) \div w
           e == (a - c) % w
<1>1. /\ a - b \in Int /\ a - c \in Int
  OBVIOUS
<1>2. /\ q \in Int /\ d \in 0 .. w - 1 /\ a - b = (w * q) + d
      /\ p \in Int /\ e \in 0 .. w - 1 /\ a - c = (w * p) + e
  BY <1>1
<1>3. w * (p - q) = (w * p) - (w * q) /\ p - q \in Int /\ w * q \in Int /\ w * p \in Int
  <2> HIDE DEF q, p
  <2> QED BY <1>2
<1>4. e - d \in 0 .. w - 1
  BY <1>2
<1> HIDE DEF q, d, p, e
<1>5. b - c = (w * (p - q)) + (e - d)
  BY <1>2, <1>3
<1>6. ((w * (p - q)) + (e - d)) % w = e - d
  BY <1>3, <1>4, ModUnique
<1> QED BY <1>5, <1>6 DEF d, e

LEMMA Monotone ==
    ASSUME NEW a \in Nat, NEW b \in Nat, NEW c \in Nat, NEW d \in Nat, a >= b, b + c >= d
    PROVE  a + c >= d
<1> QED OBVIOUS

LEMMA Itself == ASSUME NEW w \in Nat \ {0}, NEW a \in 0 .. w - 1 PROVE (a - a) % w = 0
<1> QED OBVIOUS

-----------------------------------------------------------------------------
LEMMA Types ==
    TypeOK <=>
    /\ tick_ms \in 0 .. Wrap - 1 /\ now \in 0 .. Wrap - 1 /\ state_started_ms \in 0 .. Wrap - 1
    /\ dpi_pressed_since \in 0 .. Wrap - 1
    /\ pc \in {"head", "sensor", "frames", "dpi", "release", "reset"}
    /\ state \in InitStates
    /\ dpi \in BOOLEAN /\ dpi_was_pressed \in BOOLEAN /\ magic \in BOOLEAN
    /\ lag \in 0 .. PassMs /\ settled \in 0 .. BringupMs + 1 /\ rested \in 0 .. kPassGapMs
    /\ held \in 0 .. Latest + 1 /\ upAge \in 0 .. DPI_HOLD_MS
<1> QED BY DEF TypeOK

LEMMA AgeTypes ==
    ASSUME TypeOK
    PROVE  /\ NowAge \in 0 .. Wrap - 1 /\ StartAge \in 0 .. Wrap - 1 /\ PressAge \in 0 .. Wrap - 1
<1>1. Wrap \in Nat \ {0} /\ tick_ms - now \in Int /\ tick_ms - state_started_ms \in Int
      /\ tick_ms - dpi_pressed_since \in Int
  BY Constants, Types
<1> QED BY <1>1 DEF NowAge, StartAge, PressAge

LEMMA OlderBy == ASSUME NEW cap \in Nat, NEW age \in 0 .. cap
                 PROVE  Older(age, cap) \in 0 .. cap /\ Older(age, cap) <= age + 1 /\ Older(age, cap) >= age
                        /\ (Older(age, cap) < cap => age < cap /\ Older(age, cap) = age + 1)
<1> QED BY DEF Older

LEMMA InitInv == Init => TimerInv
<1> SUFFICES ASSUME Init PROVE TimerInv
  OBVIOUS
<1> USE Constants
<1>1. TypeOK
  <2>1. /\ dpi_pressed_since \in 0 .. Wrap - 1 /\ lag \in 0 .. PassMs /\ settled \in 0 .. BringupMs + 1
        /\ rested \in 0 .. kPassGapMs /\ held \in 0 .. Latest + 1 /\ upAge \in 0 .. DPI_HOLD_MS
    BY DEF Init
  <2> QED BY <2>1, Types DEF Init, InitStates
<1>2. NowAge = 0 /\ StartAge = 0
  BY <1>1, Types, Itself DEF Init, NowAge, StartAge
<1> QED BY <1>1, <1>2 DEF Init, TimerInv, LagInv, VccInv, GapInv, UpInv, HeldInv, InLoop, Reading

LEMMA RestartKeeps == ASSUME TimerInv, Restart PROVE TimerInv'
<1> USE Constants
<1>1. TypeOK'
  <2>1. /\ dpi_pressed_since' \in 0 .. Wrap - 1 /\ lag' \in 0 .. PassMs /\ settled' \in 0 .. BringupMs + 1
        /\ rested' \in 0 .. kPassGapMs /\ held' \in 0 .. Latest + 1 /\ upAge' \in 0 .. DPI_HOLD_MS
    BY DEF Restart
  <2>2. dpi' \in BOOLEAN
    BY DEF Restart, TimerInv, TypeOK
  <2> QED BY <2>1, <2>2 DEF Restart, InitStates, TypeOK
<1>2. NowAge' = 0 /\ StartAge' = 0
  BY Itself DEF Restart, NowAge, StartAge
<1>3. dpi' = dpi /\ dpi \in BOOLEAN
  BY DEF Restart, TimerInv, TypeOK
<1> QED BY <1>1, <1>2, <1>3 DEF Restart, TimerInv, LagInv, VccInv, GapInv, UpInv, HeldInv, InLoop, Reading

-----------------------------------------------------------------------------
LEMMA TickKeeps == ASSUME TimerInv, sys_tick_handler PROVE TimerInv'
<1> USE Constants
<1>0. TypeOK
  BY DEF TimerInv
<1>1. /\ UNCHANGED <<pc, now, state, state_started_ms, dpi, dpi_was_pressed, dpi_pressed_since, magic>>
      /\ pc \in {"head", "sensor", "frames", "dpi", "release"}
      /\ lag' = (IF pc = "release" THEN lag ELSE lag + 1)
      /\ pc \in {"head", "sensor", "dpi"} => lag < LoopMs
      /\ pc = "frames" => lag < PassMs
  BY DEF sys_tick_handler, sensor, press
<1>2. /\ settled' = Older(settled, BringupMs + 1) /\ rested' = Older(rested, kPassGapMs)
      /\ held' = (IF dpi THEN Older(held, Latest + 1) ELSE 0) /\ upAge' = Older(upAge, DPI_HOLD_MS)
      /\ tick_ms' = (tick_ms + 1) % Wrap
  BY DEF sys_tick_handler, NextTick
<1>3. /\ settled' \in 0 .. BringupMs + 1 /\ settled' >= settled
      /\ settled' < kVccSettleMs => settled < kVccSettleMs /\ settled' = settled + 1
  <2>1. settled \in 0 .. BringupMs + 1 /\ BringupMs + 1 \in Nat
    BY <1>0, Types
  <2>2. /\ Older(settled, BringupMs + 1) \in 0 .. BringupMs + 1 /\ Older(settled, BringupMs + 1) >= settled
        /\ Older(settled, BringupMs + 1) < BringupMs + 1 =>
             settled < BringupMs + 1 /\ Older(settled, BringupMs + 1) = settled + 1
    <3> HIDE Constants
    <3> QED BY <2>1, OlderBy
  <2> QED BY <1>2, <2>1, <2>2
<1>4. /\ rested' \in 0 .. kPassGapMs /\ rested' >= rested
      /\ rested' < kPassGapMs => rested < kPassGapMs /\ rested' = rested + 1
  BY <1>0, <1>2, Types, OlderBy
<1>5. /\ upAge' \in 0 .. DPI_HOLD_MS /\ upAge' >= upAge
      /\ upAge' < DPI_HOLD_MS => upAge < DPI_HOLD_MS /\ upAge' = upAge + 1
  BY <1>0, <1>2, Types, OlderBy
<1>6. held' \in 0 .. Latest + 1 /\ held' <= held + 1 /\ (~dpi => held' = 0)
  <2>1. held \in 0 .. Latest + 1 /\ Latest + 1 \in Nat
    BY <1>0, Types
  <2>2. Older(held, Latest + 1) \in 0 .. Latest + 1 /\ Older(held, Latest + 1) <= held + 1
    <3> HIDE Constants
    <3> QED BY <2>1, OlderBy
  <2>3. CASE dpi
    BY <1>2, <2>2, <2>3
  <2>4. CASE ~dpi
    BY <1>2, <2>1, <2>4
  <2> QED BY <2>3, <2>4
<1>7. lag' \in 0 .. PassMs /\ tick_ms' \in 0 .. Wrap - 1
  BY <1>0, <1>1, <1>2, Types
<1>8. TypeOK'
  BY <1>0, <1>1, <1>3, <1>4, <1>5, <1>6, <1>7 DEF TypeOK
<1>9. NowAge \in Nat /\ StartAge \in Nat /\ PressAge \in Nat
  BY <1>0, AgeTypes
<1>10. /\ NowAge + 1 < Wrap => NowAge' = NowAge + 1
       /\ StartAge + 1 < Wrap => StartAge' = StartAge + 1
       /\ PressAge + 1 < Wrap => PressAge' = PressAge + 1
  BY <1>0, <1>1, <1>2, Types, Ticking DEF NowAge, StartAge, PressAge
<1>11. /\ lag \in Nat /\ settled \in Nat /\ rested \in Nat /\ upAge \in Nat /\ held \in Nat
       /\ lag <= PassMs /\ held' \in Nat
  BY <1>0, <1>6, Types
<1>12. (InLoop' <=> InLoop) /\ (Reading' <=> Reading) /\ (InLoop => pc # "release" /\ lag' = lag + 1)
  BY <1>1 DEF InLoop, Reading
<1>13. LagInv'
  <2>1. InLoop => NowAge' = lag'
    BY <1>1, <1>9, <1>10, <1>11, <1>12 DEF TimerInv, LagInv, InLoop, Reading
  <2>2. InLoop /\ pc # "frames" => lag' <= LoopMs
    BY <1>1, <1>11, <1>12 DEF InLoop, Reading
  <2> QED BY <1>1, <1>7, <1>12, <2>1, <2>2 DEF TimerInv, LagInv
<1>14. VccInv'
  <2>1. ASSUME InLoop, state = "WaitVcc", settled' < kVccSettleMs
        PROVE  StartAge' = settled' /\ lag' <= settled'
    <3>1. settled < kVccSettleMs /\ settled' = settled + 1 /\ StartAge = settled /\ lag <= settled
      BY <1>3, <2>1 DEF TimerInv, VccInv
    <3> QED BY <1>10, <1>11, <1>12, <2>1, <3>1
  <2>2. state # "WaitVcc" => settled' >= kVccSettleMs
    BY <1>3, <1>11 DEF TimerInv, VccInv
  <2> QED BY <1>1, <1>12, <2>1, <2>2 DEF VccInv
<1>15. GapInv'
  <2>1. ASSUME InLoop, state = "WaitGap", rested' < kPassGapMs
        PROVE  lag' <= StartAge' /\ StartAge' <= rested' + PassMs
    <3>1. /\ rested < kPassGapMs /\ rested' = rested + 1
          /\ lag <= StartAge /\ StartAge <= rested + PassMs
      BY <1>4, <2>1 DEF TimerInv, GapInv
    <3>2. StartAge' = StartAge + 1
      BY <1>9, <1>10, <1>11, <3>1
    <3> QED BY <1>9, <1>11, <1>12, <2>1, <3>1, <3>2
  <2>2. ASSUME state = "Pass2" PROVE rested' + PassMs >= kPassGapMs
    <3>1. rested' \in Nat /\ rested' >= rested /\ rested \in Nat /\ PassMs \in Nat
      BY <1>4, <1>11
    <3>2. rested + PassMs >= kPassGapMs
      BY <2>2 DEF TimerInv, GapInv
    <3> QED BY <3>1, <3>2, Monotone
  <2> QED BY <1>1, <1>12, <2>1, <2>2 DEF GapInv
<1>16. UpInv'
  <2>1. ASSUME InLoop, dpi_was_pressed, upAge' < DPI_HOLD_MS PROVE PressAge' <= upAge'
    <3>1. upAge < DPI_HOLD_MS /\ upAge' = upAge + 1 /\ PressAge <= upAge
      BY <1>5, <2>1 DEF TimerInv, UpInv
    <3> QED BY <1>9, <1>10, <1>11, <3>1
  <2>2. ASSUME Reading, ~dpi_was_pressed, upAge' < DPI_HOLD_MS PROVE lag' <= upAge'
    <3>1. upAge < DPI_HOLD_MS /\ upAge' = upAge + 1 /\ lag <= upAge
      BY <1>5, <2>2 DEF TimerInv, UpInv
    <3> QED BY <1>11, <1>12, <2>2, <3>1 DEF InLoop
  <2>3. pc = "release" => upAge' >= DPI_HOLD_MS
    BY <1>5, <1>11 DEF TimerInv, UpInv
  <2> QED BY <1>1, <1>12, <2>1, <2>2, <2>3 DEF UpInv
<1>17. HeldInv'
  <2>1. pc = "head" /\ ~dpi_was_pressed => held' <= lag' /\ held' <= LoopMs
    BY <1>1, <1>6, <1>11, <1>12 DEF TimerInv, HeldInv, InLoop
  <2>2. Reading /\ ~dpi_was_pressed => held' <= LoopMs + lag'
    BY <1>6, <1>11, <1>12 DEF TimerInv, HeldInv, InLoop
  <2>3. ASSUME InLoop, dpi_was_pressed PROVE PressAge' = PressAge + 1 /\ lag' = lag + 1
    <3>1. CASE pc = "head"
      <4>1. PressAge <= lag + (DPI_HOLD_MS - 1)
        BY <1>9, <1>11, <2>3, <3>1 DEF TimerInv, HeldInv
      <4> QED BY <1>9, <1>10, <1>11, <1>12, <2>3, <4>1
    <3>2. CASE Reading
      <4>1. Noticed
        BY <2>3, <3>2 DEF TimerInv, HeldInv
      <4>2. CASE PressAge <= (lag + LoopMs) + (DPI_HOLD_MS - 1)
        BY <1>1, <1>9, <1>10, <1>11, <1>12, <2>3, <3>2, <4>2 DEF Reading
      <4>3. CASE PressAge <= (lag + PassMs) + (DPI_HOLD_MS - 1) /\ pc # "frames"
        BY <1>1, <1>9, <1>10, <1>11, <1>12, <2>3, <3>2, <4>3 DEF Reading
      <4> QED BY <4>1, <4>2, <4>3 DEF Noticed
    <3> QED BY <2>3, <3>1, <3>2 DEF InLoop
  <2>4. InLoop /\ dpi_was_pressed => lag' <= PressAge' /\ held' <= LoopMs + PressAge'
    BY <1>6, <1>9, <1>11, <2>3 DEF TimerInv, HeldInv
  <2>5. pc = "head" /\ dpi_was_pressed => PressAge' <= lag' + (DPI_HOLD_MS - 1)
    BY <1>9, <1>11, <2>3 DEF TimerInv, HeldInv, InLoop
  <2>6. ASSUME Reading, dpi_was_pressed PROVE Noticed'
    <3>1. Noticed /\ PressAge' = PressAge + 1 /\ lag' = lag + 1
      BY <2>3, <2>6 DEF TimerInv, HeldInv, InLoop
    <3>2. pc # "frames" => lag' <= LoopMs
      BY <1>1, <1>11, <1>12, <2>6 DEF InLoop, Reading
    <3> QED BY <1>1, <1>9, <1>11, <3>1, <3>2 DEF Noticed
  <2> QED BY <1>1, <1>6, <1>12, <2>1, <2>2, <2>4, <2>5, <2>6 DEF HeldInv
<1> QED BY <1>8, <1>13, <1>14, <1>15, <1>16, <1>17 DEF TimerInv

-----------------------------------------------------------------------------
LEMMA FingerKeeps == ASSUME TimerInv, Finger PROVE TimerInv'
<1> USE Constants
<1>1. /\ UNCHANGED <<tick_ms, pc, now, state, state_started_ms, dpi_was_pressed, dpi_pressed_since,
                     magic, lag, settled, rested, upAge>>
      /\ dpi' = ~dpi /\ held' = 0
  BY DEF Finger, sensor, press
<1>2. TypeOK
  BY DEF TimerInv
<1>3. held' \in 0 .. Latest + 1 /\ dpi' \in BOOLEAN
  BY <1>1
<1>4. TypeOK'
  BY <1>1, <1>2, <1>3 DEF TypeOK
<1>5. NowAge' = NowAge /\ StartAge' = StartAge /\ PressAge' = PressAge /\ PressAge \in Nat /\ lag \in Nat
      /\ (InLoop' <=> InLoop) /\ (Reading' <=> Reading)
  BY <1>1, <1>2, Types, AgeTypes DEF NowAge, StartAge, PressAge, InLoop, Reading
<1>6. LagInv' /\ VccInv' /\ GapInv' /\ UpInv'
  BY <1>1, <1>5 DEF TimerInv, LagInv, VccInv, GapInv, UpInv
<1>7. Noticed' <=> Noticed
  BY <1>1, <1>5 DEF Noticed
<1>8. HeldInv'
  BY <1>1, <1>5, <1>7 DEF TimerInv, HeldInv
<1> QED BY <1>4, <1>6, <1>8 DEF TimerInv

LEMMA ReadClockKeeps == ASSUME TimerInv, ReadClock PROVE TimerInv'
<1> USE Constants
<1>1. /\ UNCHANGED <<tick_ms, state, state_started_ms, dpi, dpi_was_pressed, dpi_pressed_since,
                     magic, settled, rested, held, upAge>>
      /\ pc = "head" /\ pc' = "sensor" /\ now' = tick_ms /\ lag' = 0
  BY DEF ReadClock, sensor, press, ages
<1>2. TypeOK
  BY DEF TimerInv
<1>3. now' \in 0 .. Wrap - 1 /\ lag' \in 0 .. PassMs
  BY <1>1, <1>2, Types
<1>4. TypeOK'
  BY <1>1, <1>2, <1>3 DEF TypeOK
<1>5. /\ NowAge' = 0 /\ StartAge' = StartAge /\ PressAge' = PressAge
      /\ PressAge \in Nat /\ StartAge \in Nat /\ settled \in Nat /\ upAge \in Nat /\ held \in Nat
      /\ lag \in Nat /\ lag <= PassMs
      /\ InLoop /\ InLoop' /\ Reading'
  BY <1>1, <1>2, Types, AgeTypes, Itself DEF NowAge, StartAge, PressAge, InLoop, Reading
<1>6. LagInv' /\ VccInv' /\ GapInv' /\ UpInv'
  BY <1>1, <1>5 DEF TimerInv, LagInv, VccInv, GapInv, UpInv
<1>7. ASSUME dpi_was_pressed PROVE Noticed'
  <2>1. PressAge <= lag + (DPI_HOLD_MS - 1) /\ (lag > LoopMs => state \in {"WaitGap", "SetDpi"})
    BY <1>1, <1>5, <1>7 DEF TimerInv, LagInv, HeldInv
  <2>2. CASE lag <= LoopMs
    BY <1>1, <1>5, <2>1, <2>2 DEF Noticed
  <2>3. CASE lag > LoopMs
    BY <1>1, <1>5, <2>1, <2>3 DEF Noticed
  <2> QED BY <1>5, <2>2, <2>3
<1>8. HeldInv'
  BY <1>1, <1>5, <1>7 DEF TimerInv, HeldInv
<1> QED BY <1>4, <1>6, <1>8 DEF TimerInv

(* The driver waits by the clock of the iteration, which is lag old.       *)
LEMMA InitTickKeeps == ASSUME TimerInv, init_tick PROVE TimerInv'
<1> USE Constants
<1>1. /\ UNCHANGED <<tick_ms, now, state_started_ms, dpi, dpi_was_pressed, dpi_pressed_since,
                     magic, lag, settled, rested, held, upAge>>
      /\ pc = "sensor" /\ pc' = "dpi" /\ state \notin {"Pass1", "Pass2"}
      /\ state' = (IF MayLeave(state) THEN After[state] ELSE state)
  BY DEF init_tick, sensor, press, ages
<1>2. TypeOK
  BY DEF TimerInv
<1>3. /\ state = "WaitVcc" => state' = "WaitVcc" \/ (state' = "Pass1" /\ Due(now, state_started_ms, kVccSettleMs))
      /\ state = "WaitGap" => state' = "WaitGap" \/ (state' = "Pass2" /\ Due(now, state_started_ms, kPassGapMs))
      /\ state = "SetDpi" => state' = "Ready"
      /\ state = "Ready" => state' = "Ready"
  BY <1>1 DEF MayLeave, Waited, Delay, After
<1>4. state \in {"WaitVcc", "WaitGap", "SetDpi", "Ready"}
  BY <1>1, <1>2, Types DEF InitStates
<1>5. TypeOK'
  <2>1. state' \in InitStates
    BY <1>3, <1>4 DEF InitStates
  <2> QED BY <1>1, <1>2, <2>1 DEF TypeOK
<1>6. /\ NowAge' = NowAge /\ StartAge' = StartAge /\ PressAge' = PressAge
      /\ NowAge \in Nat /\ PressAge \in Nat /\ StartAge \in Nat
      /\ settled \in Nat /\ upAge \in Nat /\ held \in Nat /\ rested \in Nat
      /\ lag \in Nat /\ lag <= PassMs /\ NowAge = lag /\ lag <= LoopMs
      /\ InLoop /\ InLoop' /\ Reading /\ Reading'
  <2>1. InLoop /\ InLoop' /\ Reading /\ Reading'
    BY <1>1 DEF InLoop, Reading
  <2>2. NowAge = lag /\ lag <= LoopMs
    BY <1>1, <2>1 DEF TimerInv, LagInv
  <2> QED BY <1>1, <1>2, <2>1, <2>2, Types, AgeTypes DEF NowAge, StartAge, PressAge
<1>7. lag <= StartAge => (now - state_started_ms) % Wrap = StartAge - lag
  BY <1>2, <1>6, Types, Between DEF NowAge, StartAge
<1>8. LagInv'
  BY <1>1, <1>6 DEF LagInv
<1>9. VccInv'
  <2>1. ASSUME state = "WaitVcc", state' # "WaitVcc" PROVE settled >= kVccSettleMs
    <3>1. (now - state_started_ms) % Wrap >= kVccSettleMs
      BY <1>3, <2>1 DEF Due
    <3>2. settled < kVccSettleMs => StartAge = settled /\ lag <= settled
      BY <1>6, <2>1 DEF TimerInv, VccInv
    <3> QED BY <1>6, <1>7, <3>1, <3>2
  <2>2. state' = "WaitVcc" => state = "WaitVcc"
    BY <1>3, <1>4
  <2> QED BY <1>1, <1>6, <2>1, <2>2 DEF TimerInv, VccInv
<1>10. GapInv'
  <2>1. ASSUME state' = "Pass2" PROVE rested + PassMs >= kPassGapMs
    <3>1. state = "WaitGap" /\ (now - state_started_ms) % Wrap >= kPassGapMs
      BY <1>3, <1>4, <2>1 DEF Due
    <3>2. rested < kPassGapMs => lag <= StartAge /\ StartAge <= rested + PassMs
      BY <1>6, <3>1 DEF TimerInv, GapInv
    <3>3. CASE rested < kPassGapMs
      BY <1>6, <1>7, <3>1, <3>2, <3>3
    <3>4. CASE rested >= kPassGapMs
      BY <1>6, <3>4, Monotone
    <3> QED BY <1>6, <3>3, <3>4
  <2>2. state' = "WaitGap" => state = "WaitGap"
    BY <1>3, <1>4
  <2> QED BY <1>1, <1>6, <2>1, <2>2 DEF TimerInv, GapInv
<1>11. UpInv'
  BY <1>1, <1>6 DEF TimerInv, UpInv
<1>12. HeldInv'
  <2>1. Noticed => Noticed'
    BY <1>1, <1>6 DEF Noticed
  <2> QED BY <1>1, <1>6, <2>1 DEF TimerInv, HeldInv
<1> QED BY <1>5, <1>8, <1>9, <1>10, <1>11, <1>12 DEF TimerInv

LEMMA StartPassKeeps == ASSUME TimerInv, StartPass PROVE TimerInv'
<1> USE Constants
<1>1. /\ UNCHANGED <<tick_ms, now, state, state_started_ms, dpi, dpi_was_pressed, dpi_pressed_since,
                     magic, lag, settled, rested, held, upAge>>
      /\ pc = "sensor" /\ pc' = "frames" /\ state \in {"Pass1", "Pass2"}
  BY DEF StartPass, sensor, press, ages
<1>2. TypeOK /\ TypeOK'
  BY <1>1 DEF TimerInv, TypeOK
<1>3. /\ NowAge' = NowAge /\ StartAge' = StartAge /\ PressAge' = PressAge
      /\ InLoop /\ InLoop' /\ Reading /\ Reading'
  BY <1>1 DEF NowAge, StartAge, PressAge, InLoop, Reading
<1>4. LagInv' /\ VccInv' /\ GapInv' /\ UpInv'
  BY <1>1, <1>3 DEF TimerInv, LagInv, VccInv, GapInv, UpInv
<1>5. Noticed => Noticed'
  BY <1>1, <1>3 DEF Noticed
<1>6. HeldInv'
  BY <1>1, <1>3, <1>5 DEF TimerInv, HeldInv
<1> QED BY <1>2, <1>4, <1>6 DEF TimerInv

(* Pass 1 stamps its end with the now of the iteration, taken before it.   *)
LEMMA EndPassKeeps == ASSUME TimerInv, EndPass PROVE TimerInv'
<1> USE Constants
<1>1. /\ UNCHANGED <<tick_ms, now, dpi, dpi_was_pressed, dpi_pressed_since, magic, lag, settled, held, upAge>>
      /\ pc = "frames" /\ pc' = "dpi" /\ state \in {"Pass1", "Pass2"}
  BY DEF EndPass, press, TimerInv, LagInv
<1>2. \/ state' = "WaitGap" /\ state_started_ms' = now /\ rested' = 0
      \/ state' = "SetDpi" /\ UNCHANGED <<state_started_ms, rested>>
  BY DEF EndPass
<1>3. TypeOK
  BY DEF TimerInv
<1>4. TypeOK'
  <2>1. rested' \in 0 .. kPassGapMs /\ state_started_ms' \in 0 .. Wrap - 1 /\ state' \in InitStates
    BY <1>2, <1>3, Types DEF InitStates
  <2> QED BY <1>1, <1>3, <2>1 DEF TypeOK
<1>5. /\ NowAge' = NowAge /\ PressAge' = PressAge /\ NowAge = lag /\ lag \in Nat /\ lag <= PassMs
      /\ InLoop /\ InLoop' /\ Reading /\ Reading'
  <2>1. InLoop /\ InLoop' /\ Reading /\ Reading'
    BY <1>1 DEF InLoop, Reading
  <2>2. NowAge = lag /\ lag \in Nat /\ lag <= PassMs
    BY <1>3, <2>1, Types DEF TimerInv, LagInv
  <2> QED BY <1>1, <2>1, <2>2 DEF NowAge, PressAge
<1>6. LagInv'
  BY <1>1, <1>2, <1>5 DEF LagInv
<1>7. VccInv'
  BY <1>1, <1>2 DEF TimerInv, VccInv
<1>8. GapInv'
  <2>1. CASE state' = "WaitGap" /\ state_started_ms' = now /\ rested' = 0
    <3>1. StartAge' = lag
      BY <1>1, <1>5, <2>1 DEF NowAge, StartAge
    <3>2. lag <= 0 + PassMs
      BY <1>5
    <3> QED BY <1>5, <2>1, <3>1, <3>2, <1>1 DEF GapInv
  <2>2. CASE state' = "SetDpi"
    BY <2>2 DEF GapInv
  <2> QED BY <1>2, <2>1, <2>2
<1>9. UpInv'
  BY <1>1, <1>5 DEF TimerInv, UpInv
<1>10. HeldInv'
  <2>1. Noticed => Noticed'
    BY <1>1, <1>5 DEF Noticed
  <2> QED BY <1>1, <1>5, <2>1 DEF TimerInv, HeldInv
<1> QED BY <1>4, <1>6, <1>7, <1>8, <1>9, <1>10 DEF TimerInv

(* A press is noticed by the first sample that finds the pin down, and due *)
(* when now is DPI_HOLD_MS past the now of that sample.                    *)
LEMMA PollDpiKeeps == ASSUME TimerInv, PollDpi PROVE TimerInv'
<1> USE Constants
<1>1. /\ UNCHANGED <<tick_ms, now, state, state_started_ms, dpi, lag, settled, rested, held>>
      /\ pc = "dpi" /\ dpi_was_pressed' = dpi
      /\ dpi_pressed_since' = (IF dpi /\ ~dpi_was_pressed THEN now ELSE dpi_pressed_since)
      /\ upAge' = (IF dpi THEN upAge ELSE 0)
      /\ \/ /\ dpi /\ Due(now, dpi_pressed_since', DPI_HOLD_MS)
            /\ pc' = "release" /\ magic' = TRUE
         \/ /\ ~(dpi /\ Due(now, dpi_pressed_since', DPI_HOLD_MS))
            /\ pc' = "head" /\ UNCHANGED magic
  BY DEF PollDpi, sensor, PressedSince
<1>2. TypeOK
  BY DEF TimerInv
<1>3. dpi \in BOOLEAN /\ dpi_was_pressed \in BOOLEAN /\ magic \in BOOLEAN
  BY <1>2, Types
<1>4. TypeOK'
  <2>1. dpi_pressed_since' \in 0 .. Wrap - 1
    BY <1>1, <1>2, Types
  <2>2. upAge' \in 0 .. DPI_HOLD_MS
    BY <1>1, <1>2, Types
  <2>3. pc' \in {"head", "release"} /\ magic' \in BOOLEAN
    BY <1>1, <1>3
  <2> QED BY <1>1, <1>2, <1>3, <2>1, <2>2, <2>3 DEF TypeOK
<1>5. /\ NowAge' = NowAge /\ StartAge' = StartAge
      /\ NowAge = lag /\ PressAge \in Nat /\ upAge \in Nat /\ held \in Nat
      /\ lag \in Nat /\ lag <= PassMs
      /\ InLoop /\ Reading /\ ~Reading' /\ (InLoop' => pc' = "head")
  <2>1. InLoop /\ Reading /\ ~Reading' /\ (InLoop' => pc' = "head")
    BY <1>1 DEF InLoop, Reading
  <2>2. NowAge = lag
    BY <2>1 DEF TimerInv, LagInv
  <2> QED BY <1>1, <1>2, <2>1, <2>2, Types, AgeTypes DEF NowAge, StartAge
<1>6. LagInv' /\ VccInv' /\ GapInv'
  BY <1>1, <1>5 DEF TimerInv, LagInv, VccInv, GapInv
<1>7. CASE ~dpi
  <2>1. ~dpi_was_pressed' /\ pc' = "head" /\ held = 0 /\ ~dpi'
    BY <1>1, <1>7 DEF TimerInv, HeldInv
  <2>2. UpInv'
    BY <1>5, <2>1 DEF UpInv
  <2>3. HeldInv'
    BY <1>1, <1>5, <2>1 DEF HeldInv
  <2> QED BY <1>4, <1>6, <2>2, <2>3 DEF TimerInv
<1>8. CASE dpi /\ ~dpi_was_pressed
  <2>1. dpi_pressed_since' = now /\ dpi_was_pressed' /\ dpi' /\ upAge' = upAge
    BY <1>1, <1>8
  <2>2. PressAge' = lag
    BY <1>1, <1>5, <2>1 DEF NowAge, PressAge
  <2>3. pc' = "head"
    <3>1. ~Due(now, now, DPI_HOLD_MS)
      BY <1>2, Types, Itself DEF Due
    <3> QED BY <1>1, <2>1, <3>1
  <2>4. (upAge < DPI_HOLD_MS => lag <= upAge) /\ held <= LoopMs + lag
    BY <1>5, <1>8 DEF TimerInv, UpInv, HeldInv
  <2>5. UpInv'
    BY <1>5, <2>1, <2>2, <2>3, <2>4 DEF UpInv
  <2>6. HeldInv'
    BY <1>1, <1>5, <2>1, <2>2, <2>3, <2>4 DEF HeldInv
  <2> QED BY <1>4, <1>6, <2>5, <2>6 DEF TimerInv
<1>9. CASE dpi /\ dpi_was_pressed
  <2>1. dpi_pressed_since' = dpi_pressed_since /\ dpi_was_pressed' /\ dpi' /\ upAge' = upAge
    BY <1>1, <1>9
  <2>2. PressAge' = PressAge
    BY <1>1, <2>1 DEF PressAge
  <2>3. /\ upAge < DPI_HOLD_MS => PressAge <= upAge
        /\ lag <= PressAge /\ held <= LoopMs + PressAge
    BY <1>5, <1>9 DEF TimerInv, UpInv, HeldInv
  <2>4. (now - dpi_pressed_since) % Wrap = PressAge - lag
    BY <1>2, <1>5, <2>3, Types, Between DEF NowAge, PressAge
  <2>5. \/ pc' = "release" /\ PressAge - lag >= DPI_HOLD_MS
        \/ pc' = "head" /\ ~(PressAge - lag >= DPI_HOLD_MS)
    BY <1>1, <1>9, <2>1, <2>4 DEF Due
  <2>6. UpInv'
    BY <1>5, <2>1, <2>2, <2>3, <2>5 DEF UpInv
  <2>7. pc' = "head" => PressAge <= lag + (DPI_HOLD_MS - 1)
    BY <1>5, <2>5
  <2>8. HeldInv'
    BY <1>1, <1>5, <2>1, <2>2, <2>3, <2>7 DEF HeldInv
  <2> QED BY <1>4, <1>6, <2>6, <2>8 DEF TimerInv
<1> QED BY <1>3, <1>7, <1>8, <1>9

LEMMA ResetKeeps == ASSUME TimerInv, scb_reset_system PROVE TimerInv'
<1>1. /\ pc' = "reset" /\ ~InLoop' /\ ~Reading' /\ pc = "release"
      /\ UNCHANGED <<tick_ms, now, state, state_started_ms, dpi, dpi_was_pressed, dpi_pressed_since,
                     magic, lag, settled, rested, held, upAge>>
  BY DEF scb_reset_system, sensor, press, ages, InLoop, Reading
<1>2. TypeOK'
  BY <1>1 DEF TimerInv, TypeOK
<1> QED BY <1>1, <1>2 DEF TimerInv, LagInv, VccInv, GapInv, UpInv, HeldInv

LEMMA StutterKeeps == ASSUME TimerInv, UNCHANGED vars PROVE TimerInv'
<1>1. UNCHANGED <<tick_ms, pc, now, state, state_started_ms, dpi, dpi_was_pressed, dpi_pressed_since,
                  magic, lag, settled, rested, held, upAge>>
  BY DEF vars, sensor, press, ages
<1> QED BY <1>1 DEF TimerInv, TypeOK, LagInv, VccInv, GapInv, UpInv, HeldInv, Noticed,
                    NowAge, StartAge, PressAge, InLoop, Reading

LEMMA TimersStep == ASSUME TimerInv, [Next]_vars PROVE TimerInv'
<1>1. CASE sys_tick_handler
  BY <1>1, TickKeeps
<1>2. CASE Finger
  BY <1>2, FingerKeeps
<1>3. CASE Loop
  <2>1. CASE ReadClock
    BY <2>1, ReadClockKeeps
  <2>2. CASE init_tick
    BY <2>2, InitTickKeeps
  <2>3. CASE StartPass
    BY <2>3, StartPassKeeps
  <2>4. CASE EndPass
    BY <2>4, EndPassKeeps
  <2>5. CASE PollDpi
    BY <2>5, PollDpiKeeps
  <2> QED BY <1>3, <2>1, <2>2, <2>3, <2>4, <2>5 DEF Loop
<1>4. CASE scb_reset_system
  BY <1>4, ResetKeeps
<1>5. CASE Restart
  BY <1>5, RestartKeeps
<1>6. CASE UNCHANGED vars
  BY <1>6, StutterKeeps
<1> QED BY <1>1, <1>2, <1>3, <1>4, <1>5, <1>6 DEF Next

LEMMA TimersInvariant == Spec => []TimerInv
<1> QED BY InitInv, TimersStep, PTL DEF Spec

-----------------------------------------------------------------------------
LEMMA Limits ==
    /\ SupplyBy \in Nat /\ GapBy \in Nat /\ SupplyBy = (kVccSettleMs - 1) + LoopMs + LoopMs
    /\ PassMs <= GapBy /\ (kPassGapMs - 1) + LoopMs <= GapBy /\ GapBy + LoopMs + 1 < Wrap
    /\ BringupMs = SupplyBy + GapBy + LoopMs + PassMs + LoopMs
<1> QED BY Constants DEF SupplyBy, GapBy, BringupMs

LEMMA BringInit == ASSUME Init PROVE BringInv
<1>1. /\ pc = "head" /\ state = "WaitVcc" /\ settled = 0 /\ lag = 0
      /\ tick_ms \in 0 .. Wrap - 1 /\ state_started_ms = tick_ms
  BY DEF Init
<1>2. StartAge = 0
  BY <1>1, Constants, Itself DEF StartAge
<1> QED BY <1>1, <1>2, Constants DEF BringInv, WaitVccBy, AtRest

(* The clock: all that a state is measured by grows together.              *)
LEMMA BringTick == ASSUME TimerInv, BringInv, sys_tick_handler PROVE BringInv'
<1> USE Constants, Limits
<1>0. TypeOK
  BY DEF TimerInv
<1>1. /\ UNCHANGED <<pc, now, state, state_started_ms>>
      /\ pc = "release" \/ lag' = lag + 1
      /\ pc \in {"head", "sensor", "dpi"} => lag < LoopMs
      /\ settled' = Older(settled, BringupMs + 1)
      /\ tick_ms' = (tick_ms + 1) % Wrap
  BY DEF sys_tick_handler, sensor, NextTick
<1>2. /\ lag \in Nat /\ settled \in Nat /\ StartAge \in Nat /\ lag <= PassMs
      /\ settled' \in Nat /\ settled' <= settled + 1
      /\ settled <= BringupMs => settled' = settled + 1
  BY <1>0, <1>1, Types, AgeTypes DEF Older
<1>3. StartAge + 1 < Wrap => StartAge' = StartAge + 1
  BY <1>0, <1>1, Types, Ticking DEF StartAge
<1>4. SUFFICES ASSUME InLoop PROVE BringInv'
  BY <1>1 DEF BringInv, InLoop, Reading
<1>5. /\ lag' = lag + 1
      /\ pc \in {"head", "sensor", "dpi", "frames"} /\ (pc # "frames" => lag + 1 <= LoopMs)
      /\ (AtRest' <=> AtRest)
  BY <1>1, <1>2, <1>4 DEF InLoop, Reading, AtRest
<1>6. CASE state = "WaitVcc"
  <2>1. pc # "frames" /\ WaitVccBy
    BY <1>4, <1>6 DEF BringInv, TimerInv, LagInv
  <2>2. StartAge' = StartAge + 1 /\ settled' = settled + 1
    BY <1>2, <1>3, <1>5, <2>1 DEF WaitVccBy
  <2> QED BY <1>1, <1>2, <1>5, <1>6, <2>1, <2>2 DEF BringInv, WaitVccBy
<1>7. CASE state = "Pass1"
  BY <1>1, <1>2, <1>4, <1>5, <1>7 DEF BringInv, Pass1By, AtRest
<1>8. CASE state = "WaitGap"
  <2>1. pc # "frames" /\ WaitGapBy
    BY <1>4, <1>8 DEF BringInv, TimerInv, LagInv
  <2>2. StartAge' = StartAge + 1
    BY <1>2, <1>3, <1>5, <2>1 DEF WaitGapBy
  <2> QED BY <1>1, <1>2, <1>5, <1>8, <2>1, <2>2 DEF BringInv, WaitGapBy
<1>9. CASE state = "Pass2"
  BY <1>1, <1>2, <1>4, <1>5, <1>9 DEF BringInv, Pass2By, AtRest
<1>10. CASE state = "SetDpi"
  <2>1. pc # "frames"
    BY <1>4, <1>10 DEF TimerInv, LagInv
  <2> QED BY <1>1, <1>2, <1>4, <1>5, <1>10, <2>1 DEF BringInv, SetDpiBy, AtRest
<1> QED BY <1>1, <1>6, <1>7, <1>8, <1>9, <1>10 DEF BringInv

(* The next iteration sees what has become of the last one's lag.          *)
LEMMA BringRead == ASSUME TimerInv, BringInv, ReadClock PROVE BringInv'
<1> USE Constants, Limits
<1>0. TypeOK
  BY DEF TimerInv
<1>1. /\ UNCHANGED <<tick_ms, state, state_started_ms, settled>>
      /\ pc = "head" /\ pc' = "sensor" /\ lag' = 0
  BY DEF ReadClock, sensor, ages
<1>2. /\ lag \in Nat /\ settled \in Nat /\ StartAge \in Nat /\ lag <= PassMs
      /\ StartAge' = StartAge /\ InLoop /\ AtRest /\ ~AtRest'
  BY <1>0, <1>1, Types, AgeTypes DEF StartAge, InLoop, AtRest
<1>3. /\ state = "WaitVcc" => WaitVccBy'
      /\ state = "Pass1" => Pass1By'
      /\ state = "Pass2" => Pass2By'
      /\ state = "SetDpi" => SetDpiBy'
  BY <1>1, <1>2 DEF BringInv, WaitVccBy, Pass1By, Pass2By, SetDpiBy
<1>4. state = "WaitGap" => WaitGapBy'
  BY <1>1, <1>2 DEF BringInv, WaitGapBy
<1> QED BY <1>1, <1>3, <1>4 DEF BringInv

(* A wait that goes on has not lasted its delay at now.                    *)
LEMMA BringWait == ASSUME TimerInv, BringInv, init_tick PROVE BringInv'
<1> USE Constants, Limits
<1>0. TypeOK
  BY DEF TimerInv
<1>1. /\ UNCHANGED <<tick_ms, now, state_started_ms, lag, settled>>
      /\ pc = "sensor" /\ pc' = "dpi" /\ state \notin {"Pass1", "Pass2"}
      /\ state' = (IF MayLeave(state) THEN After[state] ELSE state)
  BY DEF init_tick, ages
<1>2. /\ state = "WaitVcc" => \/ state' = "WaitVcc" /\ ~Due(now, state_started_ms, kVccSettleMs)
                              \/ state' = "Pass1"
      /\ state = "WaitGap" => \/ state' = "WaitGap" /\ ~Due(now, state_started_ms, kPassGapMs)
                              \/ state' = "Pass2"
      /\ state = "SetDpi" => state' = "Ready"
      /\ state = "Ready" => state' = "Ready"
  BY <1>1 DEF MayLeave, Waited, Delay, After
<1>3. /\ lag \in Nat /\ settled \in Nat /\ StartAge \in Nat /\ NowAge = lag /\ lag <= LoopMs
      /\ StartAge' = StartAge /\ InLoop /\ ~AtRest /\ AtRest'
  <2>1. InLoop /\ ~AtRest /\ AtRest'
    BY <1>1 DEF InLoop, Reading, AtRest
  <2> QED BY <1>0, <1>1, <2>1, Types, AgeTypes DEF StartAge, TimerInv, LagInv
<1>4. lag <= StartAge => (now - state_started_ms) % Wrap = StartAge - lag
  BY <1>0, <1>3, Types, Between DEF NowAge, StartAge
<1>5. CASE state = "WaitVcc"
  <2>1. WaitVccBy
    BY <1>3, <1>5 DEF BringInv
  <2>2. CASE state' = "WaitVcc" /\ ~Due(now, state_started_ms, kVccSettleMs)
    <3>1. ~(StartAge - lag >= kVccSettleMs)
      BY <1>4, <2>1, <2>2 DEF Due, WaitVccBy
    <3> QED BY <1>1, <1>3, <2>1, <2>2, <3>1 DEF BringInv, WaitVccBy
  <2>3. CASE state' = "Pass1"
    BY <1>1, <1>3, <2>1, <2>3 DEF BringInv, WaitVccBy, Pass1By
  <2> QED BY <1>2, <1>5, <2>2, <2>3
<1>6. CASE state = "WaitGap"
  <2>1. WaitGapBy
    BY <1>3, <1>6 DEF BringInv
  <2>2. CASE state' = "WaitGap" /\ ~Due(now, state_started_ms, kPassGapMs)
    <3>1. ~(StartAge - lag >= kPassGapMs)
      BY <1>4, <2>1, <2>2 DEF Due, WaitGapBy
    <3> QED BY <1>1, <1>3, <2>1, <2>2, <3>1 DEF BringInv, WaitGapBy
  <2>3. CASE state' = "Pass2"
    BY <1>1, <1>3, <2>1, <2>3 DEF BringInv, WaitGapBy, Pass2By
  <2> QED BY <1>2, <1>6, <2>2, <2>3
<1>7. CASE state \in {"SetDpi", "Ready"}
  BY <1>2, <1>7 DEF BringInv
<1> QED BY <1>0, <1>1, <1>5, <1>6, <1>7, Types DEF InitStates

(* A pass may make the iteration long; pass 1 starts the gap at now.       *)
LEMMA BringPass == ASSUME TimerInv, BringInv, EndPass PROVE BringInv'
<1> USE Constants, Limits
<1>0. TypeOK
  BY DEF TimerInv
<1>1. /\ UNCHANGED <<tick_ms, now, lag, settled>> /\ pc = "frames" /\ pc' = "dpi"
  BY DEF EndPass
<1>2. \/ state = "Pass1" /\ state' = "WaitGap" /\ state_started_ms' = now
      \/ state = "Pass2" /\ state' = "SetDpi"
  BY <1>1 DEF EndPass, TimerInv, LagInv
<1>3. /\ lag \in Nat /\ settled \in Nat /\ NowAge = lag /\ lag <= PassMs
      /\ InLoop /\ ~AtRest /\ AtRest'
  <2>1. InLoop /\ ~AtRest /\ AtRest'
    BY <1>1 DEF InLoop, Reading, AtRest
  <2> QED BY <1>0, <1>1, <2>1, Types DEF TimerInv, LagInv
<1>4. CASE state = "Pass1" /\ state' = "WaitGap" /\ state_started_ms' = now
  <2>1. StartAge' = lag
    BY <1>1, <1>3, <1>4 DEF NowAge, StartAge
  <2>2. Pass1By
    BY <1>3, <1>4 DEF BringInv
  <2> QED BY <1>1, <1>3, <1>4, <2>1, <2>2 DEF BringInv, Pass1By, WaitGapBy
<1>5. CASE state = "Pass2" /\ state' = "SetDpi"
  <2>1. Pass2By
    BY <1>3, <1>5 DEF BringInv
  <2> QED BY <1>1, <1>3, <1>5, <2>1 DEF BringInv, Pass2By, SetDpiBy
<1> QED BY <1>2, <1>4, <1>5

(* Steps that do not concern the driver.                                   *)
LEMMA BringSame ==
    ASSUME TimerInv, BringInv, UNCHANGED <<tick_ms, state, state_started_ms, lag, settled>>,
           InLoop' => InLoop, InLoop' => (AtRest' <=> AtRest)
    PROVE  BringInv'
<1> SUFFICES ASSUME InLoop' PROVE BringInv'
  BY DEF BringInv
<1>1. StartAge' = StartAge /\ (AtRest' <=> AtRest) /\ InLoop
  BY DEF StartAge
<1>2. /\ WaitVccBy' <=> WaitVccBy
      /\ Pass1By' <=> Pass1By
      /\ WaitGapBy' <=> WaitGapBy
      /\ Pass2By' <=> Pass2By
      /\ SetDpiBy' <=> SetDpiBy
  BY <1>1 DEF WaitVccBy, Pass1By, WaitGapBy, Pass2By, SetDpiBy
<1> QED BY <1>1, <1>2 DEF BringInv

LEMMA BringStep == ASSUME TimerInv, BringInv, [Next]_vars PROVE BringInv'
<1>1. CASE sys_tick_handler
  BY <1>1, BringTick
<1>2. CASE ReadClock
  BY <1>2, BringRead
<1>3. CASE init_tick
  BY <1>3, BringWait
<1>4. CASE EndPass
  BY <1>4, BringPass
<1>5. CASE StartPass
  BY <1>5, BringSame DEF StartPass, sensor, ages, InLoop, Reading, AtRest
<1>6. CASE PollDpi
  BY <1>6, BringSame DEF PollDpi, sensor, InLoop, Reading, AtRest
<1>7. CASE Finger
  BY <1>7, BringSame DEF Finger, sensor, InLoop, Reading, AtRest
<1>8. CASE scb_reset_system
  BY <1>8 DEF scb_reset_system, BringInv, InLoop, Reading
<1>9. CASE UNCHANGED vars
  BY <1>9, BringSame DEF vars, sensor, ages, InLoop, Reading, AtRest
<1>10. CASE Restart
  <2>1. /\ pc' = "head" /\ state' = "WaitVcc" /\ settled' = 0 /\ lag' = 0
        /\ tick_ms' \in 0 .. Wrap - 1 /\ state_started_ms' = tick_ms'
    BY <1>10 DEF Restart
  <2>2. StartAge' = 0
    BY <2>1, Constants, Itself DEF StartAge
  <2> QED BY <2>1, <2>2, Constants DEF BringInv, WaitVccBy, AtRest
<1> QED BY <1>1, <1>2, <1>3, <1>4, <1>5, <1>6, <1>7, <1>8, <1>9, <1>10 DEF Next, Loop

-----------------------------------------------------------------------------
(* The clock, the bring-up and the press stay in their types.              *)
THEOREM TypeCorrect == Spec => []TypeOK
<1>1. TimerInv => TypeOK
  BY DEF TimerInv
<1> QED BY <1>1, TimersInvariant, PTL

(* No SPI byte leaves before the supply has settled (sensor_1855.cpp:64),  *)
(* wherever the 32-bit counter wraps.                                      *)
THEOREM SupplySettles == Spec => []VccSettled
<1>1. TimerInv => VccSettled
  BY DEF TimerInv, LagInv, VccInv, VccSettled
<1> QED BY <1>1, TimersInvariant, PTL

(* The gap between the passes (sensor_1855.cpp:72) is short by the length  *)
(* of a pass at most, because it is measured from the now before pass 1.   *)
THEOREM GapBound == Spec => []GapAlmostKept
<1>1. TimerInv => GapAlmostKept
  BY DEF TimerInv, GapInv, GapAlmostKept
<1> QED BY <1>1, TimersInvariant, PTL

(* Only a press that every sample of the last DPI_HOLD_MS has seen hands   *)
(* over to the bootloader (main.cpp:115).                                  *)
THEOREM OnlyLongPresses == Spec => []NoEarlyReboot
<1>1. TimerInv => NoEarlyReboot
  BY DEF TimerInv, UpInv, NoEarlyReboot
<1> QED BY <1>1, TimersInvariant, PTL

(* The sensor is ready within BringupMs of init_start(), or DPI is being   *)
(* held (sensor_1855.cpp:55-86).                                           *)
THEOREM ReadyInTime == Spec => []BringupInTime
<1>1. TimerInv /\ BringInv => BringupInTime
  <2> SUFFICES ASSUME TimerInv, BringInv, pc \notin {"release", "reset"}, state # "Ready"
               PROVE  settled <= BringupMs
    BY DEF BringupInTime
  <2> USE Constants, Limits
  <2>1. /\ TypeOK /\ lag \in Nat /\ settled \in Nat /\ StartAge \in Nat /\ lag <= PassMs
        /\ InLoop /\ state \in InitStates
    BY Types, AgeTypes DEF TimerInv, InLoop, Reading
  <2>2. CASE state \in {"WaitVcc", "Pass1", "Pass2"}
    BY <2>1, <2>2 DEF BringInv, WaitVccBy, Pass1By, Pass2By
  <2>3. CASE state = "WaitGap"
    BY <2>1, <2>3 DEF BringInv, WaitGapBy
  <2>4. CASE state = "SetDpi"
    BY <2>1, <2>4 DEF BringInv, SetDpiBy
  <2> QED BY <2>1, <2>2, <2>3, <2>4 DEF InitStates
<1>2. Spec => []BringInv
  BY BringInit, BringStep, TimersInvariant, PTL DEF Spec
<1> QED BY <1>1, <1>2, TimersInvariant, PTL

(* A button that is down for Latest is noticed: the iteration of the       *)
(* press, the hold, and the two iterations, one of them with a pass, in    *)
(* which it can go unnoticed that the hold is over.                        *)
THEOREM LongPressNoticed == Spec => []NoLateReboot
<1> USE Constants
<1>1. TimerInv => NoLateReboot
  <2> SUFFICES ASSUME TimerInv, held > Latest, pc \notin {"release", "reset"} PROVE FALSE
    BY DEF NoLateReboot
  <2>1. TypeOK
    BY DEF TimerInv
  <2>2. /\ held \in Nat /\ lag \in Nat /\ lag <= PassMs /\ PressAge \in Nat
        /\ pc = "head" \/ Reading
        /\ InLoop
    BY <2>1, Types, AgeTypes DEF InLoop, Reading
  <2>3. CASE ~dpi_was_pressed
    BY <2>2, <2>3 DEF TimerInv, HeldInv
  <2>4. CASE dpi_was_pressed
    <3>1. held <= LoopMs + PressAge
      BY <2>2, <2>4 DEF TimerInv, HeldInv
    <3>2. CASE pc = "head"
      BY <2>2, <2>4, <3>1, <3>2 DEF TimerInv, HeldInv
    <3>3. CASE Reading
      <4>1. Noticed
        BY <2>4, <3>3 DEF TimerInv, HeldInv
      <4> QED BY <2>2, <3>1, <4>1 DEF Noticed
    <3> QED BY <2>2, <3>2, <3>3
  <2> QED BY <2>3, <2>4
<1> QED BY <1>1, TimersInvariant, PTL
=============================================================================
