------------------------- MODULE MouseReportsProofs -------------------------
(***************************************************************************)
(* Proofs about module MouseReports, for every set of buttons, any amount  *)
(* of input, any number of bus resets and configurations and any width of  *)
(* a byte.                                                                 *)
(***************************************************************************)
EXTENDS MouseReports, IntegerLemmas

LEMMA Widths == /\ Byte \in Nat \ {0} /\ Nibble \in Nat \ {0} /\ Nibble \div 2 \in Nat \ {0}
                /\ Byte \div 2 \in Nat \ {0}
                /\ Nibble = 2 * (Nibble \div 2) /\ Byte = 2 * (Byte \div 2)
                /\ Nibble \div 2 < Byte \div 2
<1> QED BY ByteAssumption

(* sensor_1855.cpp:104-125: the 12-bit counts come back from the burst as  *)
(* the chip holds them, also the negative ones.                            *)
LEMMA BurstDecoded == ASSUME NEW x \in Int12, NEW y \in Int12
                      PROVE  read_motion(Burst(x, y)) = <<x, y>>
<1> DEFINE h == Nibble \div 2
           xh == (x \div Byte) % Nibble
           yh == (y \div Byte) % Nibble
           r == Burst(x, y)
<1>1. Byte \in Nat \ {0} /\ h \in Nat \ {0} /\ Nibble = 2 * h
  BY Widths
<1>2. Half12 = Byte * h /\ Half12 \in Int
  BY <1>1 DEF Half12
<1>3. /\ x \in Int /\ -(Byte * h) <= x /\ x < Byte * h
      /\ y \in Int /\ -(Byte * h) <= y /\ y < Byte * h
  <2> HIDE DEF h
  <2> QED BY <1>1, <1>2 DEF Int12
<1>4. /\ xh \in 0 .. Nibble - 1 /\ yh \in 0 .. Nibble - 1
      /\ SignExtended(xh * Byte + (x % Byte)) = x
      /\ SignExtended(yh * Byte + (y % Byte)) = y
  <2> HIDE DEF h
  <2> QED BY <1>1, <1>2, <1>3, TwosComplement DEF SignExtended
<1>5. /\ r.status = (x # 0 \/ y # 0) /\ r.dxL = x % Byte /\ r.dyL = y % Byte
      /\ r.dxyH = xh * Nibble + yh
  BY DEF Burst
<1>6. r.dxyH \div Nibble = xh /\ r.dxyH % Nibble = yh
  <2> HIDE DEF xh, yh, r, h
  <2>1. Nibble \in Nat \ {0} /\ xh \in Nat /\ yh \in 0 .. Nibble - 1
    BY <1>4, Widths
  <2> QED BY <1>5, <2>1, Digits
<1>7. SignExtended(RawX(r)) = x /\ SignExtended(RawY(r)) = y
  BY <1>4, <1>5, <1>6 DEF RawX, RawY
<1> HIDE DEF r
<1> QED BY <1>5, <1>7 DEF read_motion, r

(* usb_hid.cpp:182-190: the host reads the counts that were sent.          *)
LEMMA WordRead == ASSUME NEW d \in Int16
                  PROVE  Bytes(d) \in Int \X Int /\ Word(Bytes(d)) = d
<1> DEFINE h == Byte \div 2
           q == (d \div Byte) % Byte
           lo == d % Byte
<1>1. Byte \in Nat \ {0} /\ h \in Nat \ {0} /\ Byte = 2 * h
  BY Widths
<1>2. Half16 = Byte * h /\ Half16 \in Int
  BY <1>1 DEF Half16
<1>3. d \in Int /\ -(Byte * h) <= d /\ d < Byte * h
  <2> HIDE DEF h
  <2> QED BY <1>1, <1>2 DEF Int16
<1>4. /\ q \in 0 .. Byte - 1 /\ lo \in 0 .. Byte - 1
      /\ (IF q * Byte + lo >= Half16 THEN (q * Byte + lo) - 2 * Half16 ELSE q * Byte + lo) = d
  <2>1. q = (d \div Byte) % (2 * h)
    BY <1>1
  <2> HIDE DEF h, q
  <2>2. LET p == (d \div Byte) % (2 * h)
            u == p * Byte + (d % Byte)
        IN p \in 0 .. 2 * h - 1 /\ d % Byte \in 0 .. Byte - 1
           /\ (IF u >= Byte * h THEN u - 2 * (Byte * h) ELSE u) = d
    BY <1>1, <1>3, TwosComplement
  <2> QED BY <1>1, <1>2, <2>1, <2>2
<1>5. Bytes(d) = <<lo, q>>
  BY DEF Bytes
<1>6. Bytes(d) \in Int \X Int /\ Bytes(d)[1] = lo /\ Bytes(d)[2] = q
  <2> HIDE DEF h, q, lo
  <2>1. q \in Int /\ lo \in Int
    BY <1>1, <1>4
  <2> QED BY <1>5, <2>1
<1>7. Word(Bytes(d)) = Signed(q * Byte + lo)
  <2> HIDE DEF q, lo
  <2> QED BY <1>6 DEF Word
<1>8. Signed(q * Byte + lo) = d
  <2> HIDE DEF h, q, lo
  <2> QED BY <1>4 DEF Signed
<1> QED BY <1>6, <1>7, <1>8

(* main.cpp:107-108: turning the chip's frame does not overflow.           *)
LEMMA MotionFits == ASSUME NEW x \in Int12 PROVE x \in Int16 /\ 0 - x \in Int16
<1> DEFINE a == Nibble \div 2
           b == Byte \div 2
<1>1. Byte \in Nat \ {0} /\ a \in Nat \ {0} /\ b \in Nat \ {0} /\ a < b
  BY Widths
<1> HIDE DEF a, b
<1>2. Byte * (a + 1) = Byte * a + Byte /\ Byte * (a + 1) <= Byte * b
  BY <1>1
<1> QED BY <1>1, <1>2 DEF Int12, Int16, Half12, Half16, a, b

LEMMA HalfType == Half12 \in Nat \ {0} /\ Half16 \in Nat \ {0} /\ 0 \in Int12 /\ 0 \in Int16
<1> DEFINE a == Nibble \div 2
           b == Byte \div 2
<1>1. Byte \in Nat \ {0} /\ a \in Nat \ {0} /\ b \in Nat \ {0}
  BY Widths
<1> HIDE DEF a, b
<1>2. Byte * a \in Nat \ {0} /\ Byte * b \in Nat \ {0}
  BY <1>1
<1> QED BY <1>2 DEF Int12, Int16, Half12, Half16, a, b

LEMMA InInt12 == \A x \in Int12 : x \in Int
<1> QED BY HalfType DEF Int12

LEMMA InInt16 == \A x \in Int16 : x \in Int
<1> QED BY HalfType DEF Int16

LEMMA WordType == \A b \in Int \X Int : Word(b) \in Int
<1>1. Byte \in Int /\ Half16 \in Int
  BY HalfType, Widths
<1> QED BY <1>1 DEF Word, Signed

-----------------------------------------------------------------------------
LEMMA InitInv == Init => LoopInv
<1> SUFFICES ASSUME Init PROVE LoopInv
  OBVIOUS
<1> USE ReportAssumption DEF Init
<1>1. TypeOK
  <2>1. {} \in SUBSET Button /\ AllBits \in SUBSET AllBits
    OBVIOUS
  <2>2. inputs \in 0 .. MaxInput /\ resets \in 0 .. MaxReset
    OBVIOUS
  <2>3. lx \in Int12 /\ ly \in Int12 /\ dx \in Int16 /\ dy \in Int16
    BY HalfType
  <2>4. /\ turned \in Int /\ wheel \in Int /\ owedX \in Int /\ owedY \in Int /\ owedWheel \in Int
        /\ ep \in Report \cup {Empty}
    OBVIOUS
  <2> QED BY <2>1, <2>2, <2>3, <2>4 DEF TypeOK
<1>2. Accounted
  BY DEF Accounted, InFlight, Sampled
<1> QED BY <1>1, <1>2 DEF LoopInv, HostInStep

(* No bitmap of buttons has the padding bits of 0xFF.                      *)
LEMMA BitmapIsNotAllBits == \A b \in SUBSET Button : b # AllBits
<1> QED BY ReportAssumption DEF AllBits

(* Throwing the packet away settles what it carries.                       *)
LEMMA DiscardKeeps ==
    ASSUME TypeOK, Accounted, Discard,
           UNCHANGED <<turned, lx, ly, wheel, dx, dy>>,
           (pc = "send") = (pc' = "send"), Sampled = Sampled'
    PROVE  /\ Accounted' /\ ep' = Empty
           /\ owedX' \in Int /\ owedY' \in Int /\ owedWheel' \in Int
<1>1. ep' = Empty /\ InFlight' = [x |-> 0, y |-> 0, wheel |-> 0]
  BY DEF Discard, InFlight
<1>2. /\ lx \in Int /\ ly \in Int /\ dx \in Int /\ dy \in Int /\ turned \in Int /\ wheel \in Int
      /\ owedX \in Int /\ owedY \in Int /\ owedWheel \in Int
  BY InInt12, InInt16 DEF TypeOK
<1> DEFINE sx == IF pc = "send" THEN dx ELSE 0
           sy == IF pc = "send" THEN dy ELSE 0
           sw == IF Sampled THEN wheel ELSE 0
<1>2a. sx' = sx /\ sy' = sy /\ sw' = sw /\ sx \in Int /\ sy \in Int /\ sw \in Int
  BY <1>2
<1>2b. /\ owedX = ly + sx + InFlight.x /\ owedY = (sy + InFlight.y) - lx
       /\ owedWheel = turned + sw + InFlight.wheel
  BY DEF Accounted
<1>2c. ASSUME owedX' = ly + sx + 0, owedY' = (sy + 0) - lx, owedWheel' = turned + sw + 0 PROVE Accounted'
  <2>1. /\ owedX' = ly' + sx' + InFlight'.x /\ owedY' = (sy' + InFlight'.y) - lx'
        /\ owedWheel' = turned' + sw' + InFlight'.wheel
    BY <1>1, <1>2a, <1>2c
  <2> QED BY <2>1 DEF Accounted
<1> HIDE DEF sx, sy, sw
<1>3. CASE ep = Empty
  <2>1. InFlight = [x |-> 0, y |-> 0, wheel |-> 0] /\ UNCHANGED owed
    BY <1>3 DEF InFlight, Discard
  <2> QED BY <1>1, <1>2, <1>2b, <1>2c, <2>1 DEF owed
<1>4. CASE ep # Empty
  <2>1. ep \in Report
    BY <1>4 DEF TypeOK
  <2>2. Word(ep.dx) \in Int /\ Word(ep.dy) \in Int /\ ep.wheel \in Int
    BY <2>1, WordType DEF Report
  <2>3. InFlight = [x |-> Word(ep.dx), y |-> Word(ep.dy), wheel |-> ep.wheel]
    BY <1>4 DEF InFlight
  <2>4. owedX' = owedX - Word(ep.dx) /\ owedY' = owedY - Word(ep.dy) /\ owedWheel' = owedWheel - ep.wheel
    BY <1>4 DEF Discard, Taken
  <2> QED BY <1>1, <1>2, <1>2a, <1>2b, <1>2c, <2>2, <2>3, <2>4
<1> QED BY <1>3, <1>4

LEMMA StepInv == LoopInv /\ [Next]_vars => LoopInv'
<1> SUFFICES ASSUME LoopInv, [Next]_vars PROVE LoopInv'
  OBVIOUS
<1> USE ReportAssumption DEF LoopInv
<1>0. /\ lx \in Int /\ ly \in Int /\ dx \in Int /\ dy \in Int /\ turned \in Int /\ wheel \in Int
      /\ owedX \in Int /\ owedY \in Int /\ owedWheel \in Int
  BY InInt12, InInt16 DEF TypeOK
<1>1. ASSUME NEW b \in Button, Click(b) PROVE LoopInv'
  <2>1. TypeOK'
    BY <1>1 DEF Click, Input, TypeOK, usb, locals, owed
  <2> QED BY <1>1, <2>1 DEF Click, usb, locals, owed, Accounted, HostInStep, InFlight, Sampled
<1>2. ASSUME NEW d \in {-1, 1}, Scroll(d) PROVE LoopInv'
  <2>1. TypeOK'
    BY <1>2 DEF Scroll, Input, TypeOK, usb, locals
  <2>2. /\ InFlight' = InFlight /\ Sampled' = Sampled /\ turned = 0 /\ turned' = d
        /\ owedWheel' = owedWheel + d
    BY <1>2 DEF Scroll, InFlight, Sampled
  <2>3. InFlight.wheel \in Int
    BY DEF InFlight, TypeOK, Report
  <2>4. Accounted'
    <3> DEFINE w == IF Sampled THEN wheel ELSE 0
    <3>1. w \in Int /\ w' = w
      BY <1>0, <1>2, <2>2 DEF Scroll, locals
    <3>2. owedWheel = turned + w + InFlight.wheel
      BY DEF Accounted
    <3> HIDE DEF w
    <3>3. owedWheel' = turned' + w' + InFlight'.wheel
      BY <1>0, <2>2, <2>3, <3>1, <3>2
    <3> QED BY <1>2, <2>2, <3>3 DEF Scroll, locals, Accounted, w
  <2> QED BY <1>2, <2>1, <2>4 DEF Scroll, usb, locals, HostInStep
<1>3. ASSUME NEW a \in Int, NEW d \in Int, Move(a, d) PROVE LoopInv'
  <2>1. TypeOK'
    BY <1>0, <1>3 DEF Move, Input, TypeOK, usb, locals
  <2>2. InFlight' = InFlight /\ InFlight.x \in Int /\ InFlight.y \in Int /\ Sampled' = Sampled
    BY <1>3, WordType DEF Move, TypeOK, InFlight, Sampled, Report
  <2>3. Accounted'
    <3> DEFINE fx == InFlight.x + (IF pc = "send" THEN dx ELSE 0)
               fy == InFlight.y + (IF pc = "send" THEN dy ELSE 0)
    <3>1. fx \in Int /\ fy \in Int /\ fx' = fx /\ fy' = fy
      BY <1>0, <1>3, <2>2 DEF Move, locals
    <3>2. owedX = ly + fx /\ owedY = fy - lx
      BY <1>0, <2>2 DEF Accounted
    <3>3. owedX' = owedX + a /\ owedY' = owedY + d /\ ly' = ly + a /\ lx' = lx - d
      BY <1>3 DEF Move
    <3>4. owedX' = ly' + fx' /\ owedY' = fy' - lx'
      <4> HIDE DEF fx, fy
      <4> QED BY <1>0, <3>1, <3>2, <3>3
    <3>5. /\ pc' = pc /\ dx' = dx /\ dy' = dy /\ turned' = turned /\ wheel' = wheel
          /\ owedWheel' = owedWheel /\ ly' \in Int /\ lx' \in Int
      BY <1>0, <1>3 DEF Move, locals
    <3>6. /\ owedX' = ly' + (IF pc' = "send" THEN dx' ELSE 0) + InFlight'.x
          /\ owedY' = ((IF pc' = "send" THEN dy' ELSE 0) + InFlight'.y) - lx'
      BY <1>0, <2>2, <3>4, <3>5
    <3>7. owedWheel' = turned' + (IF Sampled' THEN wheel' ELSE 0) + InFlight'.wheel
      BY <2>2, <3>5 DEF Accounted
    <3> QED BY <3>6, <3>7 DEF Accounted
  <2> QED BY <1>3, <2>1, <2>3 DEF Move, usb, locals, HostInStep
<1>4. CASE set_config_thunk
  <2>1. /\ UNCHANGED <<turned, lx, ly, wheel, dx, dy>>
        /\ (pc = "send") = (pc' = "send") /\ Sampled = Sampled' /\ Discard
    BY <1>4 DEF set_config_thunk, Polling, Sampled, user, locals
  <2>2. Accounted' /\ ep' = Empty /\ owedX' \in Int /\ owedY' \in Int /\ owedWheel' \in Int
    BY <2>1, DiscardKeeps
  <2>3. TypeOK'
    <3>1. pc' = "sample" /\ configured' = TRUE /\ online' = TRUE
          /\ UNCHANGED <<ready, user, locals, last_buttons, hbuttons, stale, resets>>
      BY <1>4 DEF set_config_thunk
    <3> QED BY <2>2, <3>1 DEF TypeOK, user, locals
  <2>4. HostInStep'
    BY <1>4 DEF set_config_thunk, HostInStep
  <2> QED BY <1>4, <2>2, <2>3, <2>4 DEF set_config_thunk
<1>5. CASE BusReset
  <2>1. /\ UNCHANGED <<turned, lx, ly, wheel, dx, dy>>
        /\ (pc = "send") = (pc' = "send") /\ Sampled = Sampled' /\ Discard
    BY <1>5 DEF BusReset, Polling, Sampled, user, locals
  <2>2. Accounted' /\ ep' = Empty /\ owedX' \in Int /\ owedY' \in Int /\ owedWheel' \in Int
    BY <2>1, DiscardKeeps
  <2>3. TypeOK'
    <3>1. /\ pc' = pc /\ configured' = configured /\ online' = FALSE /\ hbuttons' = {} /\ stale' = TRUE
          /\ UNCHANGED <<ready, user, locals, last_buttons>>
      BY <1>5 DEF BusReset
    <3>2. resets' \in 0 .. MaxReset
      BY <1>5 DEF BusReset, TypeOK
    <3> QED BY <2>2, <3>1, <3>2 DEF TypeOK, user, locals
  <2> QED BY <1>5, <2>2, <2>3 DEF BusReset, HostInStep
<1>5a. CASE Reconfigure
  <2>1. /\ UNCHANGED <<turned, lx, ly, wheel, dx, dy>>
        /\ (pc = "send") = (pc' = "send") /\ Sampled = Sampled' /\ Discard
    BY <1>5a DEF Reconfigure, Polling, Sampled, user, locals
  <2>2. Accounted' /\ ep' = Empty /\ owedX' \in Int /\ owedY' \in Int /\ owedWheel' \in Int
    BY <2>1, DiscardKeeps
  <2>3. TypeOK'
    <3>1. /\ pc' = pc /\ configured' = TRUE /\ online' = online /\ hbuttons' = {} /\ stale' = TRUE
          /\ UNCHANGED <<ready, user, locals, last_buttons>>
      BY <1>5a DEF Reconfigure
    <3>2. resets' \in 0 .. MaxReset
      BY <1>5a DEF Reconfigure, TypeOK
    <3> QED BY <2>2, <3>1, <3>2 DEF TypeOK, user, locals
  <2> QED BY <1>5a, <2>2, <2>3 DEF Reconfigure, HostInStep
<1>6. CASE HostPoll
  <2>1. /\ UNCHANGED <<turned, lx, ly, wheel, dx, dy>>
        /\ (pc = "send") = (pc' = "send") /\ Sampled = Sampled' /\ Discard
    BY <1>6 DEF HostPoll, Sampled, user, locals
  <2>2. Accounted' /\ ep' = Empty /\ owedX' \in Int /\ owedY' \in Int /\ owedWheel' \in Int
    BY <2>1, DiscardKeeps
  <2>3. hbuttons' \in SUBSET Button
    BY <1>6 DEF HostPoll, TypeOK, Report
  <2>4. TypeOK'
    BY <1>6, <2>2, <2>3 DEF HostPoll, TypeOK, usb, user, locals
  <2> QED BY <1>6, <2>2, <2>4 DEF HostPoll, usb, HostInStep
<1>7. CASE SensorReady
  <2>1. TypeOK'
    BY <1>7 DEF SensorReady, TypeOK, usb, user, locals, owed
  <2> QED BY <1>7, <2>1 DEF SensorReady, usb, user, locals, owed,
                            Accounted, HostInStep, InFlight, Sampled
<1>8. CASE Sample
  <2>1. TypeOK'
    BY <1>8 DEF Sample, TypeOK, usb, owed
  <2>2. InFlight' = InFlight /\ InFlight.wheel \in Int
    BY <1>8 DEF Sample, TypeOK, InFlight, Report
  <2>3. Accounted'
    BY <1>0, <1>8, <2>2 DEF Sample, owed, Accounted, Sampled
  <2> QED BY <1>8, <2>1, <2>3 DEF Sample, usb, HostInStep
<1>9. CASE Motion
  <2>1. /\ pc = "motion" /\ pc' = "send" /\ InFlight' = InFlight
        /\ UNCHANGED <<pins, turned, inputs, buttons, wheel, usb, ready, last_buttons, ep, hbuttons, stale, owed, resets>>
    BY <1>9 DEF Motion, InFlight
  <2>2. lx' \in Int12 /\ ly' \in Int12 /\ dx' \in Int16 /\ dy' \in Int16
        /\ (dx' + ly' = ly) /\ (dy' = lx' - lx)
    <3>1. CASE ready
      <4>1. read_motion(Burst(lx, ly)) = <<lx, ly>>
        BY BurstDecoded DEF TypeOK
      <4>2. dx' = ly /\ dy' = 0 - lx /\ lx' = 0 /\ ly' = 0
        BY <1>9, <3>1, <4>1 DEF Motion
      <4>3. ly \in Int16 /\ 0 - lx \in Int16
        BY MotionFits DEF TypeOK
      <4> QED BY <1>0, <4>2, <4>3, HalfType
    <3>2. CASE ~ready
      <4>0. dx' = <<0, 0>>[2] /\ dy' = 0 - <<0, 0>>[1] /\ lx' = lx /\ ly' = ly
        BY <1>9, <3>2 DEF Motion
      <4>1. dx' = 0 /\ dy' = 0 /\ lx' = lx /\ ly' = ly
        BY <4>0
      <4> QED BY <1>0, <4>1, HalfType DEF TypeOK
    <3> QED BY <3>1, <3>2
  <2>3. TypeOK'
    BY <2>1, <2>2 DEF TypeOK, usb, owed
  <2>4. InFlight.x \in Int /\ InFlight.y \in Int
    BY WordType DEF TypeOK, InFlight, Report
  <2>5. dx' \in Int /\ dy' \in Int /\ lx' \in Int /\ ly' \in Int
    BY <2>2, InInt12, InInt16
  <2>6. Accounted'
    <3>1. owedX = ly + InFlight.x /\ owedY = InFlight.y - lx /\ owedWheel = turned + wheel + InFlight.wheel
      BY <1>0, <2>1, <2>4 DEF Accounted, Sampled
    <3>2. owedX' = ly' + dx' + InFlight.x /\ owedY' = (dy' + InFlight.y) - lx'
      <4>1. owedX' = owedX /\ owedY' = owedY
        BY <2>1 DEF owed
      <4> DEFINE fx == InFlight.x
                 fy == InFlight.y
      <4>2. fx \in Int /\ fy \in Int /\ owedX = ly + fx /\ owedY = fy - lx
        BY <2>4, <3>1
      <4> HIDE DEF fx, fy
      <4>3. dx' + ly' = ly /\ dy' = lx' - lx
        BY <2>2
      <4>4. owedX' = ly' + dx' + fx
        BY <2>5, <4>1, <4>2, <4>3
      <4>5. owedY' = (dy' + fy) - lx'
        <5>1. owedY' = fy - lx
          BY <4>1, <4>2
        <5>2. fy \in Int /\ lx \in Int /\ lx' \in Int
          BY <1>0, <2>5, <4>2
        <5>3. dy' = lx' - lx
          BY <4>3
        <5>4. \A a, b, c \in Int : ((b - a) + c) - b = c - a
          OBVIOUS
        <5> QED BY <5>1, <5>2, <5>3, <5>4
      <4> QED BY <4>4, <4>5 DEF fx, fy
    <3>3. turned' = turned
      BY <1>9 DEF Motion
    <3> QED BY <2>1, <3>1, <3>2, <3>3 DEF owed, Accounted, Sampled
  <2> QED BY <2>1, <2>3, <2>6 DEF usb, HostInStep
<1>10. CASE Send
  <2> DEFINE r == [buttons |-> buttons, dx |-> Bytes(dx), dy |-> Bytes(dy), wheel |-> wheel]
  <2>1. /\ pc = "send" /\ pc' = "sample" /\ configured
        /\ UNCHANGED <<usb, ready, user, locals, hbuttons, resets>>
    BY <1>10 DEF Send
  <2>2. r \in Report /\ r # Empty /\ buttons # AllBits
    BY BitmapIsNotAllBits, WordRead DEF Report, TypeOK
  <2>2a. Word(r.dx) = dx /\ Word(r.dy) = dy /\ r.wheel = wheel /\ r.buttons = buttons
    BY WordRead DEF TypeOK
  <2>2b. InFlight.x \in Int /\ InFlight.y \in Int /\ InFlight.wheel \in Int
    BY WordType DEF TypeOK, InFlight, Report
  <2> HIDE DEF r
  <2>3. CASE ~News
    <3>1. /\ buttons = last_buttons /\ wheel = 0 /\ dx = 0 /\ dy = 0
          /\ last_buttons' = last_buttons /\ UNCHANGED <<ep, stale, owed>>
      BY <1>10, <2>3 DEF Send, News
    <3>2. TypeOK'
      BY <2>1, <3>1 DEF TypeOK, usb, user, locals, owed
    <3>3. InFlight' = InFlight
      BY <3>1 DEF InFlight
    <3>4. Accounted'
      BY <1>0, <2>1, <2>2b, <3>1, <3>3 DEF user, locals, owed, Accounted, Sampled
    <3> QED BY <2>1, <2>2, <3>1, <3>2, <3>4 DEF usb, user, locals, HostInStep
  <2>4. CASE News /\ ep = Empty
    <3>1. last_buttons' = buttons /\ ep' = r /\ stale' = ~online /\ UNCHANGED owed
      BY <1>10, <2>1, <2>4 DEF Send, send_report, usbd_ep_write_packet, r
    <3>2. TypeOK'
      BY <2>1, <2>2, <3>1 DEF TypeOK, usb, user, locals, owed, AllBits
    <3>3. InFlight = [x |-> 0, y |-> 0, wheel |-> 0] /\ InFlight' = [x |-> dx, y |-> dy, wheel |-> wheel]
      BY <2>2, <2>2a, <2>4, <3>1 DEF InFlight
    <3>4. Accounted'
      BY <1>0, <2>1, <3>1, <3>3 DEF user, locals, owed, Accounted, Sampled
    <3> QED BY <2>1, <2>2, <2>2a, <3>1, <3>2, <3>4 DEF usb, user, locals, HostInStep
  <2>5. CASE News /\ ep # Empty
    <3>1. last_buttons' = buttons /\ ep' = ep /\ stale' = TRUE /\ Taken(r)
      BY <1>10, <2>1, <2>5 DEF Send, send_report, usbd_ep_write_packet, r
    <3>2. owedX' = owedX - dx /\ owedY' = owedY - dy /\ owedWheel' = owedWheel - wheel
      BY <2>2a, <3>1 DEF Taken
    <3>3. TypeOK'
      BY <1>0, <2>1, <3>1, <3>2 DEF TypeOK, usb, user, locals, AllBits
    <3>4. InFlight' = InFlight
      BY <3>1 DEF InFlight
    <3>5. Accounted'
      BY <1>0, <2>1, <2>2b, <3>2, <3>4 DEF user, locals, Accounted, Sampled
    <3> QED BY <2>1, <2>2, <2>5, <3>1, <3>3, <3>5 DEF usb, user, locals, HostInStep
  <2> QED BY <2>3, <2>4, <2>5
<1>11. CASE UNCHANGED vars
  BY <1>11 DEF vars, usb, user, locals, owed, TypeOK, Accounted, HostInStep, InFlight, Sampled
<1>12. \A d \in Moves : d \in Int
  BY HalfType DEF Moves
<1> QED BY <1>1, <1>2, <1>3, <1>4, <1>5, <1>5a, <1>6, <1>7, <1>8, <1>9, <1>10, <1>11, <1>12 DEF Next, User, Loop

(* main.cpp:92-113 for every interleaving of the loop, the user and the    *)
(* host: what the user did is accounted for, and the host is in step with  *)
(* last_buttons until a report is refused or the bus reset.                *)
THEOREM LoopCorrect == Spec => []LoopInv
<1> QED BY InitInv, StepInv, PTL DEF Spec
=============================================================================
