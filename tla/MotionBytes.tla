----------------------------- MODULE MotionBytes ----------------------------
(***************************************************************************)
(* Motion as bytes.  The sensor answers a motion burst with two counts of  *)
(* 12 bits that share a byte for their upper nibbles, which read_motion()  *)
(* puts together (firmware/src/drivers/sensor_1855.cpp); send_report()     *)
(* takes counts of 16 bits apart again (firmware/src/services/usb_hid.cpp).*)
(***************************************************************************)
EXTENDS Integers

CONSTANTS Byte,            \* 2^8
          Nibble           \* 2^4

ASSUME ByteAssumption ==
    /\ Byte \in Nat /\ Nibble \in Nat
    /\ Nibble >= 2 /\ Nibble % 2 = 0 /\ Nibble < Byte /\ Byte % 2 = 0

Half12 == Byte * (Nibble \div 2)
Half16 == Byte * (Byte \div 2)
Int12 == -Half12 .. Half12 - 1
Int16 == -Half16 .. Half16 - 1

\* The chip: hdr is left out, status is its bit 7.
Burst(x, y) ==
    [status |-> x # 0 \/ y # 0, dxL |-> x % Byte, dyL |-> y % Byte,
     dxyH |-> (((x \div Byte) % Nibble) * Nibble) + ((y \div Byte) % Nibble)]

\* Mutant: the nibbles the other way round.
SwappedX(resp) == (resp.dxyH % Nibble) * Byte + resp.dxL
RawX(resp) == (resp.dxyH \div Nibble) * Byte + resp.dxL
RawY(resp) == (resp.dxyH % Nibble) * Byte + resp.dyL
SignExtended(r) == IF r >= Half12 THEN r - 2 * Half12 ELSE r
read_motion(resp) ==
    IF resp.status THEN <<SignExtended(RawX(resp)), SignExtended(RawY(resp))>> ELSE <<0, 0>>

\* The bytes of a report, and the host's reading of them.
Bytes(d) == <<d % Byte, (d \div Byte) % Byte>>
Signed(u) == IF u >= Half16 THEN u - 2 * Half16 ELSE u
Word(b) == Signed(b[2] * Byte + b[1])
=============================================================================
