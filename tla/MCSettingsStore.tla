--------------------------- MODULE MCSettingsStore ---------------------------
(***************************************************************************)
(* Bounds: sequence numbers of 2 bits, so that the counter wraps every     *)
(* four saves, and two payload cells, the second of them the part that the *)
(* checksum misses.  The checksum is the code's own loop on a register of  *)
(* 2 bits, reflected polynomial 0b11: one sum in four is zero.             *)
(***************************************************************************)
EXTENDS SettingsStore, Bitwise

CONSTANT OldVersion        \* kVersion of a firmware flashed before this one

MCDefaults == [i \in 1 .. PayloadLen |-> 0]

ShiftBit(c) == (c \div 2) ^^ (IF c % 2 = 1 THEN 3 ELSE 0)
MCCrc ==
    LET sum[f \in Body, n \in CrcC - 4 .. NCells - 1] ==
            IF n = MagicC THEN 3 ELSE ShiftBit(ShiftBit(sum[f, n - 1] ^^ f[n]))
    IN  [f \in Body |-> sum[f, NCells - 1] ^^ 3]

MCStored == {<<0, 3>>, <<3, 0>>}
MCCutErase == {1 .. c : c \in Cells} \cup {c .. NCells : c \in Cells}
MCShipped == {ErasedPage, BlobOf(OldVersion, 0, Defaults)}
=============================================================================
