----------------------------- MODULE MCDfuUpdate -----------------------------
(***************************************************************************)
(* Bounds: an image of two blocks, the second shorter than a page, and one *)
(* of a single block; four faults.                                         *)
(***************************************************************************)
EXTENDS DfuUpdate, TLC

CONSTANTS vec, code, newvec, newcode, settings

MCData == {vec, code, newvec, newcode, settings}
MCVectors == {vec, newvec}
MCShipped == [p \in Pages |-> [c \in CellIx |-> IF p \in SettingsPages THEN settings
                                                ELSE IF p = Base /\ c = 1 THEN vec ELSE code]]
LongImage == (0 :> <<newvec, newcode>>) @@ (1 :> <<newcode>>)
ShortImage == 0 :> <<newvec>>
MCImages == {LongImage, ShortImage}
MCBlocks == 0 .. 1
=============================================================================
