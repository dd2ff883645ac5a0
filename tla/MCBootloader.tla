---------------------------- MODULE MCBootloader ----------------------------
(***************************************************************************)
(* Bounds: one page of bootloader and three of firmware, the last one      *)
(* write-protected; a host that addresses the first page, the protected    *)
(* one and the one after the end, the page between them being there to be  *)
(* left alone; pages of two cells, so that a block can be shorter than its *)
(* page.                                                                   *)
(***************************************************************************)
EXTENDS Bootloader

CONSTANTS vec, code

MCData == {vec, code}
MCVectors == {vec}
MCShipped == [p \in Pages |-> [c \in CellIx |-> IF p = Base /\ c = 1 THEN vec ELSE code]]
MCBlocks == {0, End - 1 - Base, End - Base}
=============================================================================
