--------------------------- MODULE MCLedIndicator ---------------------------
(***************************************************************************)
(* Bounds: a millisecond of 32 counts, so that the duty goes up to 8; a    *)
(* pass of at most 2 counts; fades of 4 ms, and a clock of 20 ms, which    *)
(* wraps two thirds through the cycle of 12, as 2^32 does.                 *)
(***************************************************************************)
EXTENDS LedIndicator
=============================================================================
