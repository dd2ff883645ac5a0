----------------------------- MODULE MCLighting -----------------------------
(***************************************************************************)
(* Bounds: two channels of 3 bits, colours up to 2 and a clock that wraps  *)
(* after each breath, read every 0 to 3 ms, reach every turning point; a   *)
(* handler may end two base ticks late, which is as long as phase 0.       *)
(***************************************************************************)
EXTENDS Lighting

MCColours == {[c \in Channels |-> IF c = 0 THEN Top ELSE Top - 1]}
=============================================================================
