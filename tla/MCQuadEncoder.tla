---------------------------- MODULE MCQuadEncoder ----------------------------
(***************************************************************************)
(* Bounds: three quarters of a turn of the phase table beyond a detent in  *)
(* each direction, a counter that saturates at two ticks, windows of up to *)
(* four edges (a whole period of the code), and two missed windows.        *)
(***************************************************************************)
EXTENDS QuadEncoder
=============================================================================
