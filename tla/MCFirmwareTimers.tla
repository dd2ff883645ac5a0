-------------------------- MODULE MCFirmwareTimers --------------------------
(***************************************************************************)
(* Bounds: a counter that wraps every 12 ms and may be anywhere when the   *)
(* firmware starts, a settling time of 2, a gap of 3 and a hold of 6 ms,   *)
(* iterations of at most 1 ms, 2 ms with a pass.                           *)
(***************************************************************************)
EXTENDS FirmwareTimers
=============================================================================
