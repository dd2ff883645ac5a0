--------------------------- MODULE MCMouseReports ---------------------------
(***************************************************************************)
(* Bounds: two buttons, three clicks, scroll ticks or moves in all and one *)
(* bus reset or new configuration: enough to fill the endpoint, refuse a   *)
(* report behind it, undo what the refused report said, and lose a report  *)
(* to the reset.  A byte of 2 bits and a nibble of 1 make counts of        *)
(* -4 .. 3 and of -8 .. 7; each move is by one or to an end of the smaller *)
(* range.                                                                  *)
(***************************************************************************)
EXTENDS MouseReports

CONSTANTS left, right
=============================================================================
