------------------------------ MODULE MCStation ------------------------------
(* In Station.cfg: a window of this hour and the next, a ring with room for   *)
(* it and for one reading more, one reset, two hours of which the second       *)
(* begins at any step.  In the others one hour of the past more, and two       *)
(* resets.                                                                     *)
EXTENDS Station
=============================================================================
