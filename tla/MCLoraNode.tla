----------------------------- MODULE MCLoraNode -----------------------------
(* Small instances of LoraNode: a period of three or four seconds against  *)
(* naps of three, a second of work per iteration, a second of slip per deep *)
(* sleep; coordinates that the app and the network may each change.         *)
EXTENDS LoraNode

MCNaps == {3}
MCWorks == {1}
MCSlips == {-1, 0, 1}
MCNoSlip == {0}
=============================================================================
