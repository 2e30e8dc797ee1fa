---------------------------- MODULE MCAppRequests ----------------------------
(* Two slots on two pins.  In AppRequests.cfg an actuator moves to the pin of *)
(* another, which becomes a sensor on the pin left, and back, and the mode is *)
(* LOCAL; in the other actuators also come, go and trade places.              *)
EXTENDS AppRequests

MCGpios == {2, 3}
At(a, g) == [act |-> a, gpio |-> g]
MCTables == {<<At(TRUE, 2), At(TRUE, 3)>>, <<At(TRUE, 3), At(FALSE, 2)>>}
MCAllTables ==
    MCTables \cup {<<At(TRUE, 3), At(TRUE, 2)>>, <<At(FALSE, 2), At(TRUE, 3)>>}
=============================================================================
