--------------------------- MODULE MCStationConfig ---------------------------
(* A header of five pins: GP0/GP1 are a UART pair, GP15 is the wake button,  *)
(* GP23 the radio chip's, GP26 analog.                                       *)
EXTENDS StationConfig, TLC

MCGpios == {0, 1, 15, 23, 26}
MCNoPin == 255
MCWireless == {23}
MCAdcs == {26}
MCSlots == {1, 2}
MCPeriods == {300}
MCDegrees == {7}

At(type, g) == [type |-> type, gpio |-> g, gpio2 |-> MCNoPin]
Sonar(g, h) == [type |-> "sonar", gpio |-> g, gpio2 |-> h]
MCSlotChoices == {Free, At("probe", 0), At("probe", 15), Sonar(26, 1), Sonar(26, 26)}
MCTables == [MCSlots -> MCSlotChoices]

MCNothing == [on |-> Absent, tx |-> Absent, rx |-> Absent, table |-> Absent,
              period |-> Absent, mode |-> Absent, lat |-> Absent, lon |-> Absent]

\* The checks of the pins and those of the other fields do not meet, so a patch
\* carries the ones or the others.
MCPinPatches ==
    {[MCNothing EXCEPT !.on = o, !.tx = t, !.rx = r, !.table = s]:
        o \in {TRUE, FALSE, Absent}, t \in {0, MCNoPin, Absent},
        r \in {1, Absent}, s \in MCTables \cup {Absent}}
MCFieldPatches ==
    {[MCNothing EXCEPT !.period = v, !.mode = m]: v \in {299, Absent}, m \in Modes \cup {Absent}}
MCCoordPatches ==
    {[MCNothing EXCEPT !.lat = a, !.lon = b]: a \in {7, Unset, Absent}, b \in {7, Absent}}
MCPatches == MCPinPatches \cup MCFieldPatches
MCTlvs == [period: {299, Absent}, mode: {"local", Absent}, lat: {Absent}, lon: {Absent}]
MCCoordTlvs == {[period |-> Absent, mode |-> Absent, lat |-> 7, lon |-> Absent]}
=============================================================================
