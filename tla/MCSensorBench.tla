---------------------------- MODULE MCSensorBench ----------------------------
(* Two commands of a console and two probes; and for the measurement alone:   *)
(* values with a sign, a fraction and two digits; over one D command and      *)
(* two; none at all; and one value more than there is room for.               *)
EXTENDS SensorBench

CONSTANTS m0, d1
MCCommands == {[text |-> m0, pin |-> 2], [text |-> d1, pin |-> 3]}
P1 == <<43, 49>>
M25 == <<45, 50, 46, 53>>
P30 == <<43, 51, 48>>
MCProbes == { << <<P1, M25>>, <<P30>> >>, << <<>> >>, << <<M25, P1, P30, P1>> >>, << <<P1>>, <<P30>>, <<M25>> >> }
=============================================================================
