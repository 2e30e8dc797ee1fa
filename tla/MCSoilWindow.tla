---------------------------- MODULE MCSoilWindow ----------------------------
(* A station with a probe at two depths that forwards, sampling twice an     *)
(* hour of three ticks, and one with the same probe and an air sensor that   *)
(* forecasts, sampling once. Neither samples on the full hour; Replaying does *)
(* nothing else.                                                             *)
EXTENDS SoilWindow
Probe == <<10, 30>>
Air == <<0>>
Forwarding == [mode |-> "forward", ports |-> <<Probe>>, at |-> {1, 2}, last |-> 13]
Forecasting == [mode |-> "local", ports |-> <<Probe, Air>>, at |-> {1}, last |-> 13]
Replaying == [mode |-> "forward", ports |-> <<Probe>>, at |-> {0}, last |-> 12]
Both == {Forwarding, Forecasting}
OneForecasting == {Forecasting}
OneForwarding == {Forwarding}
OneReplaying == {Replaying}
=============================================================================
