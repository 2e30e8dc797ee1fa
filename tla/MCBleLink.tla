------------------------------ MODULE MCBleLink ------------------------------
(* Two connections; two requests, two writes and two updates of the weather.   *)
EXTENDS BleLink
=============================================================================
