------------------------------ MODULE MCConsole ------------------------------
(* Two commands, to probes on two pins.                                      *)
EXTENDS Console

CONSTANTS m0, d1
MCCommands == {[text |-> m0, pin |-> 2], [text |-> d1, pin |-> 3]}
=============================================================================
