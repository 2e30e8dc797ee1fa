---------------------------- MODULE DurableImage ----------------------------
(***************************************************************************)
(* What savia_c promises about the measurement state it keeps in flash     *)
(* (storage_store.h): the station works on a copy in RAM, flash holds one  *)
(* complete image, a power cut costs the RAM copy and nothing else, and    *)
(* the station restarts from the image.  The image changes in one way      *)
(* only: it becomes, at once, the state RAM holds at that moment.          *)
(* ImageStore.tla is shown to implement this specification.                *)
(***************************************************************************)
CONSTANTS
  Rings,      \* contents the readings ring can have
  EmptyRing,  \* the ring of a station that has measured nothing
  Windows,    \* air-temperature (TA) windows a downlink can deliver
  NoWindow    \* the TA cache before the first one

VARIABLES
  on,         \* the station has power
  ring,       \* the readings ring in RAM
  window,     \* the TA cache in RAM
  durable     \* the image a boot would restore

vars == <<on, ring, window, durable>>

Blank == [ring |-> EmptyRing, window |-> NoWindow]

Init ==
  /\ on = FALSE
  /\ ring = EmptyRing
  /\ window = NoWindow
  /\ durable = Blank

\* Readings come back at boot; the TA window only once its age can be judged.
Restart ==
  /\ ~on
  /\ on' = TRUE
  /\ ring' = durable.ring
  /\ window' = NoWindow
  /\ UNCHANGED durable

Work ==
  /\ on
  /\ ring' \in Rings
  /\ window' \in {window} \union Windows
  /\ UNCHANGED <<on, durable>>

Commit ==
  /\ on
  /\ durable' = [ring |-> ring, window |-> window]
  /\ UNCHANGED <<on, ring, window>>

PowerCut ==
  /\ on
  /\ on' = FALSE
  /\ ring' = EmptyRing
  /\ window' = NoWindow
  /\ UNCHANGED durable

Next == Restart \/ Work \/ Commit \/ PowerCut

Spec == Init /\ [][Next]_vars
=============================================================================
