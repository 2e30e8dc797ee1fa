----------------------------- MODULE AppRequests -----------------------------
(***************************************************************************)
(* What the app asks of the supervisor: ping LoRa, run the model, switch   *)
(* an actuator.  The BLE handlers (ble_gatt.c) run whenever they like and  *)
(* leave each request in a mailbox of one; the supervisor (main.c) takes   *)
(* them at the end of its iteration, where it works from the copy of the   *)
(* configuration that it took at the top, and keeps the output pins in     *)
(* step with the table of that copy.                                       *)
(*                                                                         *)
(* A slot is either an actuator or a sensor on a pin.  The build carries   *)
(* the model.                                                              *)
(***************************************************************************)
EXTENDS Integers

CONSTANTS
    N,          \* slots, whose ports are 1..N (SAVIA_MAX_SENSORS)
    Gpios,      \* pins the slots may use
    Tables,     \* tables the app may write
    Modes,      \* modes it or the network may set: TRUE is LOCAL
    Clients,    \* phones
    None        \* no client, no request

Slots == 1..N
Slot == [act: BOOLEAN, gpio: Gpios]

ASSUME RequestsAssumption ==
    /\ N \in Nat \ {0}
    /\ Tables # {} /\ \A t \in Tables: /\ t \in [Slots -> Slot]
                                       /\ \A i, j \in Slots: i # j => t[i].gpio # t[j].gpio
    /\ Modes \subseteq BOOLEAN /\ Modes # {}
    /\ None \notin Clients

VARIABLES
    pc,         \* where the supervisor is
    cfg,        \* the configuration: its table, and whether the mode is LOCAL
    dirty,      \* g_config_dirty
    live,       \* the supervisor's copy
    seen,       \* out_slots: the table the pins were last set up for
    level,      \* what each pin is driven to
    on,         \* actuator.c: the logical state of each port
    con,        \* the client connected
    ping,       \* the mailboxes: the client that asked, or None
    infer,      \* whoever asked
    act,        \* [who, port, on]
    taken,      \* what the supervisor has read of act since it took it
    crossed     \* history: in this power cycle a switch has driven the pin of a
                \* slot that the pins were not set up for

store == <<cfg, dirty>>
outputs == <<seen, level, on>>
boxes == <<ping, infer, act>>
vars == <<pc, store, live, outputs, con, boxes, taken, crossed>>

NoAct == [who |-> None, port |-> 1, on |-> FALSE]
NothingTaken == [port |-> 0, on |-> FALSE]

-----------------------------------------------------------------------------
(* The output pins.                                                        *)

Moved(old, new) == old.gpio # new.gpio
Released(old, new) == old.act /\ (~new.act \/ Moved(old, new))
Claimed(old, new) == new.act /\ (~old.act \/ Moved(old, new))

\* Mutant: an actuator that only changes its pin is not released.
SyncSlotInPlace(s, i, old, new) ==
    LET off == old[i].act /\ ~new[i].act
        s1 == IF off THEN [level |-> [s.level EXCEPT ![old[i].gpio] = "low"],
                           on |-> [s.on EXCEPT ![i] = FALSE]] ELSE s
    IN  IF Claimed(old[i], new[i])
        THEN [s1 EXCEPT !.level[new[i].gpio] = IF s1.on[i] THEN "high" ELSE "low"]
        ELSE s1

\* One slot: the pin it leaves is driven low and its state forgotten, the pin
\* it takes is driven to its state.
SyncSlot(s, i, old, new) ==
    LET s1 == IF Released(old[i], new[i])
              THEN [level |-> [s.level EXCEPT ![old[i].gpio] = "low"],
                    on |-> [s.on EXCEPT ![i] = FALSE]]
              ELSE s
    IN  IF Claimed(old[i], new[i])
        THEN [s1 EXCEPT !.level[new[i].gpio] = IF s1.on[i] THEN "high" ELSE "low"]
        ELSE s1

\* sync_output_pins: slot by slot.
Synced(table) ==
    LET upTo[k \in 0..N] ==
          IF k = 0 THEN [level |-> level, on |-> on] ELSE SyncSlot(upTo[k - 1], k, seen, table)
    IN  upTo[N]

SyncPins(table) ==
    level' = Synced(table).level /\ on' = Synced(table).on /\ seen' = table

-----------------------------------------------------------------------------
(* The supervisor's iteration.                                             *)

Top ==
    /\ pc = "top" /\ pc' = "work"
    /\ live' = cfg
    /\ SyncPins(cfg.table)
    /\ UNCHANGED <<store, con, boxes, taken, crossed>>

\* What the app wrote is saved from a fresh copy, which the rest of the
\* iteration goes on with.
Refresh == live' = (IF dirty THEN cfg ELSE live) /\ dirty' = FALSE

\* Sensors, LoRa, the daily run and the saves, seconds or more of it.
Work ==
    /\ pc = "work" /\ pc' = "nap"
    /\ Refresh
    /\ UNCHANGED <<cfg, outputs, con, boxes, taken, crossed>>

\* The same with a patch from the network, which may set the mode, among it.
PatchedWork(local) ==
    /\ pc = "work" /\ pc' = "nap"
    /\ cfg' = [cfg EXCEPT !.local = local]
    /\ live' = cfg' /\ dirty' = FALSE
    /\ UNCHANGED <<outputs, con, boxes, taken, crossed>>

\* The nap ends by itself, by a request or by the button, which has what there
\* is to save saved.
Nap(button) ==
    /\ pc = "nap" /\ pc' = "infer"
    /\ IF button THEN Refresh ELSE UNCHANGED <<live, dirty>>
    /\ UNCHANGED <<cfg, outputs, con, boxes, taken, crossed>>

TakeInfer ==
    /\ pc = "infer" /\ pc' = "ping"
    /\ infer' = FALSE
    /\ UNCHANGED <<store, live, outputs, con, ping, act, taken, crossed>>

TakePing ==
    /\ pc = "ping" /\ pc' = "act"
    /\ ping' = None
    /\ UNCHANGED <<store, live, outputs, con, infer, act, taken, crossed>>

\* ble_take_act clears the flag first and reads the request after, a field at
\* a time.
TakeAct ==
    /\ pc = "act"
    /\ pc' = IF act.who = None THEN "top" ELSE "port"
    /\ act' = [act EXCEPT !.who = None]
    /\ UNCHANGED <<store, live, outputs, con, ping, infer, taken, crossed>>

ReadPort ==
    /\ pc = "port" /\ pc' = "on"
    /\ taken' = [taken EXCEPT !.port = act.port]
    /\ UNCHANGED <<store, live, outputs, con, boxes, crossed>>

ReadOn ==
    /\ pc = "on" /\ pc' = "switch"
    /\ taken' = [taken EXCEPT !.on = act.on]
    /\ UNCHANGED <<store, live, outputs, con, boxes, crossed>>

\* Mutant: the state the app is shown is not updated.
SwitchPinOnly ==
    /\ pc = "switch" /\ pc' = "top"
    /\ level' = IF live.table[taken.port].act
                THEN [level EXCEPT ![live.table[taken.port].gpio] =
                        IF taken.on THEN "high" ELSE "low"]
                ELSE level
    /\ taken' = NothingTaken
    /\ UNCHANGED <<store, live, seen, on, con, boxes, crossed>>

\* The slot must be an actuator of the copy, which may have been refreshed since
\* the pins were set up.
Switch ==
    /\ pc = "switch" /\ pc' = "top"
    /\ IF live.table[taken.port].act
       THEN /\ level' = [level EXCEPT ![live.table[taken.port].gpio] =
                           IF taken.on THEN "high" ELSE "low"]
            /\ on' = [on EXCEPT ![taken.port] = taken.on]
       ELSE UNCHANGED <<level, on>>
    /\ crossed' = (crossed \/ (live.table[taken.port].act /\ live.table[taken.port] # seen[taken.port]))
    /\ taken' = NothingTaken
    /\ UNCHANGED <<store, live, seen, con, boxes>>

Supervisor ==
    \/ Top \/ Work \/ (\E l \in Modes: PatchedWork(l)) \/ (\E b \in BOOLEAN: Nap(b))
    \/ TakeInfer \/ TakePing \/ TakeAct \/ ReadPort \/ ReadOn \/ Switch

-----------------------------------------------------------------------------
(* The BLE handlers, between any two steps of the supervisor.              *)

Connect(c) ==
    /\ con = None /\ con' = c
    /\ UNCHANGED <<pc, store, live, outputs, boxes, taken, crossed>>

\* Mutant: the requests outlive the connection.
Drop ==
    /\ con # None /\ con' = None
    /\ UNCHANGED <<pc, store, live, outputs, boxes, taken, crossed>>

\* What the client left in the mailboxes goes with it, the inference excepted.
Disconnect ==
    /\ con # None /\ con' = None
    /\ ping' = None /\ act' = [act EXCEPT !.who = None]
    /\ UNCHANGED <<pc, store, live, outputs, infer, taken, crossed>>

ConfigWrite(table, local) ==
    /\ con # None /\ cfg # [table |-> table, local |-> local]
    /\ cfg' = [table |-> table, local |-> local] /\ dirty' = TRUE
    /\ UNCHANGED <<pc, live, outputs, con, boxes, taken, crossed>>

AskPing ==
    /\ con # None /\ ping' = con
    /\ UNCHANGED <<pc, store, live, outputs, con, infer, act, taken, crossed>>

\* Queued, and acknowledged as such, only where the model would run.
AskInfer ==
    /\ con # None /\ cfg.local
    /\ infer' = TRUE
    /\ UNCHANGED <<pc, store, live, outputs, con, ping, act, taken, crossed>>

\* Queued, and acknowledged as such, only for the port of an actuator.
AskSwitch(i, b) ==
    /\ con # None /\ i \in Slots /\ cfg.table[i].act
    /\ act' = [who |-> con, port |-> i, on |-> b]
    /\ UNCHANGED <<pc, store, live, outputs, con, ping, infer, taken, crossed>>

Handlers ==
    \/ \E c \in Clients: Connect(c)
    \/ Disconnect
    \/ \E t \in Tables, l \in Modes: ConfigWrite(t, l)
    \/ AskPing \/ AskInfer
    \/ \E i \in 0..N + 1, b \in BOOLEAN: AskSwitch(i, b)

-----------------------------------------------------------------------------
(* A boot sets the pins up once before BLE is on and enters the loop; the  *)
(* requests die with the power, the configuration is read back.            *)

AllOff == [i \in Slots |-> FALSE]
SetUp ==
    [g \in Gpios |-> IF \E i \in Slots: cfg.table[i] = [act |-> TRUE, gpio |-> g]
                     THEN "low" ELSE "float"]

Init ==
    /\ cfg \in [table: Tables, local: Modes]
    /\ pc = "top" /\ live = cfg /\ dirty = FALSE
    /\ seen = cfg.table /\ level = SetUp /\ on = AllOff
    /\ con = None /\ ping = None /\ infer = FALSE /\ act = NoAct
    /\ taken = NothingTaken /\ crossed = FALSE

PowerCycle ==
    /\ ~dirty
    /\ pc' = "top" /\ live' = cfg
    /\ seen' = cfg.table /\ level' = SetUp /\ on' = AllOff
    /\ con' = None /\ ping' = None /\ infer' = FALSE /\ act' = NoAct
    /\ taken' = NothingTaken /\ crossed' = FALSE
    /\ UNCHANGED store

Next == Supervisor \/ Handlers \/ PowerCycle

Spec == Init /\ [][Next]_vars

\* Every call of the iteration is bounded, so the loop goes round.
FairSpec == Spec /\ WF_vars(Supervisor)

-----------------------------------------------------------------------------
(* Properties.                                                             *)

TypeOK ==
    /\ pc \in {"top", "work", "nap", "infer", "ping", "act", "port", "on", "switch"}
    /\ cfg \in [table: Tables, local: Modes] /\ live \in [table: Tables, local: Modes]
    /\ dirty \in BOOLEAN /\ seen \in Tables
    /\ level \in [Gpios -> {"float", "low", "high"}] /\ on \in [Slots -> BOOLEAN]
    /\ {con, ping} \subseteq Clients \cup {None} /\ infer \in BOOLEAN
    /\ act \in [who: Clients \cup {None}, port: Slots, on: BOOLEAN]
    /\ taken \in [port: Slots \cup {0}, on: BOOLEAN]
    /\ pc \in {"on", "switch"} => taken.port \in Slots
    /\ crossed \in BOOLEAN

\* The pins show a table: a pin is high exactly when it is of an actuator that is
\* on, and nothing but an actuator is on.
PinsShow(table, states) ==
    /\ \A g \in Gpios: level[g] = "high" <=>
         \E i \in Slots: table[i] = [act |-> TRUE, gpio |-> g] /\ states[i]
    /\ \A i \in Slots: states[i] => table[i].act

Driven(table) == \A i \in Slots: table[i].act => level[table[i].gpio] # "float"

\* main.c: "Drive every output slot to its logical state, and release the ones
\* that stopped being outputs": once the supervisor has looked at the table no
\* actuator's pin floats, and a pin is high exactly when it belongs to an actuator
\* that the app is told is on, whatever the app has moved, swapped, retyped or
\* switched, and however fast, unless in this power cycle a switch was carried out
\* by a copy refreshed for the save, on a slot that the pins were not set up for.
OutputsMatchSlots ==
    pc = "work" => Driven(live.table) /\ (~crossed => PinsShow(live.table, on))

\* Violated.  main.c: "no output is left floating or energised without a slot behind
\* it": without the exception.  A switch of the new table, refreshed for the save,
\* comes before the pins are set up for it, and two slots trade pins or a second
\* write takes the slot back.
OutputsAlwaysMatch == pc = "work" => PinsShow(live.table, on)

(* Why they do match.                                                      *)

\* The pins are right for the table that they were last set up for.
PinsAreRight == Driven(seen) /\ (~crossed => PinsShow(seen, on))

\* The iteration sets the pins up for the copy it begins with.
SetUpForCopy == pc = "work" => live.table = seen

\* What is in the mailboxes is of the client connected.
BoxesAreTheClients == {ping, act.who} \subseteq {con, None}

IInv == TypeOK /\ PinsAreRight /\ SetUpForCopy /\ BoxesAreTheClients

\* "a queued ping dies with the client that asked": no request but that for an
\* inference is taken on behalf of a client that has gone.
RequestsDieWithClient ==
    [][/\ pc = "ping" /\ pc' = "act" /\ ping # None => ping = con
       /\ pc = "act" /\ pc' = "port" => act.who = con]_vars

\* A switch asked for while the supervisor's copy is current, of an actuator
\* that keeps its slot, happens, unless the client takes it back, goes, or
\* asks for another.
QueuedSwitchHappens ==
    \A i \in Slots, b \in BOOLEAN:
        (act.who # None /\ act.port = i /\ act.on = b /\ live = cfg /\ cfg.table[i].act)
            ~> (on[i] = b \/ act.port # i \/ act.on # b \/ con = None \/ live # cfg)

\* Violated.  ble_gatt.c of the count the app gets: "1 = queued for the
\* supervisor": a switch queued is not dropped for one of another port.
QueuedSwitchStays ==
    [][act.who # None /\ act'.who # None => act'.port = act.port]_vars

\* Violated.  ble_gatt.c: the answer is 1 "only if the run will actually
\* happen": a trigger taken while the mode is LOCAL is not ignored.
QueuedInferenceRuns ==
    [][pc = "infer" /\ pc' = "ping" /\ infer /\ cfg.local => live.local]_vars

\* Violated.  ble.h: "take the queued {port, on} request": no port is switched
\* by the state asked of another.
SwitchedAsAsked ==
    [][pc = "on" /\ pc' = "switch" => act.port = taken.port]_vars

\* Violated.  main.c: "only a configured ACTUATOR slot drives its GPIO".
OnlyActuatorsAreDriven ==
    [][pc = "switch" /\ pc' = "top" /\ level' # level =>
         \E i \in Slots: cfg.table[i].act /\ level'[cfg.table[i].gpio] # level[cfg.table[i].gpio]]_vars
=============================================================================
