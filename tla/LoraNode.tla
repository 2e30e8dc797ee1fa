------------------------------ MODULE LoraNode ------------------------------
(***************************************************************************)
(* The LoRaWAN side of the station: the send-once frames, the period gate  *)
(* and the CONFIG mailbox of drivers/lora_wioe5.c, driven by the loop of   *)
(* main.c, with the configuration the app edits over BLE and the deep      *)
(* sleeps that power the chip off and leave it only a few registers.       *)
(*                                                                         *)
(* Time is kept as ages in seconds.  A step of the loop takes some time of *)
(* Works and naps for some of Naps at most; the app may wake it earlier.   *)
(* The radio answers as it likes: a module that is silent, a join or an    *)
(* uplink that fails, times out or goes through, with or without a CONFIG  *)
(* downlink.  A CONFIG patch carries coordinates (the one field a frame    *)
(* depends on).  Frames that carry only data (soil, forecast) are "data".  *)
(*                                                                         *)
(* Bounds: Edits (writes of the app), Patches (CONFIG downlinks), Cuts     *)
(* (power cuts), Sleeps (deep sleeps), AgeMax (an age that matters no      *)
(* longer).                                                                *)
(***************************************************************************)
EXTENDS Integers, FiniteSetsExt

CONSTANTS
    Period,     \* lora_period_s after its clamp
    MinNap,     \* SAVIA_DEEP_SLEEP_MIN_S
    Naps,       \* what the scheduler or sleep_seconds asks for
    Works, MaxWork,    \* what an iteration takes besides its nap
    Slips, MaxSlip,    \* error of the age carried through a deep sleep
    AgeMax,
    Coords, NoCoords,
    Pins, NoPins,        \* UART pin pairs, and none assigned
    DeepSleepEnabled,    \* cfg.deep_sleep_enabled
    Edits, Patches, Cuts, Sleeps

ASSUME LoraAssumption ==
    /\ Period \in Nat \ {0} /\ MinNap \in Nat \ {0}
    /\ Naps \subseteq Nat \ {0} /\ Naps # {}
    /\ MaxWork \in Nat /\ Works \subseteq 1..MaxWork /\ Works # {}
    /\ MaxSlip \in Nat /\ Slips \subseteq -MaxSlip..MaxSlip /\ 0 \in Slips
    /\ AgeMax \in Nat /\ AgeMax > Period
    /\ NoCoords \notin Coords /\ NoPins \notin Pins
    /\ DeepSleepEnabled \in BOOLEAN
    /\ Edits \in Nat /\ Patches \in Nat /\ Cuts \in Nat /\ Sleeps \in Nat

VARIABLES
    power,      \* "on", "asleep" (P1.7, scratch registers alive), "off"
    pc,         \* where the supervisor is
    cfg,        \* the configuration, written by the BLE handlers
    live,       \* the supervisor's snapshot of it
    dirty,      \* g_config_dirty
    saved,      \* the record in flash
    ready, open, joined,         \* s_ready, s_tx/s_rx, s_joined
    attempted, age,              \* s_attempted, now - s_last_attempt_ms
    bootSent, coordsSent, ack,   \* s_boot_sent, s_coords_sent/lat/lon, s_ack_pending
    tlv,                         \* s_cfg_tlv, NoCoords when empty
    stash,      \* scratch[4]: lora_last_attempt_s as an age, -1 for 0
    sinceTry,   \* history: seconds since the last cycle attempt, AgeMax if none
    slept,      \* history: deep sleeps since that attempt
    boots,      \* history: BOOT frames handed over in this power cycle
    told,       \* history: coordinates last handed over in this power cycle
    owed,       \* history: a patch was applied and no CFG_ACK handed over since
    lapses,     \* history: wakes of this power cycle that found LoRa off
    edits, patches, cuts, sleeps \* bounds

radio == <<ready, open, joined>>
sendOnce == <<bootSent, coordsSent, ack>>
store == <<cfg, live, dirty, saved>>
frames == <<boots, told, owed>>
timing == <<attempted, age, sinceTry, slept>>
others == <<lapses, edits, cuts, sleeps>>
bounds == <<patches, others>>
vars == <<power, pc, cfg, live, dirty, saved, ready, open, joined, attempted,
          age, bootSent, coordsSent, ack, tlv, stash, sinceTry, slept, boots,
          told, owed, lapses, edits, patches, cuts, sleeps>>

\* The write handler lets LoRa be enabled on a checked pair of pins only, and
\* takes any pins while it is disabled; coordinates may be set and cleared.
Configs ==
    {c \in [enabled: BOOLEAN, pins: Pins \cup {NoPins}, coords: Coords \cup {NoCoords}]:
        c.enabled => c.pins # NoPins}

Later(a, d) == IF a + d > AgeMax THEN AgeMax ELSE a + d

-----------------------------------------------------------------------------
(* Sessions on the UART.                                                   *)

NeedsOpen(c) == ~ready \/ open # c.pins

\* lora_open without a module, or without pins, leaves s_ready cleared; the
\* pins are recorded whenever there are any.
OpenFails(c) ==
    /\ ready' = FALSE
    /\ open' = IF c.pins = NoPins THEN open ELSE c.pins

SilentModule(c) == NeedsOpen(c) /\ OpenFails(c) /\ UNCHANGED joined

InSession(c) == c.pins # NoPins /\ ready' = TRUE /\ open' = c.pins

JoinFails(c) ==
    /\ NeedsOpen(c) \/ ~joined
    /\ InSession(c)
    /\ joined' = FALSE

-----------------------------------------------------------------------------
(* One uplink.  cyc tells a cycle's uplink from the app's ping (cfg NULL). *)

\* Mutant: coordinates go out once, whatever they change to.
CoordsUnsent(c) == c.coords # NoCoords /\ coordsSent = NoCoords

CoordsDirty(c) == c.coords # NoCoords /\ coordsSent # c.coords

Frame(c, cyc) ==
    IF cyc /\ ~bootSent THEN "boot"
    ELSE IF ack THEN "ack"
    ELSE IF cyc /\ CoordsDirty(c) THEN "coords"
    ELSE "data"

\* AT_FAIL forgets the session, AT_TIMEOUT keeps it: nothing is settled.
NoUplink == UNCHANGED <<sendOnce, tlv, frames, patches>>
Rejected == joined' = FALSE /\ NoUplink
TimedOut == joined' = TRUE /\ NoUplink

\* "Done": the frame is settled, and a CONFIG in its RX window is stashed
\* over whatever the mailbox held.
Delivered(c, cyc) ==
    LET f == Frame(c, cyc)
    IN  /\ joined' = TRUE
        /\ bootSent' = (bootSent \/ f = "boot")
        /\ ack' = (ack /\ f # "ack")
        /\ coordsSent' = IF f = "coords" THEN c.coords ELSE coordsSent
        /\ \/ UNCHANGED <<tlv, patches>>
           \/ patches < Patches /\ patches' = patches + 1 /\ tlv' \in Coords
        /\ boots' = boots + IF f = "boot" THEN 1 ELSE 0
        /\ told' = IF f = "coords" THEN c.coords ELSE told
        /\ owed' = (owed /\ f # "ack")

DoUplink(c, cyc) ==
    /\ InSession(c)
    /\ Rejected \/ TimedOut \/ Delivered(c, cyc)

Talk(c, cyc) ==
    \/ (SilentModule(c) \/ JoinFails(c)) /\ NoUplink
    \/ DoUplink(c, cyc)

-----------------------------------------------------------------------------
(* lora_cycle.                                                             *)

Due == ~attempted \/ age >= Period

\* The attempt counts whatever comes of it.
Attempt == attempted' = TRUE /\ age' = 0 /\ sinceTry' = 0 /\ slept' = 0

LoraCycle(c) ==
    \/ c.enabled /\ Due /\ Attempt /\ Talk(c, TRUE)
    \/ ~(c.enabled /\ Due) /\ UNCHANGED <<timing, radio>> /\ NoUplink

SecsUntilDue ==
    IF ~ready \/ ~attempted \/ age >= Period THEN 0 ELSE Period - age

-----------------------------------------------------------------------------
(* Power up.                                                               *)

Init ==
    /\ power = "off" /\ pc = "boot"
    /\ saved \in Configs
    /\ cfg = saved /\ live = saved /\ dirty = FALSE
    /\ ready = FALSE /\ open = NoPins /\ joined = FALSE
    /\ attempted = FALSE /\ age = 0
    /\ bootSent = FALSE /\ coordsSent = NoCoords /\ ack = FALSE /\ tlv = NoCoords
    /\ stash = -1
    /\ sinceTry = AgeMax /\ slept = 0
    /\ boots = 0 /\ told = NoCoords /\ owed = FALSE
    /\ lapses = 0
    /\ edits = 0 /\ patches = 0 /\ cuts = 0 /\ sleeps = 0

\* lora_init on statics that a reset has cleared.
LoraInit(c) ==
    \/ ~c.enabled /\ UNCHANGED radio
    \/ c.enabled /\ (SilentModule(c) \/ JoinFails(c))
    \/ c.enabled /\ InSession(c) /\ joined' = TRUE

ColdBoot ==
    /\ power = "off"
    /\ power' = "on" /\ pc' = "boot"
    /\ LoraInit(saved)
    /\ UNCHANGED <<store, timing, sendOnce, tlv, stash, frames, bounds>>

\* Mutants: the gate is not restored; the BOOT frame is left to be sent again.
RestoreNoGate(c, slip) ==
    /\ bootSent' = TRUE /\ coordsSent' = c.coords
    /\ UNCHANGED <<attempted, age, sinceTry>>
RestoreNoBoot(c, slip) ==
    /\ UNCHANGED bootSent /\ coordsSent' = c.coords
    /\ attempted' = TRUE /\ age' = Later(stash, 0) /\ UNCHANGED sinceTry

\* lora_restore_cycle_state: the send-once state is taken for settled and the
\* gate is counted from the attempt before the sleep.
Restore(c, slip) ==
    /\ bootSent' = TRUE
    /\ coordsSent' = IF c.coords # NoCoords THEN c.coords ELSE coordsSent
    /\ IF stash >= 0 /\ stash + slip >= 0
         THEN /\ attempted' = TRUE /\ age' = Later(stash, slip)
              /\ UNCHANGED sinceTry
         ELSE UNCHANGED <<attempted, age>> /\ sinceTry' = AgeMax

\* The wake of a deep sleep: the same boot, then the restore.  stash holds
\* the age that the attempt has reached by now.
Wake ==
    /\ power = "asleep"
    /\ power' = "on" /\ pc' = "boot"
    /\ LoraInit(saved)
    /\ \/ saved.enabled /\ (\E slip \in Slips: Restore(saved, slip)) /\ UNCHANGED lapses
       \/ /\ ~saved.enabled
          /\ sinceTry' = AgeMax /\ lapses' = lapses + 1
          /\ UNCHANGED <<bootSent, coordsSent, attempted, age>>
    /\ stash' = -1
    /\ UNCHANGED <<store, slept, ack, tlv, frames, patches, edits, cuts, sleeps>>

\* main.c runs one cycle right after bring-up.
BootCycle ==
    /\ power = "on" /\ pc = "boot"
    /\ LoraCycle(cfg)
    /\ pc' = "cycle"
    /\ UNCHANGED <<power, store, stash, others>>

-----------------------------------------------------------------------------
(* One iteration of the loop.                                              *)

\* The snapshot and the cycle; a write that lands between the two is seen by
\* the next iteration, as one that lands after both.
Cycle ==
    /\ power = "on" /\ pc = "cycle"
    /\ live' = cfg
    /\ LoraCycle(cfg)
    /\ pc' = "take"
    /\ UNCHANGED <<power, cfg, dirty, saved, stash, others>>

\* config_store_save returns nothing: a refused save is only logged.
Save(c) == saved' = c \/ UNCHANGED saved

\* Mutant: the confirmation is not queued.
TakePatchSilently ==
    /\ live.enabled /\ tlv # NoCoords
    /\ cfg' = [cfg EXCEPT !.coords = tlv]
    /\ live' = cfg'
    /\ Save(cfg')
    /\ tlv' = NoCoords /\ UNCHANGED ack /\ owed' = TRUE

TakePatch ==
    /\ live.enabled /\ tlv # NoCoords
    /\ cfg' = [cfg EXCEPT !.coords = tlv]
    /\ live' = cfg'
    /\ Save(cfg')
    /\ tlv' = NoCoords /\ ack' = TRUE /\ owed' = TRUE

Take ==
    /\ power = "on" /\ pc = "take"
    /\ \/ TakePatch
       \/ ~(live.enabled /\ tlv # NoCoords) /\ UNCHANGED <<cfg, live, saved, tlv, ack, owed>>
    /\ pc' = "persist"
    /\ UNCHANGED <<power, dirty, radio, timing, bootSent, coordsSent, stash,
                   boots, told, bounds>>

\* g_config_dirty is taken before the save, which may be refused.
Persist ==
    /\ power = "on" /\ pc = "persist"
    /\ IF dirty THEN live' = cfg /\ Save(cfg) ELSE UNCHANGED <<live, saved>>
    /\ dirty' = FALSE
    /\ pc' = "nap"
    /\ UNCHANGED <<power, cfg, radio, timing, sendOnce, tlv, stash, frames, bounds>>

\* Mutant: the nap is not cut to the radio's cadence.
NapAsPlanned(n) == n
NapFor(n) ==
    IF ~live.enabled THEN n
    ELSE LET due == IF SecsUntilDue = 0 THEN 1 ELSE SecsUntilDue
         IN  Min({n, due})

\* A reset clears every static; the configuration is what flash holds.
RamLost ==
    /\ cfg' = saved /\ live' = saved /\ dirty' = FALSE
    /\ ready' = FALSE /\ open' = NoPins /\ joined' = FALSE
    /\ attempted' = FALSE /\ age' = 0
    /\ bootSent' = FALSE /\ coordsSent' = NoCoords /\ ack' = FALSE /\ tlv' = NoCoords

\* A nap with the chip on: to its end, or cut short by the app or the button.
LightNap ==
    /\ power = "on" /\ pc = "nap"
    /\ \E n \in Naps, w \in Works: \E d \in 0..NapFor(n):
         /\ age' = Later(age, w + d)
         /\ sinceTry' = Later(sinceTry, w + d)
    /\ pc' = "service"
    /\ UNCHANGED <<power, store, radio, attempted, slept, sendOnce, tlv, stash,
                   frames, bounds>>

\* power_deep_sleep_off: the RAM is gone, the stash is what the attempt's age
\* will be at the wake (earlier than planned if the button is pressed).
DeepSleep ==
    /\ power = "on" /\ pc = "nap" /\ DeepSleepEnabled /\ ~dirty
    /\ sleeps < Sleeps /\ sleeps' = sleeps + 1
    /\ \E n \in Naps, w \in Works:
         /\ NapFor(n) >= MinNap
         /\ \E d \in 0..NapFor(n):
              /\ stash' = IF attempted THEN Later(age, w + d) ELSE -1
              /\ sinceTry' = Later(sinceTry, w + d)
    /\ power' = "asleep" /\ pc' = "boot"
    /\ slept' = slept + 1
    /\ RamLost
    /\ UNCHANGED <<saved, frames, lapses, edits, patches, cuts>>

Idle ==
    /\ power = "on" /\ pc = "service"
    /\ pc' = "cycle"
    /\ UNCHANGED <<power, store, radio, timing, sendOnce, tlv, stash, frames, bounds>>

\* The app's ping: on the snapshot's pins, without the gate and whether or
\* not LoRa is enabled.
Ping ==
    /\ power = "on" /\ pc = "service"
    /\ Talk(live, FALSE)
    /\ pc' = "cycle"
    /\ UNCHANGED <<power, store, timing, stash, others>>

\* A raw AT command of the app's terminal reopens the module when it must,
\* and leaves s_joined alone.
At ==
    /\ power = "on" /\ pc = "service"
    /\ OpenFails(live) \/ InSession(live)
    /\ NeedsOpen(live)
    /\ pc' = "cycle"
    /\ UNCHANGED <<power, store, joined, timing, sendOnce, tlv, stash, frames, bounds>>

-----------------------------------------------------------------------------
(* The app and the power supply.                                           *)

\* A configuration write may come between any two steps of the supervisor.
ConfigWrite ==
    /\ power = "on" /\ edits < Edits /\ edits' = edits + 1
    /\ cfg' \in Configs
    /\ dirty' = TRUE
    /\ UNCHANGED <<power, pc, live, saved, radio, timing, sendOnce, tlv, stash,
                   frames, lapses, patches, cuts, sleeps>>

PowerCut ==
    /\ power # "off" /\ cuts < Cuts /\ cuts' = cuts + 1
    /\ power' = "off" /\ pc' = "boot"
    /\ RamLost
    /\ stash' = -1
    /\ sinceTry' = AgeMax /\ slept' = 0
    /\ boots' = 0 /\ told' = NoCoords /\ owed' = FALSE /\ lapses' = 0
    /\ UNCHANGED <<saved, edits, patches, sleeps>>

Supervisor == BootCycle \/ Cycle \/ Take \/ Persist \/ LightNap \/ DeepSleep
                \/ Idle \/ Ping \/ At

Next == Supervisor \/ ColdBoot \/ Wake \/ ConfigWrite \/ PowerCut

Spec == Init /\ [][Next]_vars

\* The loop never stops, and a radio that is tried for ever gets a frame out
\* of a cycle sooner or later.
GoesOut == cfg.enabled /\ Due /\ Cycle /\ Delivered(cfg, TRUE)
FairSpec == Spec /\ WF_vars(Supervisor) /\ WF_vars(ColdBoot) /\ SF_vars(GoesOut)

-----------------------------------------------------------------------------
(* Properties.                                                             *)

PlaceTyped ==
    /\ power \in {"on", "asleep", "off"}
    /\ pc \in {"boot", "cycle", "take", "persist", "nap", "service"}

StoreTyped == cfg \in Configs /\ live \in Configs /\ saved \in Configs /\ dirty \in BOOLEAN

RadioTyped == ready \in BOOLEAN /\ joined \in BOOLEAN /\ open \in Pins \cup {NoPins}

TimesTyped ==
    /\ attempted \in BOOLEAN /\ age \in 0..AgeMax /\ sinceTry \in 0..AgeMax
    /\ stash \in -1..AgeMax /\ slept \in Nat

SettledTyped ==
    /\ bootSent \in BOOLEAN /\ ack \in BOOLEAN /\ owed \in BOOLEAN
    /\ coordsSent \in Coords \cup {NoCoords} /\ tlv \in Coords \cup {NoCoords}
    /\ told \in Coords \cup {NoCoords}
    /\ boots \in Nat /\ patches \in 0..Patches

CountsTyped == lapses \in Nat /\ edits \in 0..Edits /\ cuts \in 0..Cuts /\ sleeps \in 0..Sleeps

\* The variables keep their types.
TypeOK == PlaceTyped /\ StoreTyped /\ RadioTyped /\ TimesTyped /\ SettledTyped /\ CountsTyped

\* The network is not tried more often than once per period, however the
\* naps, the deep sleeps and the app's pings fall (lora.h: "Rate-limited to
\* one attempt per cfg->lora_period_s"); each deep sleep may cost its slip.
\* (A wake that finds LoRa off, or the clock set back before the attempt,
\* restores no gate: sinceTry says that no attempt is known.)
NotTooOften ==
    power = "on" /\ pc \in {"boot", "cycle"} /\ cfg.enabled /\ Due
        => sinceTry + slept * MaxSlip >= Period

\* A nap begun before the next attempt is due does not sleep past it by more
\* than an iteration's work (main.c: "also wake for the LoRa cadence").
NapKeepsTheCadence ==
    [][(LightNap \/ DeepSleep) /\ live.enabled /\ sinceTry < Period
          => sinceTry' <= Period + MaxWork + slept * MaxSlip]_vars

\* lora_wioe5.c: the BOOT frame goes out at most once per power cycle, deep
\* sleeps included ("A second BOOT would cost airtime and a needless
\* downlink"), but for the wakes that found LoRa off: each may cost one more.
BootOnce == boots <= 1 + lapses

\* What the two rest on.  What an attempt's age is taken for is as close to
\* the truth as the slips of n deep sleeps allow; without an attempt there is
\* none to keep a distance from.
Close(a, n) == a <= sinceTry + n * MaxSlip /\ sinceTry <= a + n * MaxSlip

GateIsHonest ==
    /\ power = "on" => IF attempted THEN Close(age, slept) ELSE sinceTry = AgeMax
    /\ power = "asleep" =>
         slept > 0 /\ IF stash >= 0 THEN Close(stash, slept - 1) ELSE sinceTry = AgeMax
    /\ power = "off" => sinceTry = AgeMax

UnpoweredIsBlank == power # "on" => ~attempted /\ ~bootSent

\* A BOOT frame marks itself sent, and a sleep costs the mark.
BootsAreMarked ==
    /\ power = "off" => boots = 0
    /\ power = "on" /\ ~bootSent => boots <= lapses

\* The inductive invariant of LoraNode_proofs.
IInv == TypeOK /\ GateIsHonest /\ UnpoweredIsBlank /\ BootsAreMarked /\ BootOnce

Reachable == power = "on" /\ cfg.enabled /\ sleeps = 0

\* Until the first deep sleep, the confirmation of a CONFIG patch the station
\* has applied is in the end handed over (main.c queues it after the patch).
OwedAckGoesOut == (owed /\ Reachable) ~> (~owed \/ ~Reachable)

\* Until the first deep sleep, coordinates the backend has not been given in
\* this power cycle are in the end handed over ("re-sent when they change").
Untold == cfg.coords # NoCoords /\ told # cfg.coords
CoordsGoOut == (Untold /\ Reachable) ~> (~Untold \/ ~Reachable)

\* Violated.  lora_wioe5.c on the restore: "A second BOOT would cost airtime and
\* a needless downlink": there is none, whatever the app switches between sleeps.
OneBootPerPowerCycle == boots <= 1

\* Violated.  lora.h: "Queue a CFG_ACK uplink (applied/rejected counts) for
\* the next cycle": while the confirmation is owed it is queued.
OwedAckIsQueued == power = "on" /\ owed => ack

\* Violated.  lora_wioe5.c on the restore: "the backend already has the
\* clock request and the coords": what is marked sent was handed over.
MarkedMeansSent ==
    power = "on" => /\ bootSent => boots = 1
                    /\ coordsSent # NoCoords => told = coordsSent

\* Violated.  lora_wioe5.c: "cfg==NULL (the app's ping) always sends the
\* plain forecast", so a ping leaves the queued confirmation alone.
PingIsPlain == [][Ping => ack' = ack]_vars

\* Violated.  lora.h: "Seconds until the next periodic cycle is due (0 = due
\* now)": the figure the nap is cut to is the gate's.
DueNowMeansDue ==
    power = "on" /\ pc = "nap" /\ live.enabled /\ SecsUntilDue = 0 => Due
=============================================================================
