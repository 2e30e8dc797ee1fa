------------------------------- MODULE Station -------------------------------
(***************************************************************************)
(* The life of a reading's time stamp (src/src/main.c, with the ring of    *)
(* src/src/storage/storage_flash.c and the replay of                       *)
(* src/src/system/mock_soil.c).  Before the clock is known a reading is    *)
(* stamped with the uptime; the first iteration that finds the clock set   *)
(* rebases what is in the ring.  With mock on, a replay stands in for the  *)
(* probes: it tops up a window of hours around the present one, from the   *)
(* supervisor and, as soon as the phone brings the time, from the BLE      *)
(* context, which runs between any two steps of the supervisor that does   *)
(* not hold the lock.  The clock, once set, is exact here: Clock says how  *)
(* far off it can be.  A save of the ring is one step here and may be      *)
(* refused: ImageStore says what a power cut does to it.  The app may      *)
(* clear the stored readings; its points for given times are not modelled. *)
(*                                                                         *)
(* Times are in hours since a little before the first boot.  A stamp under *)
(* ProvMax is an uptime and ProvMax + t is the wall time of hour t.        *)
(***************************************************************************)
EXTENDS Integers, SequencesExt

CONSTANTS
  Cap,     \* readings the ring holds
  Past,    \* MOCK_SOIL_PAST_H
  Ahead,   \* MOCK_SOIL_AHEAD_H
  ProvMax, \* SAVIA_TS_PROVISIONAL_MAX
  MaxNow, MaxBoots

ASSUME StationConstants ==
  /\ Cap \in Nat \ {0} /\ Past \in Nat \ {0} /\ Ahead \in Nat
  /\ MaxNow \in Nat /\ Past <= MaxNow /\ MaxBoots \in Nat
  /\ ProvMax \in Nat /\ MaxNow < ProvMax

VARIABLES
  now,        \* the hour
  born,       \* when this boot happened: the uptime is now - born
  boots,
  isSet,      \* clock_is_set
  pc, resumed,
  timed, nowMs, topAt, \* of the iteration: its clock, its stamp and (ghost) its hour
  wasTimed,
  ring, dirty, \* readings, oldest first, and s_dirty
  image,      \* the ring as flash has it
  cfgMock, cfgDirty, savedMock,
  live,       \* mock_enabled of the iteration's snapshot of the configuration
  mockActive,
  locked,     \* the supervisor holds the lock, inside mock_soil_fill
  have,       \* hours its scan has found filled
  infer,      \* an inference asked for by the app
  strayed     \* history: since the ring was last emptied, a time sync filled it
              \* with the replay although the loop still measured

time  == <<now, born, boots>>
iter  == <<timed, nowMs, topAt, wasTimed, resumed, live, mockActive>>
store == <<ring, dirty, strayed>>
cfg   == <<cfgMock, cfgDirty, savedMock>>
fill  == <<locked, have>>
vars == <<time, isSet, pc, iter, store, image, cfg, fill, infer>>

-----------------------------------------------------------------------------
Up   == now - born
Wall == ProvMax + now
Stamp == IF isSet THEN Wall ELSE Up
Provisional(r) == r.ts < ProvMax

\* at is the hour the reading was asked for and own says that this boot took
\* it: neither is stored.
Reading(ts, at, src) == [ts |-> ts, at |-> at, src |-> src, own |-> TRUE]

AppendReading(s, r) == LET t == Append(s, r) IN IF Len(t) > Cap THEN Tail(t) ELSE t

\* Mutant: the offset is taken for the wall time.
RebaseByWall(s) == [i \in DOMAIN s |-> IF Provisional(s[i]) THEN [s[i] EXCEPT !.ts = @ + Wall] ELSE s[i]]

\* storage_rebase_provisional(clock_now(up) - up)
Rebase(s) == [i \in DOMAIN s |-> IF Provisional(s[i])
                                 THEN [s[i] EXCEPT !.ts = @ + (Wall - Up)]
                                 ELSE s[i]]

\* mock_soil_fill: its scan for hours of the window that hold a reading ...
Window == (now - Past + 1)..(now + Ahead)
Filled == {h \in Window : \E i \in DOMAIN ring : ring[i].ts = ProvMax + h}

\* ... and the appends of those that do not, oldest first.
FillHour(s, h, filled) ==
  IF h \in filled THEN s ELSE AppendReading(s, Reading(ProvMax + h, h, "replay"))

Fill(s, filled) ==
  LET upTo[k \in 0..(Past + Ahead)] ==
        IF k = 0 THEN s ELSE FillHour(upTo[k - 1], now - Past + k, filled)
  IN upTo[Past + Ahead]

Store(s) == ring' = s /\ dirty' = (dirty \/ s # ring) /\ UNCHANGED strayed

\* storage_clear
EmptyRing == ring' = <<>> /\ dirty' = TRUE /\ strayed' = FALSE

-----------------------------------------------------------------------------
Init ==
  /\ now = Past /\ born = Past /\ boots = 0 /\ isSet = FALSE
  /\ pc = "load" /\ resumed = FALSE
  /\ timed = FALSE /\ nowMs = 0 /\ topAt = 0 /\ wasTimed = FALSE
  /\ ring = <<>> /\ dirty = FALSE /\ strayed = FALSE /\ image = <<>>
  /\ cfgMock = FALSE /\ cfgDirty = FALSE /\ savedMock = FALSE
  /\ live = FALSE /\ mockActive = FALSE /\ locked = FALSE /\ have = {} /\ infer = FALSE

\* A downlink may carry the time.
Downlink == isSet' \in {isSet, TRUE}

\* storage_init, storage_store_load, the mode and the first LoRa cycle.
Load ==
  /\ pc = "load" /\ pc' = "window" /\ Downlink
  /\ ring' = [i \in DOMAIN image |-> [image[i] EXCEPT !.own = FALSE]]
  /\ dirty' = FALSE
  /\ mockActive' = cfgMock
  /\ UNCHANGED <<time, resumed, timed, nowMs, topAt, wasTimed, live, strayed, image, cfg, fill, infer>>

SaveConfig ==
  /\ savedMock' = IF cfgDirty THEN cfgMock ELSE savedMock
  /\ cfgDirty' = FALSE
  /\ UNCHANGED cfgMock

\* The service window of a boot, which after a press of the button saves the
\* configuration, and the end of the boot.
StartLoop ==
  /\ pc = "window" /\ pc' = "top"
  /\ (resumed /\ SaveConfig) \/ UNCHANGED cfg
  /\ wasTimed' = isSet
  /\ UNCHANGED <<time, isSet, resumed, timed, nowMs, topAt, live, mockActive, store, image, fill, infer>>

\* The top of the loop, in four steps between which the BLE context may run: the
\* time of the iteration, ...
Top ==
  /\ pc = "top" /\ pc' = "rebase"
  /\ timed' = isSet /\ nowMs' = Stamp /\ topAt' = now
  /\ UNCHANGED <<time, isSet, wasTimed, resumed, live, mockActive, store, image, cfg, fill, infer>>

\* ... the rebase by the first one that has found the clock set, ...
BackFill ==
  /\ pc = "rebase" /\ pc' = "snapshot"
  /\ Store(IF timed /\ ~wasTimed THEN Rebase(ring) ELSE ring)
  /\ wasTimed' = (wasTimed \/ timed)
  /\ UNCHANGED <<time, isSet, timed, nowMs, topAt, resumed, live, mockActive, image, cfg, fill, infer>>

\* ... the snapshot of the configuration, ...
Snapshot ==
  /\ pc = "snapshot" /\ pc' = "notice" /\ live' = cfgMock
  /\ UNCHANGED <<time, isSet, timed, nowMs, topAt, wasTimed, resumed, mockActive, store, image, cfg,
                 fill, infer>>

\* Mutant: the ring is cleared when mock is switched on only.
NoticeMockOn ==
  /\ pc = "notice" /\ pc' = "acquire" /\ mockActive' = live
  /\ IF live /\ ~mockActive THEN EmptyRing ELSE UNCHANGED store
  /\ UNCHANGED <<time, isSet, timed, nowMs, topAt, wasTimed, resumed, live, image, cfg, fill, infer>>

\* ... and the change of mode, which empties the ring either way.
NoticeMock ==
  /\ pc = "notice" /\ pc' = "acquire" /\ mockActive' = live
  /\ IF live # mockActive THEN EmptyRing ELSE UNCHANGED store
  /\ UNCHANGED <<time, isSet, timed, nowMs, topAt, wasTimed, resumed, live, image, cfg, fill, infer>>

\* capture_slots with what is due: before the clock is known, everything.
Capture ==
  /\ pc = "acquire" /\ ~mockActive /\ pc' = "lora"
  /\ \/ Store(AppendReading(ring, Reading(nowMs, topAt, "probe")))
     \/ timed /\ UNCHANGED store
  /\ UNCHANGED <<time, isSet, iter, image, cfg, fill, infer>>

\* lora_cycle; with a patch of the network the whole configuration is saved.
\* Under mock a downlink may have made a top-up possible.
Lora ==
  /\ pc = "lora" /\ Downlink
  /\ savedMock' \in {savedMock, cfgMock}
  /\ pc' = IF mockActive /\ ~timed THEN "again" ELSE "poll"
  /\ UNCHANGED <<time, iter, store, image, cfgMock, cfgDirty, fill, infer>>

\* After ble_poll: the configuration, then the measurements, are saved.
Poll ==
  /\ pc = "poll" /\ pc' = "persist" /\ SaveConfig
  /\ UNCHANGED <<time, isSet, iter, store, image, fill, infer>>

Persist ==
  /\ pc = "persist" /\ pc' = "nap" /\ dirty' = FALSE
  /\ image' \in IF dirty THEN {ring, image} ELSE {image}
  /\ UNCHANGED <<time, isSet, iter, ring, strayed, cfg, fill, infer>>

\* A light nap, ended by the button or not.
Nap ==
  /\ pc = "nap" /\ pc' = "serve"
  /\ SaveConfig \/ UNCHANGED cfg
  /\ UNCHANGED <<time, isSet, iter, store, image, fill, infer>>

\* The inference the app asked for is dropped by a station in forward mode;
\* otherwise it samples first, with the time of now.
Serve ==
  /\ pc = "serve" /\ ~locked /\ pc' = "ping" /\ infer' = FALSE
  /\ \/ infer /\ ~mockActive /\ Store(AppendReading(ring, Reading(Stamp, now, "probe")))
     \/ UNCHANGED store
  /\ UNCHANGED <<time, isSet, iter, image, cfg, fill>>

\* Mutant: the clock's state is remembered at the end of the iteration.
PingRemembersClock ==
  /\ pc = "ping" /\ pc' = "top" /\ Downlink /\ wasTimed' = isSet'
  /\ savedMock' \in {savedMock, cfgMock}
  /\ UNCHANGED <<time, timed, nowMs, topAt, resumed, live, mockActive, store, image, cfgMock, cfgDirty,
                 fill, infer>>

\* The rest of the iteration: a ping saves the signal, and with it the whole
\* configuration.
Ping ==
  /\ pc = "ping" /\ pc' = "top" /\ Downlink
  /\ savedMock' \in {savedMock, cfgMock}
  /\ UNCHANGED <<time, iter, store, image, cfgMock, cfgDirty, fill, infer>>

\* mock_top_up, at each of its callers: it does nothing without a clock, else
\* takes the lock and scans ...
After == [acquire |-> "lora", again |-> "poll", serve |-> "ping"]

TopUp ==
  /\ pc \in DOMAIN After /\ mockActive /\ ~locked
  /\ pc = "serve" => infer
  /\ infer' = (infer /\ pc # "serve")
  /\ IF isSet THEN locked' = TRUE /\ have' = Filled /\ UNCHANGED pc
     ELSE pc' = After[pc] /\ UNCHANGED fill
  /\ UNCHANGED <<time, isSet, iter, store, image, cfg>>

\* ... and appends.
TopUpAppends ==
  /\ locked /\ locked' = FALSE /\ have' = {}
  /\ Store(Fill(ring, have)) /\ pc' = After[pc]
  /\ UNCHANGED <<time, isSet, iter, image, cfg, infer>>

-----------------------------------------------------------------------------
\* Mutant: the top-up takes no lock.
BleAlwaysRuns == pc # "load"

\* The BLE context runs once the boot has started it, while the lock is free.
BleRuns == pc # "load" /\ ~locked

\* A time sync; under mock it tops the window up at once.
TimeSync ==
  /\ BleRuns /\ isSet' = TRUE
  /\ LET s == IF cfgMock THEN Fill(ring, Filled) ELSE ring
     IN ring' = s /\ dirty' = (dirty \/ s # ring)
  /\ strayed' = (strayed \/ (cfgMock /\ ~mockActive))
  /\ UNCHANGED <<time, pc, iter, image, cfg, fill, infer>>

SwitchMock ==
  /\ BleRuns /\ cfgMock' = ~cfgMock /\ cfgDirty' = TRUE
  /\ UNCHANGED <<time, isSet, pc, iter, store, image, savedMock, fill, infer>>

AskInference ==
  /\ BleRuns /\ infer' = TRUE
  /\ UNCHANGED <<time, isSet, pc, iter, store, image, cfg, fill>>

\* "clear": all stored readings.
Clear ==
  /\ BleRuns /\ EmptyRing
  /\ UNCHANGED <<time, isSet, pc, iter, image, cfg, fill, infer>>

-----------------------------------------------------------------------------
\* What is left after a reset: the flash and, of the clock, what the always-on
\* timer carries.
Reset(at, carried) ==
  /\ boots < MaxBoots /\ boots' = boots + 1
  /\ at <= MaxNow /\ now' = at /\ born' = at
  /\ isSet' = carried /\ resumed' = carried
  /\ pc' = "load" /\ ring' = <<>> /\ dirty' = FALSE /\ strayed' = FALSE
  /\ cfgMock' = savedMock /\ cfgDirty' = FALSE
  /\ timed' = FALSE /\ nowMs' = 0 /\ topAt' = 0 /\ wasTimed' = FALSE
  /\ live' = FALSE /\ mockActive' = FALSE /\ locked' = FALSE /\ have' = {} /\ infer' = FALSE
  /\ UNCHANGED <<savedMock, image>>

\* With the clock known and nothing pending from the app; the timer's value may
\* be implausible at the wake.
DeepSleep ==
  /\ pc = "nap" /\ isSet /\ ~infer /\ ~cfgDirty
  /\ \E carried \in BOOLEAN : Reset(now + 1, carried)

PowerCut == \E gap \in 0..1 : Reset(now + gap, FALSE)

\* Time passes between any two steps but those of a top-up, which takes none.
Tick ==
  /\ now < MaxNow /\ ~locked /\ now' = now + 1
  /\ UNCHANGED <<born, boots, isSet, pc, iter, store, image, cfg, fill, infer>>

Loop == \/ Load \/ StartLoop \/ Top \/ BackFill \/ Snapshot \/ NoticeMock \/ Capture \/ TopUp
        \/ TopUpAppends \/ Lora \/ Poll \/ Persist \/ Nap \/ Serve \/ Ping
Ble == TimeSync \/ SwitchMock \/ AskInference \/ Clear

Next == Loop \/ Ble \/ DeepSleep \/ PowerCut \/ Tick

Spec == Init /\ [][Next]_vars

-----------------------------------------------------------------------------
Readings == [ts : Nat, at : Nat, src : {"probe", "replay"}, own : BOOLEAN]

RingTyped ==
  /\ ring \in Seq(Readings) /\ Len(ring) <= Cap
  /\ image \in Seq(Readings) /\ Len(image) <= Cap

TimesTyped ==
  /\ now \in Past..MaxNow /\ born \in Past..now /\ boots \in 0..MaxBoots
  /\ topAt \in Nat /\ nowMs \in Nat

FlagsTyped ==
  /\ isSet \in BOOLEAN /\ resumed \in BOOLEAN /\ timed \in BOOLEAN /\ wasTimed \in BOOLEAN
  /\ cfgMock \in BOOLEAN /\ cfgDirty \in BOOLEAN /\ savedMock \in BOOLEAN
  /\ live \in BOOLEAN /\ mockActive \in BOOLEAN /\ strayed \in BOOLEAN
  /\ dirty \in BOOLEAN /\ locked \in BOOLEAN /\ infer \in BOOLEAN

TypeOK == RingTyped /\ TimesTyped /\ FlagsTyped

\* The hour a stamp of this boot stands for.
Meant(r) == IF r.ts < ProvMax THEN born + r.ts ELSE r.ts - ProvMax

\* Whenever the clock gets set, by a downlink or by the phone, before, during
\* or after a capture, a reading of this boot keeps standing for the hour it was
\* taken in (src/include/savia/storage.h:65).
OwnStampsAreTrue ==
  \A i \in DOMAIN ring : ring[i].own => Meant(ring[i]) = ring[i].at

\* Once an iteration that has begun with the clock set is past its rebase, no
\* reading taken by this boot is left with an uptime for a stamp (src/src/main.c:304).
CaughtUp ==
  timed /\ pc # "rebase" => \A i \in DOMAIN ring : ring[i].own => ring[i].ts >= ProvMax

\* The supervisor's top-up and the one of a time sync never put the same hour
\* of the replay in twice (src/include/savia/mock_soil.h:21).
NoTwins ==
  \A i, j \in DOMAIN ring :
    /\ i # j /\ ring[i].own /\ ring[j].own
    /\ ring[i].src = "replay" /\ ring[j].src = "replay"
    => ring[i].ts # ring[j].ts

\* Whenever and however often the app switches mock, what this boot has put into
\* the ring is of the mode the loop works in (src/src/main.c:333), unless a time sync
\* of the phone filled in the replay before the loop had noticed that it was on.
KindsKeptApart ==
  ~strayed =>
    \A i \in DOMAIN ring :
      ring[i].own => ring[i].src = IF mockActive THEN "replay" ELSE "probe"

(* Why they hold: IInv is what every step keeps.                             *)

\* The stamp an iteration hands to its captures is the one of its hour.
StampIsOfItsHour ==
  pc \in {"rebase", "snapshot", "notice", "acquire"} =>
    /\ topAt \in born..now
    /\ nowMs = IF timed THEN ProvMax + topAt ELSE topAt - born
    /\ wasTimed => timed

\* The loop notices the clock only when it is set, and remembers it.
ClockNoticed ==
  /\ timed /\ pc # "rebase" => wasTimed
  /\ timed \/ wasTimed => isSet
  /\ pc = "load" => ~wasTimed /\ ring = <<>>

\* Nothing is left with an uptime of this boot once the loop has noticed, and
\* nothing has got one before the loop begins.
RebasedOnce ==
  wasTimed \/ pc \in {"load", "window"} =>
    \A i \in DOMAIN ring : ring[i].own => ring[i].ts >= ProvMax

\* A replayed reading has the wall time of its hour.
ReplayIsStamped ==
  \A i \in DOMAIN ring : ring[i].own /\ ring[i].src = "replay" => ring[i].ts >= ProvMax

\* Under the lock what the scan has found is what there is.
ScanIsFresh == locked => mockActive /\ pc \in DOMAIN After /\ have = Filled

IInv == /\ TypeOK /\ StampIsOfItsHour /\ ClockNoticed /\ ScanIsFresh
        /\ RebasedOnce /\ ReplayIsStamped /\ KindsKeptApart /\ OwnStampsAreTrue /\ NoTwins

\* Violated.  src/src/main.c:333 "so replayed and measured soil never share a window":
\* from a switch and a time sync that fills in the replay to the next top of the
\* loop they do, and an inference of that iteration reads both.
NeverMixed ==
  \A i, j \in DOMAIN ring : ring[i].own /\ ring[j].own => ring[i].src = ring[j].src

\* Violated.  src/src/main.c:333 "start from an empty ring either way": at least the
\* ring that leaves the top of the loop is of one kind.  The two may come between
\* the snapshot and its comparison, or a second switch may take the first back.
TopLeavesOneKind ==
  [][pc = "notice" /\ pc' = "acquire" =>
       \A i, j \in DOMAIN ring' :
         ring'[i].own /\ ring'[j].own => ring'[i].src = ring'[j].src]_vars

\* Violated.  The same for all that is in the ring, without such a sync: the switch
\* is saved before the ring is cleared, and a reset in between finds the new mode
\* with the old readings.
ResetKeepsKindsApart ==
  [][pc = "notice" /\ pc' = "acquire" /\ ~strayed' =>
       \A i, j \in DOMAIN ring' : ring'[i].src = ring'[j].src]_vars

\* Violated.  A stamp that is no uptime is the wall time of the reading: a
\* reading with the uptime of an earlier boot is rebased by the offset of this one
\* (src/src/main.c:305, "delta = epoch - uptime, constant for the whole power cycle").
RebasedIsTrue ==
  \A i \in DOMAIN ring : ring[i].ts >= ProvMax => ring[i].ts = ProvMax + ring[i].at

\* Violated.  After a deep sleep there is nothing to rebase (src/src/main.c:201,
\* "no outage, no provisional readings"): a clock set after the top of the last
\* iteration before it leaves that iteration's readings as they were.
WokenTimed ==
  resumed /\ isSet => \A i \in DOMAIN ring : ring[i].ts >= ProvMax
=============================================================================
