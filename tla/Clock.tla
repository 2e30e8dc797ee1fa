-------------------------------- MODULE Clock --------------------------------
(***************************************************************************)
(* The wall clock of the station (src/src/system/clock.c), its persisted   *)
(* ring of syncs (src/src/system/clock_store.c) and the deep sleep that    *)
(* carries it through the always-on timer (src/src/power/power.c).         *)
(*                                                                         *)
(* There is no battery-backed clock: time comes from a phone (BLE) or a    *)
(* LoRa downlink, each off by at most Jitter; a downlink can also have     *)
(* waited up to Delay in the network's queue.  Real time is the variable   *)
(* now, which no action of the firmware reads: it only decides what a sync *)
(* says and what the timers count.  All times are milliseconds.            *)
(*                                                                         *)
(* A BLE sync runs in the radio's context and may fall between any two     *)
(* steps of the supervisor except inside flash_safe_execute.               *)
(***************************************************************************)
EXTENDS Integers, Sequences

CONSTANTS
  EpochMin, EpochMax, \* CLOCK_EPOCH_MIN_MS, CLOCK_EPOCH_MAX_MS
  Slack,              \* CLOCK_BACKWARD_SLACK_MS
  RingMax,            \* CLOCK_RING_MAX
  Second, Residual,   \* LPOSC_RESIDUAL_MS_PER_S for every Second slept
  MaxSlept,           \* DS_MAX_SLEPT_MS
  Jitter, Delay,      \* how far off, and how late, a genuine sync can be
  BootLag,            \* uptime when main() resumes the clock after a deep sleep
  Errors,             \* errors of genuine syncs
  Garbage,            \* epochs a garbled downlink can carry
  Steps, Naps,        \* time that passes awake or off, and asleep
  Drifts,             \* what the always-on timer miscounts over a nap
  Start, MaxNow,      \* real time: first value, bound
  NoRecord            \* the clock's flash sector erased or torn

\* What clock_store and the checks tell apart: CLOCK_SRC_BLE and CLOCK_SRC_LORA are
\* both authoritative, an estimate of the always-on timer is not.
Sources == {"SYNC", "AON"}
Samples == [epoch : Nat, source : Sources]

NoContext == [wall |-> 0, uncertainty |-> 0]

ASSUME ClockConstants ==
  /\ EpochMin \in Nat \ {0} /\ EpochMax \in Nat /\ Start \in Nat
  /\ Slack \in Nat /\ RingMax \in Nat \ {0}
  /\ Second \in Nat \ {0} /\ Residual \in Nat /\ MaxSlept \in Nat
  /\ Jitter \in Nat /\ Delay \in Nat /\ 2 * Jitter <= Slack
  /\ BootLag \in Nat
  /\ Errors \subseteq (-Jitter - Delay)..Jitter
  /\ Garbage \subseteq Nat
  /\ \A e \in Garbage : e < EpochMin \/ e >= EpochMax
  /\ Steps \subseteq Nat /\ Naps \subseteq Nat
  /\ Drifts \subseteq Int
  /\ MaxNow \in Nat
  /\ NoRecord \notin Seq(Samples)

VARIABLES
  now,          \* real time
  power,        \* "off", "on", or "asleep" with only the always-on domain alive
  pc,           \* the supervisor: "run", or a save at "snapshot" or "erased"
  bootedAt,     \* real time at uptime 0
  epochBase,    \* s_epoch_base_ms
  isSet,        \* s_set
  ring,         \* s_ring, newest first
  dirty,        \* s_dirty
  firstSync,    \* s_first_sync_done
  bootOutage,   \* s_boot_outage_ms
  uncertainty,  \* s_uncertainty_ms
  blob,         \* the ring clock_persist_if_dirty serialized
  record,       \* the ring in the clock's flash sector, or NoRecord
  context,      \* the always-on scratch registers and timer, or NoContext
  cutAt,        \* history: real time the board last went off or to sleep
  offFor,       \* history: how long it was off before a boot that had a reference
  lost,         \* history: boot time the clock skipped since the last sync
  rounding      \* history: drift of part seconds slept since the last sync

clock == <<epochBase, isSet, ring, dirty, firstSync, bootOutage, uncertainty>>
vars == <<now, power, pc, bootedAt, clock, blob, record, context, cutAt, offFor, lost, rounding>>

\* clock_now, with the uptime of this moment.
ClockNow == epochBase + (now - bootedAt)

LastKnown(r) == IF r = <<>> THEN 0 ELSE r[1].epoch

\* ring_push
Push(r, e, src) ==
  [i \in 1..(IF Len(r) < RingMax THEN Len(r) + 1 ELSE RingMax) |->
     IF i = 1 THEN [epoch |-> e, source |-> src] ELSE r[i - 1]]

Plausible(e) == EpochMin <= e /\ e < EpochMax

-----------------------------------------------------------------------------
Init ==
  /\ now = Start /\ cutAt = Start /\ bootedAt = Start
  /\ power = "off" /\ pc = "run"
  /\ epochBase = 0 /\ isSet = FALSE /\ ring = <<>> /\ dirty = FALSE
  /\ firstSync = FALSE /\ bootOutage = 0 /\ uncertainty = 0 /\ blob = <<>>
  /\ record = NoRecord /\ context = NoContext
  /\ offFor = 0 /\ lost = 0 /\ rounding = 0

TimePasses(d) ==
  /\ power # "asleep" /\ now + d <= MaxNow
  /\ now' = now + d
  /\ UNCHANGED <<power, pc, bootedAt, clock, blob, record, context, cutAt, offFor, lost, rounding>>

\* clock_store_load: the ring a boot starts from.
Seed == IF record = NoRecord THEN <<>> ELSE record

\* RAM at reset, with the clock not set.
ColdStart(at) ==
  /\ epochBase' = 0 /\ isSet' = FALSE /\ ring' = Seed
  /\ firstSync' = FALSE /\ uncertainty' = 0
  /\ offFor' = IF Seed = <<>> THEN 0 ELSE at - cutAt
  /\ lost' = 0 /\ rounding' = 0

ColdBoot ==
  /\ power = "off"
  /\ power' = "on"
  /\ bootedAt' = now
  /\ ColdStart(now)
  /\ UNCHANGED <<now, pc, dirty, bootOutage, blob, record, context, cutAt>>

-----------------------------------------------------------------------------
(* Syncs *)

\* Mutation: the drift allowance of a deep sleep is left out.
AcceptedWithoutDrift(e) ==
  /\ Plausible(e)
  /\ ring # <<>> => e + Slack >= LastKnown(ring)

\* clock_apply_sync turns down what is implausible, or behind the newest sample
\* by more than the slack and the drift a deep sleep may have added.
Accepted(e) ==
  /\ Plausible(e)
  /\ ring # <<>> => e + Slack + uncertainty >= LastKnown(ring)

Gap(e) == IF ring # <<>> /\ e > LastKnown(ring) THEN e - LastKnown(ring) ELSE 0

\* Mutation: every sync, not only the first, sets the outage.
OutageAfterAnySync(e) == Gap(e)

\* s_boot_outage_ms once e is accepted.
OutageAfter(e) == IF firstSync THEN bootOutage ELSE Gap(e)

ApplySync(e, src) ==
  /\ power = "on" /\ pc # "erased"
  /\ Accepted(e)
  /\ bootOutage' = OutageAfter(e)
  /\ firstSync' = TRUE
  /\ ring' = Push(ring, e, src)
  /\ epochBase' = e - (now - bootedAt)
  /\ isSet' = TRUE /\ dirty' = TRUE /\ uncertainty' = 0
  /\ lost' = 0 /\ rounding' = 0
  /\ UNCHANGED <<now, power, pc, bootedAt, blob, record, context, cutAt, offFor>>

\* A time_sync write over BLE, or a downlink with a clock; the first is fresh, the
\* second may have been queued, or be garbled.
BleSync == \E x \in Errors : x >= -Jitter /\ ApplySync(now + x, "SYNC")
LoraSync == \E e \in {now + x : x \in Errors} \union Garbage : ApplySync(e, "SYNC")

-----------------------------------------------------------------------------
(* Persistence *)

\* clock_persist_if_dirty, under the lock: take the flag, serialize the ring.
Snapshot ==
  /\ power = "on" /\ pc = "run" /\ dirty
  /\ dirty' = FALSE /\ blob' = ring
  /\ pc' = "snapshot"
  /\ UNCHANGED <<now, power, bootedAt, epochBase, isSet, ring, firstSync, bootOutage,
                 uncertainty, record, context, cutAt, offFor, lost, rounding>>

\* flash_safe_execute gave up waiting: a warning, and the flag stays taken.
SaveRefused ==
  /\ pc = "snapshot"
  /\ pc' = "run" /\ blob' = <<>>
  /\ UNCHANGED <<now, power, bootedAt, clock, record, context, cutAt, offFor, lost, rounding>>

\* do_save: the only copy is erased, then programmed.
EraseRecord ==
  /\ pc = "snapshot"
  /\ pc' = "erased" /\ record' = NoRecord
  /\ UNCHANGED <<now, power, bootedAt, clock, blob, context, cutAt, offFor, lost, rounding>>

ProgramRecord ==
  /\ pc = "erased"
  /\ pc' = "run" /\ record' = blob /\ blob' = <<>>
  /\ UNCHANGED <<now, power, bootedAt, clock, context, cutAt, offFor, lost, rounding>>

-----------------------------------------------------------------------------
(* Power *)

RamLost ==
  /\ epochBase' = 0 /\ isSet' = FALSE /\ ring' = <<>> /\ dirty' = FALSE
  /\ firstSync' = FALSE /\ bootOutage' = 0 /\ uncertainty' = 0 /\ blob' = <<>>
  /\ pc' = "run"

\* Power lost: the always-on domain goes with it.
PowerCut ==
  /\ power # "off"
  /\ power' = "off"
  /\ RamLost
  /\ context' = NoContext
  /\ cutAt' = IF power = "asleep" THEN cutAt ELSE now
  /\ UNCHANGED <<now, bootedAt, record, offFor, lost, rounding>>

\* Mutation: scratch[6] is not written.
DeepSleepWithoutDrift ==
  /\ power = "on" /\ pc = "run" /\ isSet
  /\ power' = "asleep"
  /\ context' = [wall |-> ClockNow, uncertainty |-> 0]
  /\ RamLost
  /\ cutAt' = now
  /\ UNCHANGED <<now, bootedAt, record, offFor, lost, rounding>>

\* power_deep_sleep_off: the clock goes into the always-on timer, the drift it
\* already carries into a scratch register.
DeepSleep ==
  /\ power = "on" /\ pc = "run" /\ isSet
  /\ power' = "asleep"
  /\ context' = [wall |-> ClockNow, uncertainty |-> uncertainty]
  /\ RamLost
  /\ cutAt' = now
  /\ UNCHANGED <<now, bootedAt, record, offFor, lost, rounding>>

\* What a nap the timer counted as m may have drifted, as power_deep_wake_info
\* charges it: by the whole second.
Allowance(m) == (m \div Second) * Residual

\* Mutation: no tolerance for a ring head a few seconds ahead.
ResumableWithoutSlack(e) ==
  /\ Plausible(e)
  /\ Seed # <<>> => e >= LastKnown(Seed)

\* clock_resume_from_aon's conditions, with the ring just seeded.
Resumable(e) ==
  /\ Plausible(e)
  /\ Seed # <<>> => e + Slack >= LastKnown(Seed)

\* Mutation: the estimate is marked for persisting, like a sync.
ResumeFromAonDirty(e, drift) ==
  /\ ring' = Push(Seed, e, "AON")
  /\ epochBase' = e - BootLag
  /\ isSet' = TRUE /\ firstSync' = TRUE
  /\ uncertainty' = drift
  /\ dirty' = TRUE

\* clock_resume_from_aon: e was read at uptime 0, and is taken for BootLag's.
ResumeFromAon(e, drift) ==
  /\ ring' = Push(Seed, e, "AON")
  /\ epochBase' = e - BootLag
  /\ isSet' = TRUE /\ firstSync' = TRUE
  /\ uncertainty' = drift
  /\ UNCHANGED dirty

\* power_deep_wake_info and main() after a nap of d that the timer counted as m.
Wake(d, m) ==
  LET estimate == context.wall + m IN
  /\ power = "asleep"
  /\ m >= 0 /\ m - d <= Allowance(m) + Residual /\ d - m <= Allowance(m) + Residual
  /\ now + d + BootLag <= MaxNow
  /\ now' = now + d + BootLag /\ bootedAt' = now + d
  /\ power' = "on"
  /\ context' = NoContext
  /\ \/ /\ m <= MaxSlept /\ Resumable(estimate)
        /\ ResumeFromAon(estimate, context.uncertainty + Allowance(m))
        /\ offFor' = 0
        /\ lost' = lost + BootLag /\ rounding' = rounding + Residual
     \/ /\ ~ (m <= MaxSlept /\ Resumable(estimate))
        /\ ColdStart(now + d)
        /\ UNCHANGED dirty
  /\ UNCHANGED <<pc, bootOutage, blob, record, cutAt>>

Next ==
  \/ \E d \in Steps : TimePasses(d)
  \/ ColdBoot
  \/ BleSync \/ LoraSync
  \/ Snapshot \/ SaveRefused \/ EraseRecord \/ ProgramRecord
  \/ PowerCut \/ DeepSleep
  \/ \E d \in Naps, x \in Drifts : Wake(d, d + x)

Spec == Init /\ [][Next]_vars

-----------------------------------------------------------------------------
(* The inductive invariant of the proofs *)

\* A ring that ends in a sync, never in a timer's estimate.
Authoritative(r) ==
  r # <<>> /\ r[1].source # "AON" /\ r[1].epoch <= now + Jitter

TimeOrder ==
  /\ cutAt <= now
  /\ power = "on" => bootedAt <= now
  /\ power = "asleep" => cutAt = now

UnpoweredIsBlank ==
  power # "on" => ~ isSet /\ ring = <<>> /\ ~ dirty /\ ~ firstSync /\ pc = "run"

SetAfterFirstSync ==
  power = "on" => /\ isSet <=> firstSync
                  /\ isSet => ring # <<>> /\ ClockNow >= EpochMin

HeadNotAhead ==
  ring # <<>> => ring[1].epoch <= now + Jitter + uncertainty + rounding

SavedIsAuthoritative ==
  /\ dirty => Authoritative(ring)
  /\ pc # "run" => Authoritative(blob)
  /\ record # NoRecord => Authoritative(record)

ReferenceIsOld ==
  /\ power # "on" /\ record # NoRecord => record[1].epoch <= cutAt + Jitter
  /\ power = "on" /\ ~ firstSync /\ offFor > 0 =>
       ring # <<>> /\ ring[1].epoch <= cutAt + Jitter /\ cutAt + offFor <= now

ContextIsClose ==
  power = "asleep" =>
    /\ context.wall >= EpochMin
    /\ context.wall - cutAt <= Jitter + context.uncertainty + rounding
    /\ cutAt - context.wall <= Jitter + Delay + context.uncertainty + rounding + lost

-----------------------------------------------------------------------------
(* Properties *)

RingOK(r) == r \in Seq(Samples) /\ Len(r) <= RingMax

\* Every variable keeps to its type: in particular no ring, in RAM, on its way to
\* flash or in flash, outgrows CLOCK_RING_MAX, and no outage is negative.
TypeOK ==
  /\ now \in Nat /\ bootedAt \in Nat /\ cutAt \in Nat
  /\ power \in {"off", "on", "asleep"}
  /\ pc \in {"run", "snapshot", "erased"}
  /\ epochBase \in Int
  /\ isSet \in BOOLEAN /\ dirty \in BOOLEAN /\ firstSync \in BOOLEAN
  /\ RingOK(ring) /\ RingOK(blob) /\ (record = NoRecord \/ RingOK(record))
  /\ bootOutage \in Nat /\ uncertainty \in Nat
  /\ offFor \in Nat /\ lost \in Nat /\ rounding \in Nat
  /\ context \in [wall : Nat, uncertainty : Nat]

\* A set clock is never further from real time than the last sync was, plus the
\* drift allowance the code carries through every deep sleep, the boot time it
\* does not account for, and the part seconds the allowance leaves out.
ClockErrorBounded ==
  power = "on" /\ isSet =>
    /\ ClockNow - now <= Jitter + uncertainty + rounding
    /\ now - ClockNow <= Jitter + Delay + uncertainty + rounding + lost

\* A genuine fresh sync is never turned down, whatever the clock believed before:
\* after a stale downlink, a power cut during a save, or any chain of deep sleeps
\* whose part seconds still fit in the slack.
FreshSyncAccepted ==
  power = "on" /\ rounding <= Slack - 2 * Jitter =>
    \A x \in Errors : x >= -Jitter /\ Plausible(now + x) => Accepted(now + x)

\* An estimate of the always-on timer is never what a cold boot measures the
\* outage from, nor what it judges the next sync by: uncertainty is not persisted.
FlashHeadIsAuthoritative ==
  record # NoRecord => record # <<>> /\ record[1].source # "AON"

\* The outage reported after a power cut is never shorter than the real one, but
\* for the errors of the two syncs it is measured between.
OutageNeverUnderreported ==
  power = "on" /\ firstSync => bootOutage >= offFor - 2 * Jitter - Delay

IInv ==
  /\ TypeOK /\ TimeOrder /\ UnpoweredIsBlank /\ SetAfterFirstSync
  /\ HeadNotAhead /\ SavedIsAuthoritative /\ ReferenceIsOld /\ ContextIsClose
  /\ ClockErrorBounded /\ OutageNeverUnderreported

\* With sources that are never late, every deep sleep of a credible length is
\* resumed from: main.c's "deep-sleep clock implausible -> cold start" is for a
\* timer that did not survive, never for a clock a later sync had set back.
EveryNapIsResumed ==
  [][power = "asleep" /\ power' = "on" /\ 2 * (bootedAt' - now) <= MaxSlept => isSet']_vars

\* src/src/system/clock.c:66 "On the first sync after a reboot this equals the
\* power-off duration": the gap is at most the time since the power went.
OutageIsPowerOff ==
  [][~ firstSync /\ firstSync' /\ power = "on" /\ offFor > 0
       => bootOutage' <= now - cutAt + 2 * Jitter]_vars

\* src/src/main.c:206 "clock from the AON timer, +/-%u ms": while the newest
\* sample is the timer's, the clock is that close to real time (beyond the error
\* of the sync it goes back to, and of part seconds).
AonClockWithinItsAllowance ==
  power = "on" /\ isSet /\ ring[1].source = "AON" =>
    now - ClockNow <= uncertainty + Jitter + Delay + rounding
=============================================================================
