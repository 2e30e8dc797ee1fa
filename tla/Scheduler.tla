------------------------------ MODULE Scheduler ------------------------------
(***************************************************************************)
(* When the station samples, runs its daily cycle and sleeps               *)
(* (src/src/power/scheduler.c), driven by the supervisor's loop            *)
(* (src/src/main.c): tick, work, nap, with the nap worked out from the     *)
(* time of the tick, not from the time the nap starts.  In a deep sleep    *)
(* the schedule is lost, all but the day of the last daily cycle, and      *)
(* rebuilt from the newest stored reading of every port.                   *)
(*                                                                         *)
(* now is real time, which no firmware reads.  The station's clock is off  *)
(* by at most MaxError (Clock.tla has the bound), either way: a sync sets  *)
(* it back as well as forward.  Before it is known main.c does not tick    *)
(* the scheduler at all.  A day is a day of local time, the clock and the  *)
(* UTC offset of the configuration, which the app and the network move.    *)
(* Times are in units of which Second make one second.                     *)
(***************************************************************************)
EXTENDS Integers

CONSTANTS
  Slots,      \* sensor slots of the configuration
  Intervals, MaxInterval,    \* sampling intervals the app can set
  DailyTimes, \* times of day the app can set for the daily cycle
  Offsets,    \* UTC offsets the app or the network can set
  Errors, MaxError,          \* how far off the clock can be
  Day, Second,
  SleepCap,   \* sleep_seconds
  Works, MaxWork,    \* time an iteration can take from its tick to its nap
  Tails, MaxTail,    \* time from the end of a nap to the next tick
  Outages,    \* how long the power can stay away
  Start, MaxNow

\* How much later than planned a tick can come.
Late == MaxWork + MaxTail + Second

ASSUME SchedulerConstants ==
  /\ MaxInterval \in Nat /\ Intervals \subseteq 1..MaxInterval /\ Intervals # {}
  /\ Day \in Nat \ {0} /\ Second \in Nat \ {0}
  /\ DailyTimes \subseteq 0..(Day - 1) /\ DailyTimes # {}
  /\ SleepCap \in Nat \ {0} /\ SleepCap < Day
  /\ MaxWork \in Nat /\ Works \subseteq 0..MaxWork /\ Works # {}
  /\ MaxTail \in Nat /\ Tails \subseteq 0..MaxTail /\ Tails # {}
  /\ Outages \subseteq Nat
  /\ MaxError \in Nat /\ Errors \subseteq (-MaxError)..MaxError /\ 0 \in Errors
  /\ Offsets \subseteq Int /\ Offsets # {}
  /\ Start \in Nat /\ Start > MaxError /\ MaxNow \in Nat
  \* "this keeps it positive for any legal offset" (scheduler.c:15)
  /\ \A o \in Offsets : Start + o >= MaxError

VARIABLES
  now,        \* real time
  err,        \* how far the station's clock is ahead of it
  pc,         \* the supervisor: "top", "work", "nap" or "deep"
  slot,       \* cfg.sensors: the interval of each slot, 0 when it is free
  dailyAt,    \* cfg.daily_hour:daily_min
  offset,     \* cfg.utc_offset_min
  next,       \* next_sensor_ms
  lastDay,    \* last_daily_day
  tickNow,    \* now_ms of this iteration: the clock at its tick
  wakeAt,     \* end of the nap planned last, or actually taken
  newest,     \* newest stored reading of each port, 0 when there is none
  sampledAt,  \* history: last sampling of each slot, or when a sensor came to it
  span,       \* history: the slot's longest interval since it was last due
  replaced,   \* history: free slots given a sensor since the last tick
  moved,      \* history: since the tick, dailyAt in its iteration, or the offset
  tickDay,    \* history: local day of the last tick, -1 before the first
  served,     \* history: local days that had a daily cycle since the cold boot
  again,      \* history: one of them had a second one
  back        \* history: a tick's local day was before that of the tick before it

config == <<slot, dailyAt, offset>>
dayHistory == <<tickDay, served, again, back>>
history == <<sampledAt, span, replaced, moved, dayHistory>>
vars == <<now, err, pc, config, next, lastDay, tickNow, wakeAt, newest, history>>

Used == {i \in Slots : slot[i] # 0}

\* clock_now
Clock == now + err

\* to_local_ms, with the offset as it is
Local(t) == t + offset

DayOf(local) == local \div Day
Today == DayOf(Local(Clock))

-----------------------------------------------------------------------------
Init ==
  /\ now = Start /\ err = 0 /\ pc = "top"
  /\ slot \in [Slots -> Intervals \union {0}] /\ dailyAt \in DailyTimes /\ offset \in Offsets
  /\ next = [i \in Slots |-> 0] /\ lastDay = -1
  /\ tickNow = 0 /\ wakeAt = Start
  /\ newest = [i \in Slots |-> 0]
  /\ sampledAt = [i \in Slots |-> Start] /\ span = slot
  /\ replaced = {} /\ moved = FALSE
  /\ tickDay = -1 /\ served = {} /\ again = FALSE /\ back = FALSE

\* scheduler_tick: a slot is due on its first tick and whenever its time came.
Due(i) == slot[i] # 0 /\ (next[i] = 0 \/ Clock >= next[i])

\* Mutation: catching up goes one interval too far.
NextSkipsOne(i) ==
  LET base == IF next[i] = 0 THEN Clock ELSE next[i]
  IN base + slot[i] * ((Clock - base) \div slot[i] + 2)

\* The first time ahead of the clock that is whole intervals away from the due time.
NextDue(i) ==
  LET base == IF next[i] = 0 THEN Clock ELSE next[i]
  IN base + slot[i] * ((Clock - base) \div slot[i] + 1)

\* Mutation: the moment itself, not a threshold.
DailyAtTheMoment == Local(Clock) % Day = dailyAt /\ lastDay # Today

\* fire_at_time: the time of day was reached, and the day has had no cycle.
DailyDue == Local(Clock) % Day >= dailyAt /\ lastDay # Today

\* One tick, and the sampling it asks for: with the daily cycle, every slot.
\* A probe may not answer: the schedule moves on all the same.
Tick ==
  LET sampled == IF DailyDue THEN Used ELSE {i \in Slots : Due(i)}
  IN
  /\ pc = "top"
  /\ pc' = "work" /\ tickNow' = Clock
  /\ next' = [i \in Slots |-> IF slot[i] = 0 THEN 0
                              ELSE IF Due(i) THEN NextDue(i) ELSE next[i]]
  /\ lastDay' = IF DailyDue THEN Today ELSE lastDay
  /\ \E answered \in SUBSET sampled :
       newest' = [i \in Slots |-> IF i \in answered THEN Clock ELSE newest[i]]
  /\ sampledAt' = [i \in Slots |-> IF i \in sampled \/ slot[i] = 0 THEN now ELSE sampledAt[i]]
  /\ span' = [i \in Slots |-> IF Due(i) \/ slot[i] = 0 THEN slot[i] ELSE span[i]]
  /\ replaced' = {} /\ moved' = FALSE
  /\ tickDay' = Today
  /\ served' = IF DailyDue THEN served \union {Today} ELSE served
  /\ again' = (again \/ (DailyDue /\ Today \in served))
  /\ back' = (back \/ Today < tickDay)
  /\ UNCHANGED <<now, err, config, wakeAt>>

-----------------------------------------------------------------------------
(* The nap *)

\* scheduler_next_sleep_s for one slot; one that is overdue waits an interval.
UntilDue(i) == IF next[i] > tickNow THEN next[i] - tickNow ELSE slot[i]

\* ms_until_time: today's target while it is ahead and unused, or tomorrow's.
UntilDaily ==
  LET local == Local(tickNow)
      today == DayOf(local) * Day + dailyAt
  IN IF local < today /\ lastDay # DayOf(local)
     THEN today - local ELSE today + Day - local

\* Whole seconds, rounded up, and at least one.
NapLength ==
  LET reasons == {SleepCap, UntilDaily} \union {UntilDue(i) : i \in Used}
      shortest == CHOOSE t \in reasons : \A u \in reasons : t <= u
      seconds == (shortest + Second - 1) \div Second
  IN Second * (IF seconds = 0 THEN 1 ELSE seconds)

\* Everything between the tick and the nap: probes, LoRa, flash.
Work(w) ==
  /\ pc = "work" /\ now + w + NapLength <= MaxNow
  /\ now' = now + w
  /\ wakeAt' = now + w + NapLength
  /\ pc' \in {"nap", "deep"}
  /\ UNCHANGED <<err, config, next, lastDay, tickNow, newest, history>>

\* The light nap runs out, or the button or a request of the app ends it early;
\* serving the request takes its time.
NapEnds(t, tail) ==
  /\ pc = "nap" /\ now <= t /\ t <= wakeAt /\ t + tail <= MaxNow
  /\ now' = t + tail /\ wakeAt' = now'
  /\ pc' = "top"
  /\ UNCHANGED <<err, config, next, lastDay, tickNow, newest, history>>

\* Mutation: last_daily_day does not travel through the deep sleep.
CarriedDayLost == -1

\* wake.last_daily_day
CarriedDay == lastDay

\* The chip reboots: scheduler_init, then seed_schedule_from_storage.
DeepWake(t, tail) ==
  /\ pc = "deep" /\ now <= t /\ t <= wakeAt /\ t + tail <= MaxNow
  /\ now' = t + tail /\ wakeAt' = now'
  /\ pc' = "top"
  /\ next' = [i \in Slots |-> IF slot[i] # 0 /\ newest[i] # 0
                              THEN newest[i] + slot[i] ELSE 0]
  /\ lastDay' = CarriedDay
  /\ UNCHANGED <<err, config, tickNow, newest, history>>

-----------------------------------------------------------------------------
(* Configuration and power *)

\* A config write, or a downlink's, before the snapshot of the next iteration or
\* while this one works.  One that lands in a light nap ends it: NapEnds first.
SetSensor(i, interval) ==
  /\ pc \in {"top", "work"}
  /\ slot' = [slot EXCEPT ![i] = interval]
  /\ span' = [span EXCEPT ![i] = IF interval > @ THEN interval ELSE @]
  /\ sampledAt' = [sampledAt EXCEPT ![i] = IF slot[i] = 0 THEN now ELSE @]
  /\ replaced' = IF interval = 0 THEN replaced \ {i}
                  ELSE IF slot[i] = 0 THEN replaced \union {i} ELSE replaced
  /\ UNCHANGED <<now, err, pc, dailyAt, offset, next, lastDay, tickNow, wakeAt, newest,
                 moved, dayHistory>>

SetDaily(t) ==
  /\ pc \in {"top", "work"}
  /\ dailyAt' = t
  /\ moved' = (moved \/ pc = "work")
  /\ UNCHANGED <<now, err, pc, slot, offset, next, lastDay, tickNow, wakeAt, newest,
                 sampledAt, span, replaced, dayHistory>>

\* The phone's time zone, or the network's TLV.
SetOffset(o) ==
  /\ pc \in {"top", "work"}
  /\ offset' = o
  /\ moved' = (moved \/ o # offset)
  /\ UNCHANGED <<now, err, pc, slot, dailyAt, next, lastDay, tickNow, wakeAt, newest,
                 sampledAt, span, replaced, dayHistory>>

\* A sync, forward or back, and the drift since the last one.  The clock is read
\* at the tick: one set in the work or in the nap after it is felt by the next tick.
SetClock(e) ==
  /\ pc = "top"
  /\ err' = e
  /\ UNCHANGED <<now, pc, config, next, lastDay, tickNow, wakeAt, newest, history>>

\* Power goes, and comes back after d with the clock known again.
PowerCut(d) ==
  /\ now + d <= MaxNow
  /\ now' = now + d
  /\ pc' = "top"
  /\ next' = [i \in Slots |-> 0] /\ lastDay' = -1
  /\ tickNow' = 0 /\ wakeAt' = now'
  /\ sampledAt' = [i \in Slots |-> now'] /\ span' = slot
  /\ replaced' = {} /\ moved' = FALSE
  /\ tickDay' = -1 /\ served' = {} /\ again' = FALSE /\ back' = FALSE
  /\ UNCHANGED <<err, config, newest>>

Next ==
  \/ Tick
  \/ \E w \in Works : Work(w)
  \/ \E t \in {now, wakeAt}, tail \in Tails : NapEnds(t, tail) \/ DeepWake(t, tail)
  \/ \E i \in Slots, interval \in Intervals \union {0} : SetSensor(i, interval)
  \/ \E t \in DailyTimes : SetDaily(t)
  \/ \E o \in Offsets : SetOffset(o)
  \/ \E e \in Errors : SetClock(e)
  \/ \E d \in Outages : PowerCut(d)

Spec == Init /\ [][Next]_vars

-----------------------------------------------------------------------------
(* Properties *)

\* Every variable keeps its type: no due time lies further ahead of the clock than
\* its error and the longest interval, and no reading is further ahead than the
\* error (scheduler.c:65-110).
TypeOK ==
  /\ now \in Nat /\ err \in Errors /\ now >= Start
  /\ tickNow \in 0..(now + MaxError) /\ wakeAt \in Nat
  /\ pc \in {"top", "work", "nap", "deep"}
  /\ slot \in [Slots -> Intervals \union {0}] /\ dailyAt \in DailyTimes /\ offset \in Offsets
  /\ next \in [Slots -> 0..(now + MaxError + MaxInterval)]
  /\ newest \in [Slots -> 0..(now + MaxError)]
  /\ lastDay \in Nat \union {-1} /\ tickDay \in Nat \union {-1}
  /\ sampledAt \in [Slots -> 0..now] /\ span \in [Slots -> Intervals \union {0}]
  /\ replaced \subseteq Slots /\ moved \in BOOLEAN
  /\ served \in SUBSET Nat /\ again \in BOOLEAN /\ back \in BOOLEAN

\* No sensor waits longer for its first or next sample than the longest interval
\* its slot had since the slot was last due, the time one iteration takes, and
\* twice the error of the clock, whatever naps, deep sleeps, syncs, extra samples
\* and changes of the configuration lie in between (scheduler_tick with
\* scheduler_next_sleep_s).
NoSensorStarves ==
  pc = "top" => \A i \in Used : now <= sampledAt[i] + span[i] + Late + 2 * MaxError

\* Between two cold boots no local day has a second daily cycle, whatever deep
\* sleeps, naps, new daily times and jumps of the clock or of the offset fall into
\* it, unless local time itself went back over a midnight from one tick to another
\* (fire_at_time, last_daily_day).
OneDailyPerDay == again => back

\* No daily time is so close to midnight that the day can end in the iteration
\* that was to reach it.
DayHasRoom == \A t \in DailyTimes : t + Late + 2 * MaxError <= Day

\* A local day the station was up on does not end without its daily cycle, however
\* late the ticks and wherever a sync sets the clock, unless the app moved the
\* daily time in the middle of an iteration or the offset since the tick: the nap
\* is then planned as if the new time had been served, or the day is another one.
DayIsServed ==
  DayHasRoom /\ pc = "top" /\ ~ moved /\ Today > tickDay => lastDay = tickDay

\* What they rest on.  A due time is at most the slot's longest interval after its
\* last sampling, on a clock that is ahead by its error at most, and a reading that
\* a deep wake counts from is no later than that.
DueInTime ==
  \A i \in Slots : /\ slot[i] <= span[i] /\ newest[i] <= sampledAt[i] + MaxError
                  /\ next[i] <= sampledAt[i] + MaxError + span[i]

\* An iteration leaves its tick with every sensor due in the future, or new.
TickedAhead ==
  pc = "work" => /\ now - MaxError <= tickNow
                 /\ \A i \in Used : next[i] > tickNow \/ sampledAt[i] = now

\* The nap ends in time for every sensor.
NapInTime ==
  pc \in {"nap", "deep"} =>
    /\ now <= wakeAt
    /\ \A i \in Used : wakeAt + MaxTail <= sampledAt[i] + span[i] + Late + 2 * MaxError

\* While local time goes forward, the days served are past, and the one of the last
\* tick, if served, is marked so.
ServedInOrder ==
  ~ back => /\ \A d \in served : d <= tickDay
            /\ tickDay \in served => lastDay = tickDay

\* A day without its cycle has not reached its time at the tick, and the nap ends
\* before the day does, even on a clock that is ahead by its error.
DayAhead ==
  DayHasRoom /\ ~ moved /\ lastDay # tickDay =>
    /\ pc = "work" => /\ tickDay = DayOf(Local(tickNow))
                      /\ Local(tickNow) < tickDay * Day + dailyAt
    /\ pc \in {"nap", "deep"} => Local(wakeAt) + MaxTail + MaxError < (tickDay + 1) * Day
    /\ pc = "top" => Local(now) + MaxError < (tickDay + 1) * Day

\* The inductive invariant of Scheduler_proofs.
IInv ==
  /\ TypeOK
  /\ DueInTime /\ TickedAhead /\ NapInTime /\ NoSensorStarves
  /\ ServedInOrder /\ OneDailyPerDay
  /\ DayAhead /\ DayIsServed

\* Violated.  src/include/savia/scheduler.h:28 "once per LOCAL day": when the offset
\* or a sync takes local time back over a midnight, last_daily_day names the day
\* after, and the day that is repeated has its cycle again.
DailyOncePerLocalDay == ~ again

\* Violated.  src/include/savia/scheduler.h:29 "a station that missed the moment catches up on
\* its next tick rather than skipping the day".
DayIsNeverSkipped ==
  pc = "top" /\ Today > tickDay => lastDay = tickDay

\* Violated.  src/src/power/scheduler.c:70 clears a free slot so that the next sensor there
\* does not "inherit the deleted one's due time and stay silent for up to a full
\* interval after being added": the first tick after its addition samples it.
NewSensorIsSampled ==
  [][pc = "top" /\ pc' = "work" => \A i \in replaced : sampledAt'[i] = now]_vars

\* Violated.  src/src/power/scheduler.c:93 "Their own due times are untouched" by the daily
\* sample, and src/src/main.c:142 "so the cadence continues": a deep sleep gives
\* the due time it had back to every sensor that answered when last sampled.
CadenceSurvivesDeepSleep ==
  [][(\E t \in {now, wakeAt}, tail \in Tails : DeepWake(t, tail)) =>
       \A i \in Used : newest[i] = sampledAt[i] => next'[i] = next[i]]_vars
=============================================================================
