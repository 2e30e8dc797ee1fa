# A TLA+ model of the Savia station firmware

The firmware (`src/`, C for the Raspberry Pi Pico W and Pico 2 W) samples soil sensors over SDI-12,
keeps two days of readings, predicts soil moisture once a day, talks to a phone over BLE and to a
backend over LoRaWAN, and sleeps in between. One loop, the *supervisor* (`main.c`), does the
blocking work. The BLE handlers (`ble_gatt.c`) run in the radio's background context: they preempt
the supervisor anywhere except under `cfg_lock` and inside `flash_safe_execute`. They are never
preempted by it. Readings, configuration and syncs survive a loss of power only as far as three
flash records go; a deep sleep loses everything but six scratch registers and the always-on timer.

Contents: [1 Inventory](#1-inventory) · [2 Hazards](#2-what-is-hard) · [3 Modules](#3-modules) ·
[4 Runs](#4-runs-what-each-shows-and-its-bounds) · [5 Fairness](#5-fairness) ·
[6 Proofs](#6-proofs) · [7 Disagreements](#7-disagreements-with-the-source) ·
[8 Limits](#8-what-is-not-modelled) · [9 Plan](#9-plan)

## 1 Inventory

| Component | Source (under `src/`) | State | Operations | Interacts with |
|---|---|---|---|---|
| Measurement store | `src/storage/storage_flash.c`, `storage_store.c` | readings ring, predictions, `s_dirty`; two banks in flash, `s_bank`, `s_seq` | append, upsert, clear, rebase, query, aggregate; load, save | supervisor (append, save), BLE (query, clear, ingest), weather |
| Weather window | `src/system/weather.c` | TA curve with its time | `weather_set`, serialise, adopt | BLE and LoRa (set), store (persist), inference |
| Clock and sync ring | `src/system/clock.c`, `clock_store.c` | epoch base, ring of syncs, uncertainty; one record in flash | sync, seed, resume, persist | BLE and LoRa (sync), power (carry), all that stamp data |
| Scheduler | `src/power/scheduler.c` | due time per slot, day last served | tick, seed, length of the nap | supervisor, stored readings (seed), power |
| LoRa node | `src/drivers/lora_wioe5.c`, `src/codec/lora_codec.c` | session, send-once marks, last attempt, CONFIG mailbox, soil cursor | cycle, ping, AT, restore | supervisor, configuration, clock, power |
| Configuration | `src/system/config.c`, `config_store.c`, `pinmap.c`, `src/ble/ble_gatt.c`, `src/codec/lora_codec.c` | configuration, dirty flag, one record in flash | app's patch, network's patch, save, load, factory reset | BLE, LoRa, supervisor, actuators |
| BLE service | `src/ble/ble_gatt.c`, `ble_codec.c`, `auth.c` | connection, lock, response staged, acknowledgement, request mailboxes, long write | connect, disconnect, writes, send | everything the app may change |
| Actuators | `src/main.c`, `src/system/actuator.c` | logical state per port, output pins, last table seen | synchronise pins, switch | configuration, BLE |
| Consoles (AT, SDI-12) | `src/drivers/lora_wioe5.c`, `sensor_sdi12.c` | mailbox, numbered result | queue, run, read back | BLE, supervisor |
| Power manager | `src/power/power.c` | scratch registers, always-on timer | light nap, deep sleep, wake | supervisor, clock, scheduler, LoRa |
| Supervisor | `src/main.c` | copy of the configuration, loop position | the loop | all |
| Sensor drivers | `src/drivers/sensor_*.c`, `src/codec/sdi12_parse.c` | none kept | measure | supervisor |
| Inference | `src/system/inference*.c*`, `lstm_input.c`, `scaler.c` | none kept | gather, run | readings, weather |
| Mock replay, provisional readings | `src/main.c`, `src/system/mock_soil.c` | ring contents | fill, rebase | clock, store |
| LED, identifier, log; CBOR, SHA-256 | `src/system/`, `src/codec/` | log lines | format | – |

What makes each correct:

* **Store** – what a boot restores is always one complete image, as RAM held it at one moment; it
  only moves forward; what is not marked dirty is in it; a change reaches it in the end.
* **Clock** – close to real time within a bound the code itself carries; never deaf to a good sync;
  an outage is never reported shorter than it was.
* **Scheduler** – no sensor waits longer than its interval; the day is served once, and is served.
* **LoRa node** – one attempt per period whatever happens; one BOOT per power cycle; what is owed to
  the backend goes out.
* **Configuration** – no sequence of patches, saves, cuts and reboots puts two things on one pin or
  asks the build for what it cannot do.
* **Requests** – what the app was told is queued is done, as asked, for the client that asked, and
  the pins are what the app is told.
* **BLE** – only a client that proved the password on this connection writes; a response arrives
  whole; a write is answered.
* **Readings** – a stamp stands for the hour the reading was taken in, whenever the clock gets set;
  replayed and measured soil do not share the ring, nor is an hour replayed twice.
* **Ring and its readers** – the last readings in the order they came, through rotations, drops and
  resets; an hour the SOIL uplink has passed went out whole; a forecast is made from real hours, and
  a fresh sample is seen by it.
* **Probes** – noise and silence may cost values, and never turn a value into another or move it to
  another depth.
* **AT line** – what the driver believes of the session is what the network granted.

## 2 What is hard

`PROJECT.json` lists each hazard at its line, with the properties that would catch it, or why none does. They fall
into five groups; lines are those of the files under `src/src/`.

1. *Power.* It may go between any two flash operations, and a deep sleep is a reboot with six words
   of memory (`storage_store.c:212`, `clock_store.c:58`, `lora_wioe5.c:545`, `scheduler.c:105`).
2. *Two contexts.* Handlers run between any two steps of an iteration that lasts seconds and works
   on a copy (`main.c:135`, `:316`, `:335`, `:394`, `:461`, `:508`; `ble_gatt.c:840`, `:850`).
3. *Time.* Late syncs, drift, deep sleeps that count in whole seconds, naps planned from a stale
   "now" (`clock.c:64`, `power.c:183`, `main.c:411`).
4. *The lines out.* Joins and uplinks fail for any length of time (`lora_wioe5.c:429`, `:506`); a
   reply's tail is taken for the next one's answer (`lora_wioe5.c:180`); noise hits a probe's reply
   (`sensor_sdi12.c:179`).
5. *Long legal sequences*: patches that move LoRa and sensors about (`ble_gatt.c:437`), long writes
   cut short (`ble_gatt.c:650`), switches of slots that move (`main.c:95`), a ring that is full, rotated
   and dropped from (`storage_flash.c:97`), windows with gaps and tables that fill up
   (`lstm_input.c:50`, `:67`).

## 3 Modules

Each component has a module with its variables, `Init`, one action per operation and `Next`; an MC
module gives its constants small values; proofs are in a module of their own. Operators named
"Mutant" in a comment are faulty variants used to show that a property notices the fault; no
specification uses them.

```
DurableImage   <- refined by -  ImageStore      <- ImageStore_proofs   MCImageStore
ReadingLog     <- refined by -  SoilWindow      <- SoilWindow_proofs   MCSoilWindow
                                Clock           <- Clock_proofs        MCClock
                                StationConfig   <- BleConfig_proofs    MCStationConfig
                                BleLink         <- BleConfig_proofs    MCBleLink
                                Scheduler       <- Scheduler_proofs    MCScheduler
                                LoraNode        <- LoraNode_proofs     MCLoraNode
                                Station         <- Station_proofs      MCStation
Sdi12, Console <- composed in - SensorBench     <- Requests_proofs     MCSensorBench, MCSdi12, MCConsole
                                AppRequests     <- Requests_proofs     MCAppRequests
                                AtLink
```

**DurableImage** is what `storage_store.h` promises: RAM, and one image that only ever becomes, at once,
what RAM holds. **ImageStore** is how: `ReadDirty` → `SkipSave` or `StartSave` (`storage_take_dirty`
reads the flag and then clears it whatever it read, without a lock: one raised in between is lost, and
the ghost `slipped` says so) → `EnterSave` (inside `flash_safe_execute`, or refused) → `EraseSector`* →
`ProgramPage`* (the header's page, with the CRC, is where the record becomes valid) → `SaveDone`;
`PowerCut` at any point leaves the unit under way torn; `Boot` reads both banks. A ring is an opaque
value with a length in pages. The CRC is taken to reject pages of different saves.

**Clock** has real time as a variable that the firmware never reads. `BleSync` and `LoraSync` offer a
time that is off (`Errors`), late or garbage; `ApplySync` is `clock_apply_sync` with its
plausibility and slack; the snapshot, erase and program of the ring's record are separate steps;
`DeepSleep`, the wake and the cold boot carry what `power.c` and `main.c` carry.

**Scheduler** drives `scheduler_tick` and `scheduler_next_sleep_s` through the loop: tick, work that
takes time, a nap reckoned from the time of the *tick*, light or deep, and after a deep sleep the
seed from the newest readings. The app adds, removes and changes sensors, the daily time and the
UTC offset at any moment; the network moves the last two. The clock has an error `err` that a sync
may change to any other within `MaxError`, so that it is set back as well as forward (Clock bounds it). Two
ghosts speak of days: `again`, a day has had its cycle a second time, and `back`, local time went back
over a midnight.

**LoraNode** follows the loop's order: boot (with or without the scratch registers), `lora_cycle`
with its gate, module, join, and the frame `do_uplink` chooses, then the CONFIG mailbox, the save,
the nap and the app's ping or raw AT command. The radio answers as it likes.

**StationConfig** has the app's patch (checked whole, then committed), the network's (field by
field), `config_store_save`, the boot and the factory reset. `pinmap.c`'s checks are its operators
`TableFits`, `UartPairFits` and `Assignable`.

**AppRequests** is the supervisor's iteration as the app's requests see it: the copy and the pins at the
top (`Top`, `SyncPins`), the work with its refreshes of the copy (`Work`, `PatchedWork`, `Nap`), then
the mailboxes in the loop's order. `ble_take_act` is three steps since the handler may come between
them. Handlers act between any two steps, at any pace; the ghost `crossed` says that a switch was
carried out by a copy refreshed for the save, on a slot that the pins were not yet set up for. The
mailboxes of the two consoles are in **Console**, whose client asks, polls and goes away; the result it
polls is being rewritten in place. The lines that map its steps are those of one of the two consoles;
the other is the same design.

**BleLink** has the connection: `Locked`, the three auth operations with proofs bound to a nonce,
chunked responses, the acknowledgement that shares `CAN_SEND_NOW` with them, and the long write of the
weather. The result of a write waits in a slot for one (`result`), which the next write overwrites;
`owed` is the set of writes that have not been answered. BTstack is external, and modelled as the code
relies on it: one `CAN_SEND_NOW` event for a request made, the `EXECUTE` or `CANCEL` that closes a
prepared write arriving on handle 0, and a `CANCEL` when the connection ends.

**Station** is an iteration of the loop from its top to its nap, with the boot and the reset around it,
as the stamps of the readings see it. Its top is four steps: `Top` reads the clock once (`timed`,
`nowMs`), `BackFill` rebases in the first iteration that finds it set, `Snapshot` copies the
configuration, `NoticeMock` compares the mode of the copy with the one in force and empties the ring.
`Capture`, or `TopUp` and `TopUpAppends` (`mock_soil_fill`: a scan, then appends, under the lock), fill
the ring; the phone's time sync, its switch of mock, its inference and its clear come between any two
steps, or wait while the lock is held; the ping of an idle station may save the whole configuration. The
ghost `strayed` says that a sync filled in the replay while the loop still measured. A reading carries
two ghosts: the hour it was taken in, and whether this boot took it. The clock is exact once set (Clock
bounds its error), a save is one step that may be refused (ImageStore has its insides), and the points
the app injects for times of its choice are left out.

**ReadingLog** is what `storage.h` promises of the ring: a log of the last `Cap` readings.
**SoilWindow** is the ring as an array with a head and a count (`AppendTo`; `storage_clear_port`
rotates it and then compacts it; a save unrolls it, so a boot finds its head somewhere else), and its
two readers.
`build_soil_recs` aggregates by hour from a cursor, fills a frame of `RecsMax` records and moves the
cursor; `lstm_gather_inputs` aggregates the hours of the window into `WindowAggs` buckets and fills
the gaps, or refuses. Values are left out: the mean of an hour is the set of stamps it is taken
over, which is what tells a whole hour from a part of one. `RingIsALog` is the refinement, with the
ring read out in order as the log.

**Sdi12** is a measurement: `M!`, then `D0!`, `D1!`, … Each reply is a sequence of line levels, one
element per bit (the code samples eight times a bit and takes the middle), decoded
character by character as the code does, with parity and stop bit, then parsed into numbers. Noise
flips one bit of an attempt (`MaxBad` attempts of a command); the probe may be silent.
**SensorBench** composes an instance of it with one of Console: one loop takes turns at the probes and at
the mailbox.

**AtLink** is the driver's side of the UART: `at_exec`'s words to wait for, the scripts of
`lora_open`, the join, the uplink and the raw commands, over a wire that keeps what was not read.
The module is external: it answers at once and, for a join or an uplink, in a second burst later.
What is not read may be lost from the front between calls, since the FIFO is short. The pins are
taken to be assigned.

The parts meet in the configuration, the clock and the loop. Each module includes as much of the
loop as its component depends on, in the loop's order; Station has the most of it. There is no
module of all of it: its state would be the product of all of theirs, and what passes between them
(the clock's error, the image, the copy of the configuration) is stated where it is used.

## 4 Runs: what each shows, and its bounds

Every run of kind *pass* is exhaustive within its bounds. Deadlock is checked except where a bound on
time, requests or results ends the behaviours (Clock, Scheduler, BleLink, SensorBench, AtLink). Each
module has a type invariant (`TypeOK`; `ConfigTyped` in StationConfig). It is proved for ImageStore,
Clock, StationConfig, BleLink, LoraNode, Scheduler, Station, SoilWindow, AppRequests and Console (the
last for a client that waits), and can be checked for the others by adding it to the `INVARIANTS` of
their runs (for AtLink in place of the violated one, with `Attempts = 3`). So can `IInv`, the inductive
invariant of a module proved about (`ConfigInv` of BleConfig_proofs for StationConfig): with the
constants of its run TLC finds it true.

| Run | Shows | Bounds, and why they do |
|---|---|---|
| `ImageStore.cfg` | `CleanMeansDurable`, that the store refines DurableImage (`PowerCutCostsOnlyTheNewImage`), `NewestMovesForward`, `RingReachesFlash` | banks of 2 sectors and 4 pages, records of 1 sector in part, in full, and of 2; 3 saves, so that each bank is used again after torn and refused ones |
| `Clock.cfg` | `ClockErrorBounded`, `FreshSyncAccepted`, `FlashHeadIsAuthoritative`, `OutageNeverUnderreported` | two deep sleeps, each long enough for the drift to outweigh the boot; errors that put the ring's head ahead of the next sync by all of the slack |
| `Scheduler.cfg` | `NoSensorStarves`, `OneDailyPerDay`, `DayIsServed` | into the second of two days of 16 half-seconds, intervals 4 and 9, two daily times, two offsets a half-day apart, a clock off by up to one unit and set either way, one slot (slots meet only in the minimum of the nap, which the daily time and the cap also cut); both daily times leave the last iteration of the day before midnight by twice the clock's error (`DayHasRoom`, a condition of `DayIsServed`, which also excepts a day in which the daily time or local time was moved). `OneDailyPerDay` excepts a local time that went back over a midnight; 3.8 million states |
| `LoraNode.cfg` | `NotTooOften`, `BootOnce`, `NapKeepsTheCadence`; `OwedAckGoesOut`, `CoordsGoOut` until the first deep sleep | period 3 s, ages to 6 s (more than the longest time the properties speak of), one deep sleep, one cut, one edit and one patch, each of which may change coordinates that have gone out. `BootOnce` allows a frame more for each wake that finds LoRa off (`lapses`): a second one takes two edits, as in `LoraNodeRefuted.cfg`, and the theorem of section 6 covers any number |
| `StationConfig.cfg` | `SensorPinsSound`, `LoraPinsSound`, `LocalNeedsModel`, and in `ConfigTyped` the ranges both writers hold | a header of five pins, one of each kind, two slots; no bound on the number of patches, saves, cuts and builds |
| `AppRequests.cfg` | `OutputsMatchSlots`, `RequestsDieWithClient`, `QueuedSwitchHappens`, for an app that acts at any pace | 2 slots, 2 pins, 2 clients, two tables, between which an actuator moves to the pin of another that becomes a sensor; no bound on steps. A switch of the copy refreshed at `main.c:394` on a slot that the pins were not set up for is excepted (`crossed`), and only from what the app is told is on; more tables and both modes are in `AppRequestsRefuted.cfg` |
| `BleLink.cfg` | `AuthedMeansProof`, `ResponseIsWhole`, `WeatherIsOneUpdate`, `ResponseFinishes`, `LastWriteIsAnswered` | 2 connections (an old nonce to replay), 2 requests of up to 2 frames, 2 writes, 2 updates of 2 chunks |
| `SensorBench.cfg` | `AcceptedIsWhole`, `AcceptedIsOwn`, `CommandIsAnswered`, for a client that waits for its answers (`Waits`), between measurements of which `ValuesAreTheProbes` holds | 4 results; up to 3 values, so that a probe has more than fit and needs a second `D`; one struck attempt of each command, anywhere a check looks |
| `Station.cfg` | `OwnStampsAreTrue`, `CaughtUp`, `NoTwins`, `KindsKeptApart` | a ring of 3, a replayed window of this hour and the next, two hours of which the second begins at any step, one reset or deep sleep; no bound on switches, syncs and clears; 5.4 million states. `KindsKeptApart` excepts what a sync strayed into the ring |
| `SoilWindow.cfg` | `PassedHourIsWhole`, `ForecastIsReal`, `FreshSampleIsSeen`, `RingIsALog` | two stations (a probe of two depths that forwards; the same and an air sensor that forecasts), hours of 3 ticks, 4 hours of them, a ring of 8 that wraps around, frames of 2 records, windows of 4 hours of which 2 must be real, one of a gap; `WindowAggs` is a bucket for each of 3 series in each of the 4 hours, which is `RoomForAll` of section 6, and the stations satisfy `OneProbe` and `OffTheHour` |

The runs of kind *violation* are in section 7.

`Patient` of Console, as `Waits` in SensorBench, is an assumption on the environment and nothing the
firmware enforces; with `Patient = FALSE` the counterexamples of section 7 show what it is worth.

Five properties have an exception that is a history of something the code lets happen: `slipped` of
`CleanMeansDurable` and `RingReachesFlash`, `crossed` of `OutputsMatchSlots`, `strayed` of
`KindsKeptApart` and `back` of `OneDailyPerDay`. Without it each is refuted, in section 7.

## 5 Fairness

* `ImageStore!FairSpec`, `AppRequests!FairSpec`: weak fairness of the supervisor. Its loop has no
  wait without a limit: sensors, AT exchanges and naps all time out, and the nap ends early for a
  pending request (`power.c:44`). Nothing is assumed of power, of the app, or of
  `flash_safe_execute`, which may refuse; the property says "unless refused".
* `LoraNode!FairSpec`: in addition the station is powered up again after a cut, and strong fairness
  of an uplink that gets through, with the period due. This is an assumption about the radio: with a gateway in reach,
  retried uplinks succeed now and then. The code retries every period for exactly that reason.
* `BleLink!FairSpec`: weak fairness of the sends. BTstack delivers the event it was asked for as long
  as the connection lasts; the property is excused when it ends. Configuration writes are bounded
  there (`MaxWrites`): acknowledgements go first, so a client that never stopped writing would
  starve its own response.
* `SensorBench!BenchSpec`: the loop goes on, since every exchange with a probe has a time limit, and a
  waiting client polls. The first is stated as "steps of the loop happen again and again, up to the
  bound on the results" rather than as weak fairness of each: the loop has a step to take in every
  state within the bound, so the two say the same.

Scheduler and Clock have time as a variable, and state promptness as safety (`NoSensorStarves`,
`DayIsServed`), which needs no fairness.

## 6 Proofs

Checked by TLAPS for all values of the constants that satisfy the named assumptions, which TLC also
evaluates in every run.

**ImageStore_proofs** (assumption `ConstantsOK`). `IInv` says: RAM is blank when the power is off; the
newest valid image is the one `s_bank` and `s_seq` track; a save writes the *other* bank; while erasing,
the sectors up to `pos` are erased; while programming, the pages up to `pos` are of the record being
written, which has a number above every valid one. The first page is what validates a bank and it is
torn first and written with the rest, so at no point does the spare parse until it is whole.
`CleanRingIsDurable` is about a flag taken in two steps, with ring changes between them. Theorems:
`TypeCorrect`, `CleanRingIsDurable`, `SeqNeverRegresses`, and `StoreKeepsItsPromise`, the refinement
`Spec => Promise!Spec`.

**Clock_proofs** (`ClockConstants`). `IInv` adds to the bound on the clock's error: no sync is of
the future beyond jitter (`HeadNotAhead`), what is in flash is a real sync, the reference of an
outage is older than the cut, and the context of a deep sleep is close to the real time at which
it was saved. Theorems: `TypeCorrect`, `ErrorIsBounded`, `FreshSyncIsAccepted`,
`FlashKeepsAuthorities`, `OutageIsNotUnderreported`, and `NapsAreResumed`: with sources that are never late
no nap of a credible length ends in a cold start (`EveryNapIsResumed`). It needs the second invariant
`NotSetBack`, that the clock, and the time the timer carries through a nap, are behind no sync that is saved
or about to be by more than two syncs may differ by. Its hypothesis `Punctual` says `Delay = 0` (a late
downlink may set the clock back by more than the slack), a timer good to a quarter where the firmware's
is to 3 in 1000, and the last plausible epoch (2100) further off than twice the time run. MCClock
names an instance that satisfies it, on which TLC finds `EveryNapIsResumed` true.

**BleConfig_proofs** holds what is proved of the two sides of the app's configuration: who may write one,
and what is accepted.

*StationConfig* (`ConfigAssumption`). `ConfigInv` needs *both* the configuration and the record
in flash sound, because the boot takes the record as it is. The core is the lemma that an accepted
patch is sound when staged: the checks look only at what the patch touches, and the cases are which
of the table, the module's pins and its switch it carries. Theorems: `ConfigInvariant`,
`ConfigTypeCorrect`, `SensorsSound`, `LoraModuleSound`, `ModeSound`.

*BleLink* (`LinkAssumption`). The three invariants are not inductive by themselves. `IInv` adds
that the frames received of a response under way are the first `seq` of it (`ResponseUnderWay`), and
that the buffer holds what was sent of a long write while it is let through, and nothing otherwise
(`LongWriteUnderWay`). Theorems: `TypeCorrect`, `AuthedIsProved`, `ResponsesAreWhole`, `WeatherIsWhole`.

**LoraNode_proofs** (`LoraAssumption`). The age the code believes of the last attempt is as close to the
truth as the deep sleeps since have slipped, in RAM and, while asleep, in the scratch register
(`GateIsHonest`); the marks of the BOOT frame and the count of frames sent agree (`BootsAreMarked`).
Theorems: `TypeCorrect`, `PeriodIsKept`, `BootFramesAreFew` and the action property
`NapsKeepTheCadence`. That there is at most one BOOT frame in a power cycle turned out to be false when
its proof failed: a wake that finds LoRa off does not restore the marks (`main.c:248`), so a LoRa
switched on afterwards sends a second one (`OneBootPerPowerCycle`, section 7).

**Scheduler_proofs** (`SchedulerConstants`). Due times are tied to the last sampling (`DueInTime`), the
tick leaves none behind it (`TickedAhead`), and the nap that is planned ends in time for all
(`NapInTime`, which needs a smallest due time to exist); `ServedInOrder` and `DayAhead` speak of the
day: unless local time went back over a midnight, no day that was served is ahead of the tick's, and the
tick's is marked. The offset may move by any amount in `Offsets`, the clock's error within `MaxError`.
Theorems: `TypeCorrect`, `SensorsAreServed`, `DailyIsOnce`, `DailyIsServed`. The last has the condition
`DayHasRoom`, found by the proof: a daily time within an iteration of midnight can be passed over
without anyone moving it.

**Station_proofs** (`StationConstants`). The invariant is a set of readings each: what is in the ring is
true to its hour, walled once the loop has noticed the clock (`RebasedOnce`), and, unless a sync strayed,
of the mode in force (`KindsKeptApart`), at every step and not only at the top; `ScanIsFresh` says
that what the fill has found is, under the lock, what there is. The ring changes by an append, a rebase
or a fill, and the lemma about each says what it leaves
(`AppendFacts`, `RebaseFacts`, `FillFacts`). The fill's loop is a recursive function, so `LoopExists`
and `FillUnfolds` first show that it is defined, by an induction over sets of numbers (`AllOfNat`).
Theorems: `TypeCorrect`, `StampsAreTrue`, `NoneIsLeftBehind`, `TopUpsAgree` and `KindsStayApart`,
for an app that switches and syncs whenever it likes.

**Requests_proofs** has the two ways the app makes the supervisor act.

*SensorBench* (`BenchAssumption`, Console's, and a client that `Waits`, as in the run; without it both
answers are refuted). `App!IInv` follows one command from the mailbox through the copy of its text and of
its pin to the result (`OneAtATime`, `TakenSoFar`) and says that once the number has moved the result is
that command's (`AnswerWaits`). A measurement leaves it alone. Theorems: `InductiveInvariant`,
`AnswersAreWhole`, `AnswersAreOwn`.

*AppRequests* (`RequestsAssumption`: of the app nothing is assumed). What the pins show holds at one
place of the loop only; `IInv` says of every place that they show the table they were *last set up for*
(`PinsAreRight`), and that the work is done with that very table (`SetUpForCopy`). A switch by the copy
that `main.c:394` refreshed may set the bit of a slot whose pin was not set up; from then on only the
first half is claimed, that every actuator's pin is driven, high or low (`Driven`). `sync_output_pins`
goes over the slots one by one, and two slots may trade pins, so the pins show neither table half-way:
`Syncing` says what is left after slot k: a slot still on has not changed if it is among the first k, a
pin is high for such a slot only, and one that is on and stays as it is has lost its pin to no other.
`Driving` says the same of the first half alone. Both are proved for each step of the loop, and of the
loop by induction. Theorems: `RequestsInvariant`, `PinsMatchSlots` and `NoOneElsesRequest`.

**SoilWindow_proofs** (`SoilWindowConstants`). Five of the operators are loops of the source, written as
recursive functions. `Throughout` and `LoopRuns` are the induction (over the *set* of steps that keep an
invariant, so that no operator has to be passed), and each loop has an invariant of its own: what is
appended is the tail of what was there and came (`IsTail`), compacting keeps the order of what it keeps
(`RankFacts`), the buckets hold each reading that was asked for and found room, and nothing else
(`Aggregated`: `Sound`, `Complete`, `Ordered`), and the records are the buckets merged by hour, all but
those of the last hour when there was no room (`Recorded`). The inductive invariant `IInv` adds to the
types that a ring that is not full starts at 0 (`RingOK`), that it holds what the station may have sampled,
in the order of the stamps (`SampledInTime`), and that the cursor is not ahead of time (`CursorBehind`); the
order of the stamps is what makes buckets come hour by hour, on which both readers rely. Theorems:

* `RingOfALog`, the refinement `Spec => RingIsALog`: a step of the ring, the rotation and compaction of
  `storage_clear_port` included, is a step of ReadingLog;
* `ForecastRests` (`ForecastIsReal`), without further hypotheses: too few buckets lead to a refusal and never
  to a window that is not real;
* `FreshSamples` (`FreshSampleIsSeen`), if there is a bucket for every series and hour and the ring takes a whole
  sampling (`RoomForAll`). The firmware does not see to the first: `SoilWindowCrowded.cfg` is the
  counterexample with a table too small, section 7. The proof counts: the buckets inject into series and
  hours (`RoomLeft`);
* `PassedHours` (`PassedHourIsWhole`), if no two ports measure the same depth of soil (`OneProbe`) and nobody
  samples on the full hour (`OffTheHour`). No room is asked for: where the table of buckets or the frame
  fills up, the cursor stops short of what was dropped. Each hypothesis is needed: of two ports with
  the same depth, the last bucket overwrites the record (with a station of two such ports TLC finds it), and a reading
  stamped on the full hour falls outside what is asked for again (`SoilWindowReplayed.cfg`).

What stays with TLC: all liveness and `ENABLED` (`RingReachesFlash`, `OwedAckGoesOut`, `CoordsGoOut`,
`QueuedSwitchHappens`, `ResponseFinishes`, `LastWriteIsAnswered`, `CommandIsAnswered`), which are out of
the prover's reach; `Sdi12!ValuesAreTheProbes`, which rests on what the decoder (a recursion from bit to
bit) and the parser (a fold over characters) compute from every line with one bit flipped, an induction
over data; and AtLink, whose property is violated.

## 7 Disagreements with the source

In each of these TLC finds what the code does against what a line of the repository says of it. Two
are runs of the project, `SoilWindowCrowded.cfg` and `AtLinkRefused.cfg`:

| Formula | The source says | The code does |
|---|---|---|
| `SoilWindow!FreshSampleIsSeen` | `lstm_input.c:66` the table is for "48 h x up to a few series/depths; sized with margin" | 208 buckets: an AquaCheck has 192 in 48 h, and a DHT11 next to it 96. What comes after is dropped, and that is the newest: a forecast is then refused as stale for as long as both are installed |
| `AtLink!JoinedIsProof` | `lora.h:13` "`joined` already proves a gateway relayed the OTAA handshake both ways" | a refused join returns at "Join failed" and leaves "+JOIN: Done" on the line, which the next join reads as its own success. With the line emptied before each command the property holds |

The others are kept as configurations, and TLC finds a counterexample to each formula: those of module M
are in `MRefuted.cfg`, one line each, all but one of them commented out, to be run one at a time with
`tlc -config MRefuted.cfg MCM`; `PassedHourIsWhole` is in `SoilWindowReplayed.cfg`. The formula is
marked "Violated" in its module, or is a property of the passing run whose assumption on the environment
(`Patient`, `MaxBad`) is dropped.

| Formula | The source says | The code does |
|---|---|---|
| `ImageStore!WindowReachesFlash` | `main.c:401` "Persist the measurement state, if anything changed" | the TA window does not set the dirty flag, so it waits for the next reading |
| `ImageStore!EveryChangeReachesFlash` | the same line | `storage_flash.c:190` reads the flag and then clears it: a reading the BLE context adds in between is in no image until something else changes the ring |
| `Scheduler!DailyOncePerLocalDay` | `scheduler.h:28` the daily cycle fires "once per LOCAL day" | an offset or a sync that takes local time back over a midnight gives the repeated day a second cycle |
| `Scheduler!NewSensorIsSampled` | `scheduler.c:71` a new sensor "would otherwise inherit the deleted one's due time" | it does, when the slot is freed and used again between two ticks |
| `LoraNode!MarkedMeansSent` | `lora_wioe5.c:543` "the backend already has the clock request and the coords" | after a deep sleep they count as sent though every uplink failed |
| `AppRequests!OutputsAlwaysMatch` | `main.c:321` "no output is left floating or energised without a slot behind it" | a switch by the copy refreshed at `main.c:394` drives a pin that was not set up for its slot: when two slots trade pins, or a second write takes the slot back, the pins no longer show what the app is told |
| `Station!RebasedIsTrue` | `main.c:305` "delta = epoch - uptime, constant for the whole power cycle" | the readings restored from an earlier boot are rebased by the offset of this one |
| `Station!WokenTimed` | `main.c:201` "no outage, no provisional readings" | a clock set after the top of the last iteration before a deep sleep leaves that iteration's readings provisional, and the boot that resumes has nothing to trigger a rebase |
| `Station!NeverMixed` | `main.c:333` "so replayed and measured soil never share a window" | a switch and a time sync, before the loop has noticed the first, fill the replay in next to what was measured, until the next top; an inference of that iteration reads both |
| `Station!TopLeavesOneKind` | `main.c:333` "start from an empty ring either way" | a switch and a sync between the snapshot and the comparison, or a second switch that takes the first back, leave both kinds after the top |
| `Station!ResetKeepsKindsApart` | the same | the switch is saved before the ring is cleared: a reset in between keeps the old readings, without any such sync |
| `BleLink!EveryWriteIsAnswered` | `ble_gatt.c:364` "EVERY path that swallows a config write must call this" | there is one slot for the result: that of a write followed at once by another is lost |
| `Sdi12!ValuesAreTheProbes` | `sensor_sdi12.c:18` what noise gets through "is flagged, never mistaken for a number" | a reply struck on both attempts is parsed as it is |
| the same, `AnyBit = TRUE` | the same | a flipped start bit, or a flipped idle bit, shifts what is read without failing a check |
| `SoilWindow!PassedHourIsWhole` | `lora_wioe5.c:321` "hourly aggregates newer than the last uplinked hour" | the hour at the cursor is asked for again, from one second past its start. When the table of 24 buckets has cut it in two, its other depth, stamped on the full hour as the replay's readings are, is never sent |
| `Clock!OutageIsPowerOff` | `clock.c:66` the gap "equals the power-off duration" | it is the time since the last *persisted sync*, which may be long before the cut |
| `Clock!AonClockWithinItsAllowance` | `main.c:206` "+/-%u ms" | the boot's 300 ms come on top |
| `Scheduler!DayIsNeverSkipped` | `scheduler.h:29` "catches up on its next tick rather than skipping the day" | a daily time moved during an iteration, close to midnight, skips it; so does, without a move, one that is less than an iteration before midnight (`DailyTimes <- MCLateTime`) |
| `Scheduler!CadenceSurvivesDeepSleep` | `scheduler.c:93` "Their own due times are untouched", `main.c:142` "so the cadence continues" | after a deep sleep the daily cycle's extra sample has moved the due time |
| `LoraNode!OneBootPerPowerCycle` | `lora_wioe5.c:544` "A second BOOT would cost airtime and a needless downlink" | a wake that finds LoRa switched off restores nothing (`main.c:248`), and LoRa switched on after it sends BOOT again |
| `LoraNode!OwedAckIsQueued` | `lora.h:46` the CFG_ACK is queued "for the next cycle" | a deep sleep in between drops it |
| `LoraNode!PingIsPlain` | `lora_wioe5.c:370` a ping "always sends the plain forecast" | it sends a queued CFG_ACK |
| `LoraNode!DueNowMeansDue` | `lora.h:37` "0 = due now" | 0 for as long as the module is silent, so the station naps 1 s at a time |
| `StationConfig!LoraPinsNeverShared` | `pinmap.c:97` LoRa's pins "are taken whether or not the radio is on" | with LoRa off they are not checked against the sensors |
| `StationConfig!CoordsComeInPairs` | `lora_codec.h:122` "the same clamps as the BLE patch" | a latitude alone is taken |
| `StationConfig!UnsavedIsDirty` | `ble_gatt.c:507` "persisted by the supervisor loop" | a refused save is forgotten |
| `AppRequests!QueuedSwitchStays` | `ble_gatt.c:305` "1 = queued for the supervisor" | overwritten by the next request |
| `AppRequests!QueuedInferenceRuns` | `ble_gatt.c:323` 1 "only if the run will actually happen" | ignored when the copy has the old mode |
| `AppRequests!SwitchedAsAsked` | `ble.h:41` "take the queued {port, on} request" | port of one request, state of another |
| `AppRequests!OnlyActuatorsAreDriven` | `main.c:503` "only a configured ACTUATOR slot drives its GPIO" | the slot of the old table does |
| `Console!AcceptedIsWhole` | `lora_wioe5.c:637` "the app's seq-gate only accepts a fully-written result" | not when a second command is under way |
| `Console!RunsWhatWasAsked` | `ble.h:36` "take the queued raw probe command + its data GPIO" | command of one request, pin of another |

After a power cut, which loses the cursor, the hour at the edge of the backlog is sent once more with
only a part of its readings; `PassedHourIsWhole` excepts that hour.

## 8 What is not modelled

Most of the 50 240 lines of `src/` are data: the network's weights (`lstm_hs30_int8_model.h`, generated)
are 41 548 of them, the replay's curve 277. The share of lines modelled is to be read against the
rest.

* Sensors other than SDI-12: DHT11, HC-SR04, DS18B20 and the analog input are one blocking read each,
  with no state between two reads.
* The predictions' ring and the raw queries: the same ring and a copy out of it.
* Points the app ingests for times of its choice (`storage_upsert_reading`): Station and SoilWindow
  speak of what the station measured.
* Handlers that run in the middle of an append, a rebase or an aggregation (`storage_flash.c:144`): a
  ring operation is one step.
* Inference beyond the gathering of its inputs: scaler, tensors, the interpreter.
* Values: readings, curves, aggregates, predictions, byte layouts, CBOR, SHA-256, the network's
  arithmetic. They are opaque where a property does not look into them, and functions without state
  that the repository's host tests cover.
* Bit timing and electrical behaviour of SDI-12, ADC and UART.
* The advertising data, the radio's suspension around a deep sleep, LED, log, identifier.
* BTstack, the Pico SDK, the phone and the LoRaWAN network: external, as the code relies on them.
* Torn 64-bit accesses (`clock.c:26`): a sync is one step.
* The optimiser's freedom over unsynchronised flags: they are read and written in program order.

## 9 Plan

Done: ImageStore, Clock, StationConfig, BleLink, LoraNode, Scheduler, Station, SensorBench, AppRequests and
SoilWindow with their proofs; AtLink with its run. Every safety property that a run of kind *pass* checks
is a theorem, but for `ValuesAreTheProbes`.

To be written, in this order:

1. **Ring** – appends, upserts and clears of the supervisor and of BLE, element by element, against
   ReadingLog; it would also replace the one-step ring of SoilWindow.
2. The clock's base as two halves (`clock.c:26`), as a variant of Clock.
3. The other sensors' drivers, as far as their failures reach the ring.

To be proved: `ValuesAreTheProbes` for a single bit struck, from the parity of a character, with the decoder
cut at the frames of the line, which a lemma would have to justify; and AtLink's `JoinedIsProof` for a
driver that empties the line before each command, should the firmware come to do so.
