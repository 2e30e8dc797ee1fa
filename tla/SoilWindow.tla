----------------------------- MODULE SoilWindow -----------------------------
(***************************************************************************)
(* The ring of readings (src/src/storage/storage_flash.c) and the two that *)
(* read its hours: the SOIL uplink, which resumes at a cursor              *)
(* (src/src/drivers/lora_wioe5.c), and the window of the on-device         *)
(* forecast (src/src/system/lstm_input.c, inference.c).                    *)
(*                                                                         *)
(* Clocked in ticks, Hour to the hour; a reading's value is left out and a *)
(* mean is the set of the stamps of the readings it is taken over.  The    *)
(* ring's image is taken to be current when a reset comes (ImageStore) and *)
(* stamps are wall times (Station); one port measures soil, and the        *)
(* air-temperature window is full or not.  The readings the app ingests    *)
(* for past times are not modelled.                                        *)
(***************************************************************************)
EXTENDS Integers, FiniteSets, FiniteSetsExt, SequencesExt

CONSTANTS
  Cap,       \* SAVIA_READINGS_CAP
  Stations,  \* its inference mode; the depths each port measures, 0 not being soil;
             \* the ticks of an hour it may sample at; the last tick looked at
  Hour,      \* ticks of an hour
  Lookback,  \* hours of backlog an uplink takes
  RecsMax,   \* LORA_SOIL_RECS_MAX
  UplinkAggs, WindowAggs, \* room for aggregates of the two readers
  Past, MinReal, MaxGap   \* LSTM_PAST_STEPS, LSTM_MIN_PAST_HOURS, LSTM_MAX_GAP_HOURS

ASSUME SoilWindowConstants ==
  /\ {Cap, Hour, Lookback, RecsMax, UplinkAggs, WindowAggs, Past, MinReal} \subseteq Nat \ {0}
  /\ MaxGap \in Nat /\ MinReal <= Past /\ IsFiniteSet(Stations)
  /\ \A st \in Stations : /\ st.mode \in {"forward", "local"} /\ st.ports \in Seq(Seq(Nat))
                          /\ st.at \subseteq 0..(Hour - 1) /\ st.last \in Nat /\ Hour <= st.last

Soil == {10, 30}
NoReading == [ts |-> 0, port |-> 0, depth |-> 0]

VARIABLES
  station,  \* its configuration
  now,
  rd, head, count, \* s_rd, s_rd_head, s_rd_count
  cursor,   \* s_last_soil_hour_s, as an hour
  lastRec,  \* (ghost) of each hour and depth, what the last record that went out covers
  oldest,   \* (ghost) the first stamp the last SOIL frame could cover
  forecast  \* (ghost) what the inference that has just run found, and from which ports

ring == <<rd, head, count>>
sent == <<cursor, lastRec, oldest>>
vars == <<station, now, ring, sent, forecast>>

HourOf(ts) == ts \div Hour
Hours == 1..HourOf(Max({st.last : st \in Stations}))
NoForecast == [status |-> "none", asked |-> {}, hour |-> 0, window |-> <<>>]

-----------------------------------------------------------------------------
(* The ring.                                                               *)

Start(n, h) == IF n < Cap THEN 0 ELSE h

Ring == [rd |-> rd, head |-> head, count |-> count]

\* storage_reading_at, for every index: the readings, oldest first.
OrderOf(q) == [i \in 1..q.count |-> q.rd[(Start(q.count, q.head) + i - 1) % Cap]]
InOrder == OrderOf(Ring)

AppendTo(q, r) ==
  [rd |-> [q.rd EXCEPT ![q.head] = r], head |-> (q.head + 1) % Cap,
   count |-> IF q.count < Cap THEN q.count + 1 ELSE Cap]

Put(q) == rd' = q.rd /\ head' = q.head /\ count' = q.count

\* The readings of s are stored one after the other.
Appended(q, s) ==
  LET upTo[i \in 0..Len(s)] == IF i = 0 THEN q ELSE AppendTo(upTo[i - 1], s[i])
  IN upTo[Len(s)]

\* What a port answers: all its depths.
Sampled(p) ==
  [i \in DOMAIN station.ports[p] |-> [ts |-> now, port |-> p, depth |-> station.ports[p][i]]]

\* capture_slots: port by port, those that answer.
Captured(ports) ==
  LET upTo[p \in 0..Len(station.ports)] ==
        IF p = 0 THEN Ring
        ELSE IF p \in ports THEN Appended(upTo[p - 1], Sampled(p)) ELSE upTo[p - 1]
  IN upTo[Len(station.ports)]

\* rd_reverse of the slice [a, b).
Reversed(f, a, b) == [i \in DOMAIN f |-> IF i \in a..(b - 1) THEN f[a + b - 1 - i] ELSE f[i]]

\* Mutant: the second block is left as the first reversal found it.
NormalisedTwice(f, s) == Reversed(Reversed(f, 0, s), 0, Cap)

\* rd_normalise: three reversals bring the oldest to index 0.
Normalised(f, s) == Reversed(Reversed(Reversed(f, 0, s), s, Cap), 0, Cap)

\* storage_clear_port: what is kept moves up, in place; then the ring is cut there.
KeepOthers(q, i, p) ==
  IF q.rd[i].port = p THEN q
  ELSE [rd |-> [q.rd EXCEPT ![q.kept] = q.rd[i]], kept |-> q.kept + 1]

Compacted(f, p) ==
  LET upTo[i \in 0..count] ==
        IF i = 0 THEN [rd |-> f, kept |-> 0] ELSE KeepOthers(upTo[i - 1], i - 1, p)
  IN upTo[count]

WithoutPort(p) ==
  LET s == Start(count, head)
      q == Compacted(IF s = 0 THEN rd ELSE Normalised(rd, s), p)
  IN [rd |-> q.rd, head |-> q.kept % Cap, count |-> q.kept]

\* storage_restore of what storage_serialize wrote.
Restored == [rd |-> [i \in DOMAIN rd |-> IF i < count THEN InOrder[i + 1] ELSE NoReading],
             head |-> count % Cap, count |-> count]

-----------------------------------------------------------------------------
(* storage_aggregate_hourly: one bucket for each hour, port and depth, in  *)
(* the order of their first reading; a bucket there is no room for is      *)
(* dropped.                                                                *)
Into(from, to, room, buckets, r) ==
  LET mine == {k \in DOMAIN buckets : /\ buckets[k].hour = HourOf(r.ts)
                                      /\ buckets[k].port = r.port /\ buckets[k].depth = r.depth}
  IN IF r.ts < from \/ r.ts >= to THEN buckets
     ELSE IF mine # {}
     THEN [k \in DOMAIN buckets |-> IF k \in mine THEN [buckets[k] EXCEPT !.of = @ \cup {r.ts}]
                                    ELSE buckets[k]]
     ELSE IF Len(buckets) >= room THEN buckets
     ELSE Append(buckets, [hour |-> HourOf(r.ts), port |-> r.port, depth |-> r.depth, of |-> {r.ts}])

Aggregate(readings, from, to, room) ==
  LET upTo[i \in 0..Len(readings)] ==
        IF i = 0 THEN <<>> ELSE Into(from, to, room, upTo[i - 1], readings[i])
  IN upTo[Len(readings)]

-----------------------------------------------------------------------------
(* The SOIL uplink.                                                        *)

Larger(a, b) == IF a > b THEN a ELSE b

\* Mutant: the cursor's own hour is taken to be done with.
FromAfterHour == Larger((cursor + 1) * Hour, now - Lookback * Hour)

\* One second after the cursor's hour begins, or the lookback.
From == Larger(cursor * Hour + 1, now - Lookback * Hour)

\* build_soil_recs: buckets are merged into a record for each hour until there
\* is no room for another record.
AddToRecs(recs, b) ==
  LET with == IF \E k \in DOMAIN recs : recs[k].hour = b.hour THEN recs
              ELSE Append(recs, [hour |-> b.hour, of |-> [dep \in Soil |-> {}]])
  IN IF Len(recs) >= RecsMax THEN recs
     ELSE [k \in DOMAIN with |-> IF with[k].hour = b.hour /\ b.depth \in Soil
                                 THEN [with[k] EXCEPT !.of[b.depth] = b.of] ELSE with[k]]

RecsOf(aggs) ==
  LET upTo[i \in 0..Len(aggs)] == IF i = 0 THEN <<>> ELSE AddToRecs(upTo[i - 1], aggs[i])
  IN upTo[Len(aggs)]

SoilRecs == RecsOf(Aggregate(InOrder, From, now, UplinkAggs))

-----------------------------------------------------------------------------
(* The window of the forecast: fill_series for one depth, of the hour and  *)
(* the Past - 1 before it.                                                 *)
Slots == 1..Past
SlotHour(k) == HourOf(now) - Past + k

Real(aggs, dep) ==
  [k \in Slots |-> UNION {b.of : b \in {x \in Range(aggs) : x.depth = dep /\ x.hour = SlotHour(k)}}]

Present(series) == {k \in Slots : series[k] # {}}

\* Mutant: a missing hour takes the next one that is there.
FilledAhead(series) ==
  [k \in Slots |-> series[LET later == {j \in Present(series) : j >= k}
                          IN IF later = {} THEN Max(Present(series)) ELSE Min(later)]]

\* A leading gap takes the first hour there is, any other the one before it.
Filled(series) ==
  [k \in Slots |-> series[LET before == {j \in Present(series) : j <= k}
                          IN IF before = {} THEN Min(Present(series)) ELSE Max(before)]]

NewestAge(series) == Past - Max(Present(series))

\* The longest run of hours without a reading between two that have one.
WorstGap(series) ==
  Max({0} \cup {g \in Slots : \E a \in Present(series) :
                   /\ a + g + 1 \in Present(series)
                   /\ \A c \in 1..g : a + c \notin Present(series)})

\* Mutant: the window ends where the hour begins.
WindowToTheHour == HourOf(now) * Hour

\* The window takes in the hour that is under way.
WindowTo == (HourOf(now) + 1) * Hour

\* lstm_gather_inputs: the checks, in their order.
Gathered(readings, ports, taFull) ==
  LET aggs == Aggregate(readings, SlotHour(1) * Hour, WindowTo, WindowAggs)
      series == [dep \in Soil |-> Real(aggs, dep)]
      status == IF \E dep \in Soil : Cardinality(Present(series[dep])) < MinReal THEN "short"
                ELSE IF \E dep \in Soil : NewestAge(series[dep]) > 0 THEN "stale"
                ELSE IF \E dep \in Soil : WorstGap(series[dep]) > MaxGap THEN "gap"
                ELSE IF ~taFull THEN "no_forecast" ELSE "ok"
  IN [status |-> status, asked |-> ports, hour |-> HourOf(now),
      window |-> IF status = "ok" THEN [dep \in Soil |-> Filled(series[dep])] ELSE <<>>]

-----------------------------------------------------------------------------
Init ==
  /\ station \in Stations
  /\ now = Hour
  /\ rd = [i \in 0..(Cap - 1) |-> NoReading] /\ head = 0 /\ count = 0
  /\ cursor = 0 /\ lastRec = [h \in Hours |-> [dep \in Soil |-> {}]] /\ oldest = 0
  /\ forecast = NoForecast

Tick ==
  /\ now < station.last /\ now' = now + 1
  /\ forecast' = NoForecast /\ UNCHANGED <<station, ring, sent>>

MaySample == now % Hour \in station.at /\ \A r \in Range(InOrder) : r.ts < now

\* The scheduled sampling.
Capture ==
  /\ MaySample
  /\ \E ports \in SUBSET DOMAIN station.ports : Put(Captured(ports))
  /\ forecast' = NoForecast /\ UNCHANGED <<station, now, sent>>

\* The app frees a slot (storage_clear_port) or clears the store (storage_clear).
Delete ==
  /\ \/ \E p \in DOMAIN station.ports : Put(WithoutPort(p))
     \/ rd' = rd /\ head' = 0 /\ count' = 0
  /\ forecast' = NoForecast /\ UNCHANGED <<station, now, sent>>

\* A FORWARD cycle: the frame may be on the air and still time out, and only
\* "Done" moves the cursor.
Uplink ==
  LET recs == SoilRecs
  IN /\ station.mode = "forward" /\ recs # <<>>
     /\ lastRec' = [h \in Hours |-> IF \E r \in Range(recs) : r.hour = h
                                    THEN (CHOOSE r \in Range(recs) : r.hour = h).of
                                    ELSE lastRec[h]]
     /\ \/ cursor' = Max({r.hour : r \in Range(recs)} \cup {cursor}) /\ oldest' = now - Lookback * Hour
        \/ UNCHANGED <<cursor, oldest>>
     /\ forecast' = NoForecast /\ UNCHANGED <<station, now, ring>>

\* The daily or on-demand inference, which samples first.
Infer ==
  /\ station.mode = "local" /\ MaySample
  /\ \E ports \in SUBSET DOMAIN station.ports, taFull \in BOOLEAN :
       LET q == Captured(ports)
       IN Put(q) /\ forecast' = Gathered(OrderOf(q), ports, taFull)
  /\ UNCHANGED <<station, now, sent>>

\* A deep sleep keeps the cursor in a scratch register, a power cut does not.
Reset ==
  /\ Put(Restored)
  /\ cursor' \in {0, cursor}
  /\ forecast' = NoForecast /\ UNCHANGED <<station, now, lastRec, oldest>>

Next == Tick \/ Capture \/ Delete \/ Uplink \/ Infer \/ Reset

Spec == Init /\ [][Next]_vars

-----------------------------------------------------------------------------
Reading == [ts : Nat, port : Nat, depth : Nat]

\* The variables keep their types.
TypeOK ==
  /\ station \in Stations /\ now \in Hour..station.last
  /\ rd \in [0..(Cap - 1) -> Reading] /\ head \in 0..(Cap - 1) /\ count \in 0..Cap
  /\ cursor \in {0} \cup Hours /\ oldest \in Int /\ DOMAIN lastRec = Hours
  /\ forecast.status \in {"none", "short", "stale", "gap", "no_forecast", "ok"}

(* Through resets, deletions and the ring coming round, what storage_flash.c *)
(* holds is a log of the last Cap readings in the order they were taken      *)
(* (ReadingLog); a reading is never lost, doubled or put out of order by     *)
(* normalising, compacting or restoring the ring.                            *)
Log == INSTANCE ReadingLog WITH log <- InOrder, Readings <- Reading
RingIsALog == Log!Spec

(* An hour the SOIL cursor has gone past is done with: the last record the   *)
(* network was sent for it (lora_wioe5.c) covers every reading of it that    *)
(* the ring still holds, at both depths - unless it began before the backlog *)
(* of the last frame, which may have cut it in two.                          *)
PassedHourIsWhole ==
  \A r \in Range(InOrder) :
    LET h == r.ts \div Hour
    IN r.depth \in Soil /\ h < cursor /\ h * Hour >= oldest => r.ts \in lastRec[h][r.depth]

(* What the model is fed (lstm_input.c): every step is the mean of one hour, *)
(* no later than its own and at most MaxGap hours before it, save the steps  *)
(* before the first hour there is, which all take that one; the last step is *)
(* of the hour being forecast from, and MinReal hours at least are real.     *)
ForecastIsReal ==
  forecast.status = "ok" =>
    \A dep \in Soil :
      LET w == forecast.window[dep]
          own(k) == {t \div Hour : t \in w[k]}
          step(k) == forecast.hour - Past + k
      IN /\ own(Past) = {forecast.hour}
         /\ Cardinality({w[k] : k \in 1..Past}) >= MinReal
         /\ \A k \in 1..Past : \E h \in 1..forecast.hour :
              /\ own(k) = {h}
              /\ h > step(k) - MaxGap - 1
              /\ h <= step(k) \/ \A j \in 1..k : w[j] = w[k]

(* An inference samples first, so that a station whose probe has just        *)
(* answered for both depths is not refused as stale (lstm_input.h:34-37).    *)
(* With sensors for more buckets than WindowAggs it is violated.             *)
FreshSampleIsSeen ==
  forecast.status = "stale" =>
    \E dep \in Soil : \A p \in forecast.asked : dep \notin Range(station.ports[p])

(* Why they do.                                                              *)

\* A ring that is not full has not come round.
RingOK == count < Cap => head = count

\* What it holds was sampled by the station's ports, when it may, in that order.
SampledInTime ==
  /\ \A i \in 1..count :
       LET r == InOrder[i]
       IN /\ r.ts \in Hour..now /\ r.ts % Hour \in station.at
          /\ r.port \in DOMAIN station.ports /\ r.depth \in Range(station.ports[r.port])
  /\ \A i, j \in 1..count : i <= j => InOrder[i].ts <= InOrder[j].ts

\* The cursor is not ahead of time.
CursorBehind == cursor <= HourOf(now) /\ oldest <= Larger(0, now - Lookback * Hour)

IInv == TypeOK /\ RingOK /\ SampledInTime /\ CursorBehind
=============================================================================
