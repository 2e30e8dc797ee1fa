-------------------------- MODULE Scheduler_proofs --------------------------
(***************************************************************************)
(* Proofs about Scheduler for any slots, intervals and daily times, any    *)
(* length of the day and of an iteration's work, any error of the clock    *)
(* and any UTC offset: the wait of a sensor, and the one daily cycle of    *)
(* every local day.                                                        *)
(***************************************************************************)
EXTENDS Scheduler, WellFoundedInduction, TLAPS

LEMMA Numbers ==
  /\ Day \in Nat /\ Day > 0 /\ Second \in Nat /\ Second > 0 /\ SleepCap \in Nat /\ SleepCap > 0
  /\ MaxInterval \in Nat /\ MaxWork \in Nat /\ MaxTail \in Nat /\ Start \in Nat
  /\ \A x \in Intervals : x \in Nat /\ x > 0 /\ x <= MaxInterval
  /\ \A w \in Works : w \in Nat /\ w <= MaxWork
  /\ \A t \in Tails : t \in Nat /\ t <= MaxTail
  /\ \A t \in DailyTimes : t \in Nat /\ t < Day
  /\ \A d \in Outages : d \in Nat
  /\ MaxError \in Nat /\ Start > MaxError /\ 0 \in Errors
  /\ \A e \in Errors : e \in Int /\ -MaxError <= e /\ e <= MaxError
  /\ \A o \in Offsets : o \in Int /\ Start + o >= MaxError
  /\ Late \in Nat
BY SchedulerConstants DEF Late

-----------------------------------------------------------------------------
(* Days, intervals and seconds *)

\* A number of whole units, and what is left.
LEMMA WholeUnits ==
  ASSUME NEW a \in Nat, NEW s \in Nat, s > 0
  PROVE  /\ a \div s \in Nat
         /\ s * (a \div s) \in Nat
         /\ s * (a \div s) <= a /\ a < s * (a \div s) + s
         /\ a % s = a - s * (a \div s)
<1>1. a \div s \in Nat
  OBVIOUS
<1>2. a % s \in 0..(s - 1)
  OBVIOUS
<1>3. a % s = a - s * (a \div s)
  OBVIOUS
<1>4. s * (a \div s) \in Nat
  BY <1>1
<1>5. QED
  <2> DEFINE q == s * (a \div s)
             r == a % s
  <2>1. r \in Int /\ r >= 0 /\ r < s /\ r = a - q /\ q \in Nat
    BY <1>2, <1>3, <1>4
  <2>2. q <= a /\ a < q + s
    <3> HIDE DEF q, r
    <3>1. QED
      BY <2>1
  <2>3. QED
    BY <1>1, <2>1, <2>2

\* A set of numbers has a smallest.
LEMMA SmallestExists ==
  ASSUME NEW S \in SUBSET Nat, S # {}
  PROVE  \E x \in S : \A y \in S : x <= y
<1>1. PICK x \in S : \A y \in S : ~ (<<y, x>> \in OpToRel(<, Nat))
  BY WFMin, NatLessThanWellFounded
<1>2. \A y \in S : y \in Nat /\ ~ (y < x)
  BY <1>1 DEF OpToRel
<1>3. QED
  BY <1>2

LEMMA DayBounds ==
  ASSUME NEW t \in Nat
  PROVE  /\ DayOf(t) \in Nat /\ DayOf(t) * Day \in Nat
         /\ (DayOf(t) + 1) * Day = DayOf(t) * Day + Day
         /\ DayOf(t) * Day <= t /\ t < DayOf(t) * Day + Day
         /\ t % Day = t - DayOf(t) * Day
<1>1. DayOf(t) \in Nat /\ Day * DayOf(t) \in Nat /\ Day * DayOf(t) <= t
      /\ t < Day * DayOf(t) + Day /\ t % Day = t - Day * DayOf(t)
  BY Numbers, WholeUnits DEF DayOf
<1>2. DayOf(t) * Day = Day * DayOf(t) /\ (DayOf(t) + 1) * Day = DayOf(t) * Day + Day
  BY <1>1, Numbers
<1>3. QED
  BY <1>1, <1>2

\* Later is no earlier a day.
LEMMA DaysInOrder ==
  ASSUME NEW t \in Nat, NEW u \in Nat, t <= u
  PROVE  DayOf(t) <= DayOf(u)
<1> DEFINE p == DayOf(t)
           q == DayOf(u)
<1>1. p \in Nat /\ q \in Nat /\ p * Day <= t /\ u < (q + 1) * Day
  BY DayBounds
<1>2. ASSUME q + 1 <= p PROVE FALSE
  <2>1. (q + 1) * Day <= p * Day
    <3> HIDE DEF p, q
    <3>1. p - (q + 1) \in Nat
      BY <1>1, <1>2
    <3>2. (p - (q + 1)) * Day \in Nat
      BY <3>1, Numbers
    <3>3. p * Day = (q + 1) * Day + (p - (q + 1)) * Day
      BY <1>1, Numbers
    <3>4. (q + 1) * Day \in Nat
      BY <1>1, Numbers
    <3>5. QED
      BY <3>2, <3>3, <3>4
  <2>2. p * Day \in Nat /\ (q + 1) * Day \in Nat
    BY <1>1, Numbers
  <2>3. QED
    BY <1>1, <2>1, <2>2
<1>3. QED
  BY <1>1, <1>2

\* What is before the end of a day is on that day or before.
LEMMA WithinTheDay ==
  ASSUME NEW t \in Nat, NEW u \in Nat, u < (DayOf(t) + 1) * Day
  PROVE  DayOf(u) <= DayOf(t)
<1> DEFINE p == DayOf(t)
           q == DayOf(u)
<1>1. p \in Nat /\ q \in Nat /\ q * Day <= u /\ u < (p + 1) * Day
  BY DayBounds
<1>2. ASSUME p + 1 <= q PROVE FALSE
  <2> HIDE DEF p, q
  <2>1. (q - (p + 1)) * Day \in Nat /\ (p + 1) * Day \in Nat
    BY <1>1, <1>2, Numbers
  <2>2. q * Day = (p + 1) * Day + (q - (p + 1)) * Day
    BY <1>1, Numbers
  <2>3. QED
    BY <1>1, <2>1, <2>2
<1>3. QED
  BY <1>1, <1>2

\* The next due time is the first one ahead.
LEMMA NextDueIsAhead ==
  ASSUME NEW i \in Slots, Clock \in Nat, slot[i] \in Nat, slot[i] > 0, next[i] \in Nat,
         next[i] = 0 \/ next[i] <= Clock
  PROVE  NextDue(i) \in Nat /\ NextDue(i) > Clock /\ NextDue(i) <= Clock + slot[i]
<1> DEFINE c == Clock
           base == IF next[i] = 0 THEN c ELSE next[i]
           s == slot[i]
           k == (c - base) \div s
<1>1. base \in Nat /\ base <= c /\ c - base \in Nat /\ s \in Nat /\ s > 0 /\ c \in Nat
  OBVIOUS
<1>2. k \in Nat /\ s * k \in Nat /\ s * k <= c - base /\ c - base < s * k + s
  <2> HIDE DEF c, base, s
  <2>1. QED
    BY <1>1, WholeUnits
<1>3. s * (k + 1) = s * k + s
  <2> HIDE DEF c, base, s, k
  <2>1. QED
    BY <1>1, <1>2
<1>4. NextDue(i) = base + s * (k + 1)
  BY DEF NextDue
<1>5. /\ base + s * (k + 1) \in Nat
      /\ base + s * (k + 1) > c /\ base + s * (k + 1) <= c + s
  <2> HIDE DEF c, base, s, k
  <2>1. QED
    BY <1>1, <1>2, <1>3
<1>6. QED
  BY <1>4, <1>5

\* A nap is at least a second, and ends before each reason's time and a second.
LEMMA NapIsShort ==
  ASSUME UntilDaily \in Nat, UntilDaily > 0,
         \A i \in Used : UntilDue(i) \in Nat /\ UntilDue(i) > 0
  PROVE  /\ NapLength \in Nat
         /\ NapLength < UntilDaily + Second
         /\ \A i \in Used : NapLength < UntilDue(i) + Second
<1> DEFINE reasons == {SleepCap, UntilDaily} \union {UntilDue(i) : i \in Used}
           shortest == CHOOSE t \in reasons : \A u \in reasons : t <= u
           seconds == (shortest + Second - 1) \div Second
<1>1. reasons \in SUBSET Nat /\ reasons # {} /\ \A t \in reasons : t > 0
  BY Numbers
<1>2. \E t \in reasons : \A u \in reasons : t <= u
  <2> HIDE DEF reasons
  <2>1. QED
    BY <1>1, SmallestExists
<1>3. shortest \in reasons /\ \A u \in reasons : shortest <= u
  <2> HIDE DEF reasons
  <2>1. QED
    BY <1>2
<1>4. shortest \in Nat /\ shortest > 0 /\ shortest + Second - 1 \in Nat
  <2> HIDE DEF reasons, shortest
  <2>1. QED
    BY <1>1, <1>3, Numbers
<1>5. seconds \in Nat /\ Second * seconds \in Nat /\ Second * seconds <= shortest + Second - 1
      /\ shortest + Second - 1 < Second * seconds + Second
  <2> HIDE DEF shortest
  <2>1. QED
    BY <1>4, Numbers, WholeUnits
<1>6. seconds # 0
  <2> HIDE DEF shortest
  <2>1. SUFFICES ASSUME seconds = 0 PROVE FALSE
    OBVIOUS
  <2>2. Second * seconds = 0
    BY <2>1, Numbers
  <2> HIDE DEF seconds
  <2>3. QED
    BY <1>4, <1>5, <2>2, Numbers
<1>7. NapLength = Second * seconds
  <2>1. NapLength = Second * (IF seconds = 0 THEN 1 ELSE seconds)
    BY DEF NapLength
  <2> HIDE DEF seconds
  <2>2. QED
    BY <1>6, <2>1
<1>8. UntilDaily \in reasons /\ \A i \in Used : UntilDue(i) \in reasons
  OBVIOUS
<1>9. QED
  <2> HIDE DEF reasons, shortest, seconds
  <2>1. NapLength \in Nat /\ NapLength < shortest + Second
    BY <1>4, <1>5, <1>7, Numbers
  <2>2. QED
    BY <1>3, <1>4, <1>8, <2>1, Numbers

-----------------------------------------------------------------------------
(* Facts about a state *)

WaitOK == DueInTime /\ TickedAhead /\ NapInTime /\ NoSensorStarves
DailyOK == ServedInOrder /\ OneDailyPerDay /\ DayAhead /\ DayIsServed

LEMMA ScalarFacts ==
  ASSUME TypeOK
  PROVE  /\ now \in Nat /\ now >= Start /\ tickNow \in Nat /\ wakeAt \in Nat
         /\ dailyAt \in Nat /\ dailyAt < Day
         /\ lastDay \in Int /\ lastDay >= -1 /\ tickDay \in Int /\ tickDay >= -1
         /\ err \in Int /\ -MaxError <= err /\ err <= MaxError
         /\ offset \in Int /\ Start + offset >= MaxError
         /\ Used \subseteq Slots /\ \A i \in Used : slot[i] # 0
BY Numbers DEF TypeOK, Used

\* The clock is off by its error, and reads a positive time, also as local time.
LEMMA ClockFacts ==
  ASSUME TypeOK
  PROVE  /\ Clock \in Nat /\ Clock > 0 /\ Clock <= now + MaxError /\ now - MaxError <= Clock
         /\ Local(Clock) \in Nat /\ Local(Clock) <= Local(now) + MaxError /\ Local(now) \in Int
         /\ Today \in Nat
<1>1. /\ Clock \in Nat /\ Clock > 0 /\ Clock <= now + MaxError /\ now - MaxError <= Clock
      /\ Local(Clock) \in Nat /\ Local(Clock) <= Local(now) + MaxError /\ Local(now) \in Int
  BY ScalarFacts, Numbers DEF Clock, Local
<1>2. QED
  BY <1>1, DayBounds DEF Today

LEMMA SlotFacts ==
  ASSUME TypeOK, NEW i \in Slots
  PROVE  /\ slot[i] \in Intervals \union {0} /\ slot[i] \in Nat /\ slot[i] <= MaxInterval
         /\ slot[i] # 0 => slot[i] > 0
         /\ next[i] \in Nat /\ next[i] <= now + MaxError + MaxInterval
         /\ newest[i] \in Nat /\ newest[i] <= now + MaxError
         /\ sampledAt[i] \in Nat /\ sampledAt[i] <= now
         /\ span[i] \in Intervals \union {0} /\ span[i] \in Nat
<1>1. slot[i] \in Intervals \union {0} /\ span[i] \in Intervals \union {0}
      /\ next[i] \in 0..(now + MaxError + MaxInterval) /\ newest[i] \in 0..(now + MaxError)
      /\ sampledAt[i] \in 0..now /\ now \in Nat
  BY DEF TypeOK
<1>2. QED
  BY <1>1, Numbers

\* The daily time is ahead by a day at the most; and on a day not yet served,
\* by what is left to it.
LEMMA DailyIsAhead ==
  ASSUME TypeOK, Local(tickNow) \in Nat
  PROVE  LET local == Local(tickNow)
             start == DayOf(local) * Day
         IN /\ UntilDaily \in Nat /\ UntilDaily > 0
            /\ local < start + dailyAt /\ lastDay # DayOf(local)
                 => UntilDaily = (start + dailyAt) - local
<1> DEFINE local == Local(tickNow)
           start == DayOf(local) * Day
<1>1. start \in Nat /\ local \in Nat /\ start <= local /\ local < start + Day
      /\ dailyAt \in Nat /\ Day \in Nat
  BY ScalarFacts, DayBounds, Numbers
<1>2. CASE local < start + dailyAt /\ lastDay # DayOf(local)
  <2>1. UntilDaily = (start + dailyAt) - local
    BY <1>1, <1>2 DEF UntilDaily
  <2> HIDE DEF start, local
  <2>2. UntilDaily \in Nat /\ UntilDaily > 0
    BY <1>1, <1>2, <2>1
  <2>3. QED
    BY <2>1, <2>2 DEF start, local
<1>3. CASE ~ (local < start + dailyAt /\ lastDay # DayOf(local))
  <2>1. UntilDaily = start + dailyAt + (Day - local)
    BY <1>3 DEF UntilDaily
  <2> HIDE DEF start, local
  <2>2. UntilDaily \in Nat /\ UntilDaily > 0
    BY <1>1, <2>1
  <2>3. QED
    BY <1>3, <2>2 DEF start, local
<1>4. QED
  BY <1>2, <1>3

LEMMA InitIsGood == Init => IInv
<1> SUFFICES ASSUME Init PROVE IInv
  OBVIOUS
<1>1. Start \in Nat /\ MaxError \in Nat /\ MaxInterval \in Nat /\ now = Start
  BY Numbers DEF Init
<1>2. TypeOK
  <2>1. moved \in BOOLEAN /\ again \in BOOLEAN /\ back \in BOOLEAN
    BY DEF Init
  <2>2. now \in Nat /\ now >= Start /\ wakeAt \in Nat /\ tickNow \in 0..(now + MaxError)
    BY <1>1 DEF Init
  <2>3. next \in [Slots -> 0..(now + MaxError + MaxInterval)] /\ newest \in [Slots -> 0..(now + MaxError)]
        /\ sampledAt \in [Slots -> 0..now]
    BY <1>1 DEF Init
  <2>4. lastDay \in Nat \union {-1} /\ tickDay \in Nat \union {-1} /\ served \in SUBSET Nat
    BY DEF Init
  <2>5. err \in Errors
    BY Numbers DEF Init
  <2>6. QED
    BY <2>1, <2>2, <2>3, <2>4, <2>5 DEF Init, TypeOK
<1>3. WaitOK
  <2>1. DueInTime
    <3> SUFFICES ASSUME NEW i \in Slots
                 PROVE  slot[i] <= span[i] /\ newest[i] <= sampledAt[i] + MaxError
                        /\ next[i] <= sampledAt[i] + MaxError + span[i]
      BY DEF DueInTime
    <3>1. next[i] = 0 /\ newest[i] = 0 /\ span[i] = slot[i]
      BY DEF Init
    <3>2. QED
      BY <1>1, <1>2, <3>1, SlotFacts
  <2>2. NoSensorStarves
    <3> SUFFICES ASSUME NEW i \in Used
                 PROVE  now <= sampledAt[i] + span[i] + Late + 2 * MaxError
      BY DEF NoSensorStarves
    <3>1. i \in Slots /\ sampledAt[i] = now
      BY DEF Init, Used
    <3>2. QED
      BY <1>2, <3>1, SlotFacts, Numbers
  <2>3. QED
    BY <2>1, <2>2 DEF Init, WaitOK, TickedAhead, NapInTime
<1>4. DailyOK
  BY DEF Init, DailyOK, ServedInOrder, OneDailyPerDay, DayAhead, DayIsServed
<1>5. QED
  BY <1>2, <1>3, <1>4 DEF IInv, WaitOK, DailyOK

-----------------------------------------------------------------------------
(* The tick *)

\* One tick leaves a slot that is in use due ahead, and its wait within its
\* interval; it leaves a free one blank.
LEMMA TickedSlot ==
  ASSUME TypeOK, DueInTime, Tick, NEW i \in Slots
  PROVE  /\ next'[i] \in 0..(now + MaxError + MaxInterval)
         /\ newest'[i] \in 0..(now + MaxError) /\ sampledAt'[i] \in 0..now
         /\ span'[i] \in Intervals \union {0}
         /\ slot'[i] = slot[i] /\ slot[i] <= span'[i] /\ newest'[i] <= sampledAt'[i] + MaxError
         /\ next'[i] <= sampledAt'[i] + MaxError + span'[i]
         /\ slot[i] # 0 => next'[i] > Clock
<1> DEFINE sampled == IF DailyDue THEN Used ELSE {j \in Slots : Due(j)}
           c == Clock
<1>0. /\ slot[i] \in Intervals \union {0} /\ slot[i] \in Nat /\ slot[i] <= MaxInterval
      /\ slot[i] # 0 => slot[i] > 0
      /\ next[i] \in Nat /\ next[i] <= now + MaxError + MaxInterval
      /\ newest[i] \in Nat /\ newest[i] <= now + MaxError
      /\ sampledAt[i] \in Nat /\ sampledAt[i] <= now
      /\ span[i] \in Intervals \union {0} /\ span[i] \in Nat
      /\ now \in Nat /\ MaxInterval \in Nat /\ MaxError \in Nat
      /\ c \in Nat /\ c > 0 /\ c <= now + MaxError
  BY SlotFacts, ScalarFacts, ClockFacts, Numbers
<1>1. /\ slot[i] <= span[i] /\ newest[i] <= sampledAt[i] + MaxError
      /\ next[i] <= sampledAt[i] + MaxError + span[i]
  BY DEF DueInTime
<1>2. slot'[i] = slot[i]
  BY DEF Tick, config
<1>3. /\ next'[i] = IF slot[i] = 0 THEN 0 ELSE IF Due(i) THEN NextDue(i) ELSE next[i]
      /\ sampledAt'[i] = IF i \in sampled \/ slot[i] = 0 THEN now ELSE sampledAt[i]
      /\ span'[i] = IF Due(i) \/ slot[i] = 0 THEN slot[i] ELSE span[i]
  BY DEF Tick
<1>4. newest'[i] = newest[i] \/ (newest'[i] = c /\ i \in sampled)
  <2>1. PICK answered \in SUBSET sampled :
          newest' = [j \in Slots |-> IF j \in answered THEN c ELSE newest[j]]
    BY DEF Tick
  <2>2. QED
    BY <2>1
<1>5. sampledAt'[i] = now \/ (sampledAt'[i] = sampledAt[i] /\ i \notin sampled)
  BY <1>3
<1>6. CASE slot[i] = 0
  <2>1. next'[i] = 0 /\ sampledAt'[i] = now /\ span'[i] = 0
    BY <1>3, <1>6
  <2> HIDE DEF c, sampled
  <2>2. QED
    BY <1>0, <1>2, <1>4, <1>6, <2>1
<1>7. CASE slot[i] # 0 /\ Due(i)
  <2>1. NextDue(i) \in Nat /\ NextDue(i) > c /\ NextDue(i) <= c + slot[i]
    BY <1>0, <1>7, NextDueIsAhead DEF Due
  <2>2. i \in sampled
    BY <1>7 DEF Used
  <2>3. next'[i] = NextDue(i) /\ span'[i] = slot[i] /\ sampledAt'[i] = now
    BY <1>3, <1>7, <2>2
  <2>4. slot[i] # 0 => next'[i] > Clock
    BY <2>1, <2>3
  <2> HIDE DEF c, sampled
  <2>5. QED
    BY <1>0, <1>2, <1>4, <1>7, <2>1, <2>3, <2>4
<1>8. CASE slot[i] # 0 /\ ~ Due(i)
  <2>1. next'[i] = next[i] /\ span'[i] = span[i] /\ next[i] > c
    BY <1>0, <1>3, <1>8 DEF Due
  <2>2. slot[i] # 0 => next'[i] > Clock
    BY <2>1
  <2> HIDE DEF c, sampled
  <2>3. newest'[i] <= sampledAt'[i] + MaxError /\ sampledAt[i] <= sampledAt'[i]
        /\ sampledAt'[i] \in Nat /\ sampledAt'[i] <= now /\ newest'[i] \in Nat
        /\ newest'[i] <= now + MaxError
    BY <1>0, <1>1, <1>4, <1>5
  <2>4. QED
    BY <1>0, <1>1, <1>2, <1>8, <2>1, <2>2, <2>3
<1>9. QED
  BY <1>6, <1>7, <1>8

LEMMA TickStep ==
  ASSUME IInv, Tick
  PROVE  IInv'
<1>0. TypeOK /\ DueInTime /\ OneDailyPerDay /\ ServedInOrder
  BY DEF IInv
<1>1. /\ pc' = "work" /\ tickNow' = Clock /\ now' = now /\ err' = err /\ wakeAt' = wakeAt
      /\ slot' = slot /\ dailyAt' = dailyAt /\ offset' = offset /\ replaced' = {} /\ moved' = FALSE
      /\ lastDay' = (IF DailyDue THEN Today ELSE lastDay) /\ tickDay' = Today
      /\ served' = (IF DailyDue THEN served \union {Today} ELSE served)
      /\ again' = (again \/ (DailyDue /\ Today \in served))
      /\ back' = (back \/ Today < tickDay)
  BY DEF Tick, config
<1>2. /\ now \in Nat /\ now >= Start /\ wakeAt \in Nat /\ dailyAt \in Nat
      /\ lastDay \in Nat \union {-1} /\ tickDay \in Nat \union {-1} /\ Today \in Nat
      /\ Clock \in Nat /\ Clock <= now + MaxError /\ now - MaxError <= Clock
      /\ MaxError \in Nat /\ Local(Clock) \in Nat
  BY <1>0, ScalarFacts, ClockFacts, Numbers DEF TypeOK
<1>3. TypeOK'
  <2>1. next' \in [Slots -> 0..(now' + MaxError + MaxInterval)]
    <3>1. \A i \in Slots : next'[i] \in 0..(now + MaxError + MaxInterval)
      BY <1>0, TickedSlot
    <3>2. next' = [i \in Slots |-> next'[i]]
      BY DEF Tick
    <3>3. QED
      BY <1>1, <3>1, <3>2
  <2>2. sampledAt' \in [Slots -> 0..now']
    <3>1. \A i \in Slots : sampledAt'[i] \in 0..now
      BY <1>0, TickedSlot
    <3>2. sampledAt' = [i \in Slots |-> sampledAt'[i]]
      BY DEF Tick
    <3>3. QED
      BY <1>1, <3>1, <3>2
  <2>3. span' \in [Slots -> Intervals \union {0}]
    <3>1. \A i \in Slots : span'[i] \in Intervals \union {0}
      BY <1>0, TickedSlot
    <3>2. span' = [i \in Slots |-> span'[i]]
      BY DEF Tick
    <3>3. QED
      BY <3>1, <3>2
  <2>4. newest' \in [Slots -> 0..(now' + MaxError)]
    <3>1. \A i \in Slots : newest'[i] \in 0..(now + MaxError)
      BY <1>0, TickedSlot
    <3>2. newest' = [i \in Slots |-> newest'[i]]
      BY DEF Tick
    <3>3. QED
      BY <1>1, <3>1, <3>2
  <2>5. lastDay' \in Nat \union {-1} /\ tickDay' \in Nat \union {-1}
    BY <1>1, <1>2
  <2>6. tickNow' \in 0..(now' + MaxError) /\ now' \in Nat /\ now' >= Start /\ wakeAt' \in Nat
    BY <1>1, <1>2
  <2>7. served' \in SUBSET Nat
    BY <1>0, <1>1, <1>2 DEF TypeOK
  <2>8. moved' \in BOOLEAN /\ again' \in BOOLEAN /\ back' \in BOOLEAN
    <3>1. moved' \in BOOLEAN
      BY <1>1
    <3>2. again' \in BOOLEAN
      BY <1>1
    <3>3. back' \in BOOLEAN
      BY <1>1
    <3>4. QED
      BY <3>1, <3>2, <3>3
  <2>9. replaced' \subseteq Slots /\ pc' \in {"top", "work", "nap", "deep"}
    BY <1>1
  <2>10. slot' \in [Slots -> Intervals \union {0}] /\ dailyAt' \in DailyTimes /\ offset' \in Offsets
         /\ err' \in Errors
    BY <1>0, <1>1 DEF TypeOK
  <2>11. QED
    BY <2>1, <2>2, <2>3, <2>4, <2>5, <2>6, <2>7, <2>8, <2>9, <2>10 DEF TypeOK
<1>4. WaitOK'
  <2>1. DueInTime'
    BY <1>0, TickedSlot DEF DueInTime
  <2>2. Used' = Used /\ \A i \in Used : i \in Slots /\ slot[i] # 0
    BY <1>1 DEF Used
  <2>3. TickedAhead'
    BY <1>0, <1>1, <1>2, <2>2, TickedSlot DEF TickedAhead
  <2>4. QED
    BY <1>1, <2>1, <2>3 DEF WaitOK, NapInTime, NoSensorStarves
<1>5. DailyOK'
  <2>1. ServedInOrder' /\ OneDailyPerDay'
    <3>1. SUFFICES ASSUME ~ back'
                   PROVE  /\ \A d \in served' : d <= Today
                          /\ Today \in served' => lastDay' = Today
                          /\ ~ again'
      BY <1>1 DEF ServedInOrder, OneDailyPerDay
    <3>2. ~ back /\ ~ (Today < tickDay)
      BY <1>1, <3>1
    <3>3. /\ \A d \in served : d <= tickDay
          /\ tickDay \in served => lastDay = tickDay
          /\ served \in SUBSET Nat
      BY <1>0, <3>2 DEF ServedInOrder, TypeOK
    <3>4. ~ again
      BY <1>0, <3>2 DEF OneDailyPerDay
    <3>5. ~ (Today < tickDay) /\ Today \in Nat /\ tickDay \in Int
      BY <1>2, <3>2
    <3>6. \A d \in served : d <= Today
      BY <3>3, <3>5
    <3>7. Today \in served => lastDay = Today
      BY <3>3, <3>5
    <3>8. served' \subseteq served \union {Today}
      BY <1>1
    <3>9. \A d \in served' : d <= Today
      BY <3>5, <3>6, <3>8
    <3>10. Today \in served' => lastDay' = Today
      BY <1>1, <3>7
    <3>11. ~ (DailyDue /\ Today \in served)
      BY <3>7 DEF DailyDue
    <3>12. ~ again'
      BY <1>1, <3>4, <3>11
    <3>13. QED
      BY <3>9, <3>10, <3>12
  <2>2. DayAhead'
    <3>1. Local(tickNow)' = Local(Clock) /\ DayOf(Local(tickNow))' = Today
      BY <1>1 DEF Local, DayOf, Today
    <3>2. ASSUME lastDay' # Today PROVE Local(Clock) < Today * Day + dailyAt
      <4>1. lastDay # Today /\ ~ DailyDue
        BY <1>1, <3>2
      <4>2. ~ (Local(Clock) % Day >= dailyAt)
        BY <4>1 DEF DailyDue
      <4>3. /\ Local(Clock) % Day = Local(Clock) - Today * Day /\ Today * Day \in Nat
        BY <1>2, DayBounds DEF Today
      <4> DEFINE l == Local(Clock)
                 m == Today * Day
                 r == Local(Clock) % Day
      <4>4. r = l - m /\ l \in Nat /\ m \in Nat /\ dailyAt \in Nat /\ ~ (r >= dailyAt)
        BY <1>2, <4>2, <4>3
      <4>5. l < m + dailyAt
        <5> HIDE DEF l, m, r
        <5>1. QED
          BY <4>4
      <4>6. QED
        BY <4>5
    <3>3. QED
      BY <1>1, <3>1, <3>2 DEF DayAhead
  <2>3. QED
    BY <1>1, <2>1, <2>2 DEF DailyOK, DayIsServed
<1>6. QED
  BY <1>3, <1>4, <1>5 DEF IInv, WaitOK, DailyOK

-----------------------------------------------------------------------------
(* The nap *)

\* A sensor is due ahead of the nap's start, or an interval after it.
LEMMA DueIsAhead ==
  ASSUME TypeOK, DueInTime, TickedAhead, pc = "work", NEW i \in Used
  PROVE  /\ UntilDue(i) \in Nat /\ UntilDue(i) > 0
         /\ now + UntilDue(i) <= sampledAt[i] + span[i] + 2 * MaxError
<1>1. i \in Slots /\ slot[i] # 0 /\ tickNow \in Nat /\ now \in Nat /\ MaxError \in Nat
  BY ScalarFacts, Numbers
<1>2. /\ slot[i] \in Nat /\ slot[i] > 0 /\ next[i] \in Nat /\ sampledAt[i] \in Nat /\ span[i] \in Nat
      /\ slot[i] <= span[i] /\ next[i] <= sampledAt[i] + MaxError + span[i]
      /\ next[i] > tickNow \/ sampledAt[i] = now
      /\ now - MaxError <= tickNow
  BY <1>1, SlotFacts DEF DueInTime, TickedAhead
<1>3. CASE next[i] > tickNow
  <2>1. UntilDue(i) = next[i] - tickNow
    BY <1>3 DEF UntilDue
  <2>2. QED
    BY <1>1, <1>2, <1>3, <2>1
<1>4. CASE ~ (next[i] > tickNow)
  <2>1. UntilDue(i) = slot[i]
    BY <1>4 DEF UntilDue
  <2>2. QED
    BY <1>1, <1>2, <1>4, <2>1
<1>5. QED
  BY <1>3, <1>4

\* In local time, too, the tick lies at most the clock's error before the work.
LEMMA TickTime ==
  ASSUME TypeOK, TickedAhead, pc = "work"
  PROVE  /\ Local(tickNow) \in Nat /\ Local(now) \in Int
         /\ Local(now) <= Local(tickNow) + MaxError
BY ScalarFacts, Numbers DEF TickedAhead, Local

LEMMA WorkStep ==
  ASSUME IInv, NEW w \in Works, Work(w)
  PROVE  IInv'
<1>0. TypeOK /\ DueInTime /\ TickedAhead /\ OneDailyPerDay /\ ServedInOrder /\ DayAhead
  BY DEF IInv
<1>1. /\ pc = "work" /\ pc' \in {"nap", "deep"} /\ now' = now + w /\ wakeAt' = now + w + NapLength
      /\ UNCHANGED <<err, slot, dailyAt, offset, next, lastDay, tickNow, newest, sampledAt, span>>
      /\ UNCHANGED <<replaced, moved, tickDay, served, again, back>>
  BY DEF Work, config, history, dayHistory
<1>2. /\ now \in Nat /\ now >= Start /\ Start \in Nat /\ dailyAt \in Nat
      /\ w \in Nat /\ w <= MaxWork /\ MaxWork \in Nat /\ MaxTail \in Nat /\ Second \in Nat /\ Day \in Nat
      /\ MaxInterval \in Nat /\ MaxError \in Nat
  BY <1>0, <1>1, ScalarFacts, Numbers
<1>3. /\ Local(tickNow) \in Nat /\ Local(now) \in Int
      /\ Local(now) <= Local(tickNow) + MaxError
  BY <1>0, <1>1, TickTime
<1>4. UntilDaily \in Nat /\ UntilDaily > 0
  BY <1>0, <1>3, DailyIsAhead
<1>5. /\ NapLength \in Nat /\ NapLength < UntilDaily + Second
      /\ \A i \in Used : NapLength < UntilDue(i) + Second
  BY <1>0, <1>1, <1>4, DueIsAhead, NapIsShort
<1>6. now' \in Nat /\ wakeAt' \in Nat /\ now <= now' /\ now' <= wakeAt' /\ now' >= Start
  BY <1>1, <1>2, <1>5
<1>7. TypeOK'
  <2>1. next' \in [Slots -> 0..(now' + MaxError + MaxInterval)]
    BY <1>0, <1>1, <1>2, <1>6 DEF TypeOK
  <2>2. newest' \in [Slots -> 0..(now' + MaxError)] /\ sampledAt' \in [Slots -> 0..now']
    BY <1>0, <1>1, <1>2, <1>6 DEF TypeOK
  <2>3. tickNow' \in 0..(now' + MaxError)
    BY <1>0, <1>1, <1>2, <1>6 DEF TypeOK
  <2>4. /\ slot' \in [Slots -> Intervals \union {0}] /\ dailyAt' \in DailyTimes /\ offset' \in Offsets
        /\ span' \in [Slots -> Intervals \union {0}] /\ replaced' \subseteq Slots
        /\ pc' \in {"top", "work", "nap", "deep"} /\ err' \in Errors
        /\ lastDay' \in Nat \union {-1} /\ tickDay' \in Nat \union {-1} /\ served' \in SUBSET Nat
    BY <1>0, <1>1 DEF TypeOK
  <2>5. moved' \in BOOLEAN /\ again' \in BOOLEAN /\ back' \in BOOLEAN
    BY <1>0, <1>1 DEF TypeOK
  <2>6. QED
    BY <1>6, <2>1, <2>2, <2>3, <2>4, <2>5 DEF TypeOK
<1>8. WaitOK'
  <2>1. Used' = Used
    BY <1>1 DEF Used
  <2>2. DueInTime'
    BY <1>0, <1>1 DEF DueInTime
  <2>3. ASSUME NEW i \in Used
        PROVE  wakeAt' + MaxTail <= sampledAt[i] + span[i] + Late + 2 * MaxError
    <3>1. UntilDue(i) \in Nat /\ now + UntilDue(i) <= sampledAt[i] + span[i] + 2 * MaxError
          /\ NapLength < UntilDue(i) + Second
      BY <1>0, <1>1, <1>5, <2>3, DueIsAhead
    <3>2. sampledAt[i] \in Nat /\ span[i] \in Nat
      BY <1>0, <2>3, SlotFacts, ScalarFacts
    <3>3. QED
      BY <1>1, <1>2, <1>5, <3>1, <3>2 DEF Late
  <2>4. NapInTime'
    BY <1>1, <1>6, <2>1, <2>3 DEF NapInTime
  <2>5. QED
    BY <1>1, <2>2, <2>4 DEF WaitOK, TickedAhead, NoSensorStarves
<1>9. DailyOK'
  <2>1. ASSUME DayHasRoom, ~ moved, lastDay # tickDay
        PROVE  Local(wakeAt') + MaxTail + MaxError < (tickDay + 1) * Day
    <3> DEFINE l == Local(tickNow)
               m == tickDay * Day
               u == UntilDaily
    <3>1. tickDay = DayOf(l) /\ l < m + dailyAt
      BY <1>0, <1>1, <2>1 DEF DayAhead
    <3>2. u = (m + dailyAt) - l
      BY <1>0, <1>3, <2>1, <3>1, DailyIsAhead
    <3>3. dailyAt + Late + 2 * MaxError <= Day /\ Late = MaxWork + MaxTail + Second
      BY <1>0, <2>1 DEF DayHasRoom, TypeOK, Late
    <3>4. m \in Nat /\ (tickDay + 1) * Day = m + Day /\ l \in Nat
      BY <1>3, <3>1, DayBounds
    <3>5. Local(wakeAt') = Local(now) + w + NapLength
      <4>1. offset \in Int
        BY <1>0, ScalarFacts
      <4>2. QED
        BY <1>1, <1>2, <1>5, <4>1 DEF Local
    <3>6. Local(now) <= l + MaxError /\ Local(now) \in Int
      BY <1>3
    <3> DEFINE n == Local(now)
               x == Local(wakeAt')
    <3>7. x + MaxTail + MaxError < m + Day
      <4>1. u \in Nat /\ NapLength < u + Second /\ x = n + w + NapLength /\ n <= l + MaxError /\ n \in Int
        BY <1>4, <1>5, <3>5, <3>6
      <4>2. NapLength \in Nat
        BY <1>5
      <4> HIDE DEF l, m, u, n, x
      <4>3. QED
        BY <1>2, <3>2, <3>3, <3>4, <4>1, <4>2
    <3>8. QED
      BY <3>4, <3>7
  <2>2. DayAhead'
    <3>1. Local(wakeAt)' = Local(wakeAt')
      BY <1>1 DEF Local
    <3>2. QED
      BY <1>1, <2>1, <3>1 DEF DayAhead, DayHasRoom, Late
  <2>3. QED
    BY <1>0, <1>1, <2>2 DEF DailyOK, ServedInOrder, OneDailyPerDay, DayIsServed
<1>10. QED
  BY <1>7, <1>8, <1>9 DEF IInv, WaitOK, DailyOK

\* The end of a nap, of either kind, comes in time.
LEMMA WakeInTime ==
  ASSUME IInv, NEW t, NEW tail \in Tails,
         \/ NapEnds(t, tail)
         \/ DeepWake(t, tail),
         t \in {now, wakeAt}
  PROVE  /\ now' \in Nat /\ now <= now' /\ now' <= wakeAt + MaxTail
         /\ pc \in {"nap", "deep"} /\ pc' = "top" /\ wakeAt' = now'
         /\ UNCHANGED <<err, slot, dailyAt, offset, lastDay, tickNow, newest, sampledAt, span>>
         /\ UNCHANGED <<replaced, moved, tickDay, served, again, back>>
<1>1. /\ pc \in {"nap", "deep"} /\ now <= t /\ t <= wakeAt /\ now' = t + tail /\ wakeAt' = now' /\ pc' = "top"
      /\ UNCHANGED <<err, slot, dailyAt, offset, lastDay, tickNow, newest, sampledAt, span>>
      /\ UNCHANGED <<replaced, moved, tickDay, served, again, back>>
  BY DEF NapEnds, DeepWake, config, history, dayHistory, CarriedDay
<1>2. now \in Nat /\ wakeAt \in Nat /\ tail \in Nat /\ tail <= MaxTail /\ MaxTail \in Nat
  BY ScalarFacts, Numbers DEF IInv
<1>3. t \in Nat
  BY <1>2
<1>4. QED
  BY <1>1, <1>2, <1>3

\* At the top of the loop, a day that is not over in real time, with the clock's
\* error to spare, is not over on the clock.
LEMMA NotOverYet ==
  TypeOK /\ DayAhead => DayIsServed
<1> SUFFICES ASSUME TypeOK, DayAhead, DayHasRoom, ~ moved, pc = "top", lastDay # tickDay
             PROVE  ~ (Today > tickDay)
  BY DEF DayIsServed
<1>1. Local(now) + MaxError < (tickDay + 1) * Day
  BY DEF DayAhead
<1>2. /\ Local(Clock) \in Nat /\ Local(Clock) <= Local(now) + MaxError /\ Local(now) \in Int
      /\ Today \in Nat /\ tickDay \in Int /\ tickDay >= -1 /\ MaxError \in Nat /\ Day \in Nat
  BY ClockFacts, ScalarFacts, Numbers
<1>3. Today * Day \in Nat /\ Today * Day <= Local(Clock)
  BY <1>2, DayBounds DEF Today
<1>4. ASSUME Today >= tickDay + 1 PROVE FALSE
  <2> DEFINE d == Today - (tickDay + 1)
             a == Today * Day
             b == (tickDay + 1) * Day
  <2>1. d \in Nat /\ tickDay + 1 \in Nat
    BY <1>2, <1>4
  <2>2. d * Day \in Nat /\ b \in Nat
    BY <1>2, <2>1
  <2>3. a = b + d * Day
    <3>1. Today = (tickDay + 1) + d
      BY <1>2, <2>1
    <3> HIDE DEF d
    <3>2. QED
      BY <1>2, <2>1, <3>1
  <2>4. a <= Local(Clock) /\ Local(now) + MaxError < b
    BY <1>1, <1>3
  <2> DEFINE l == Local(Clock)
             n == Local(now)
             e == d * Day
  <2>5. /\ a <= l /\ n + MaxError < b /\ l <= n + MaxError /\ a = b + e
        /\ e \in Nat /\ b \in Nat /\ l \in Nat /\ n \in Int /\ MaxError \in Nat
    BY <1>2, <2>2, <2>3, <2>4
  <2> HIDE DEF a, b, l, n, e
  <2>6. QED
    BY <2>5
<1>5. QED
  BY <1>2, <1>4

LEMMA WakeStep ==
  ASSUME IInv, NEW t \in {now, wakeAt}, NEW tail \in Tails, NapEnds(t, tail) \/ DeepWake(t, tail)
  PROVE  IInv'
<1>0. TypeOK /\ DueInTime /\ NapInTime /\ OneDailyPerDay /\ ServedInOrder /\ DayAhead
  BY DEF IInv
<1>1. /\ now' \in Nat /\ now <= now' /\ now' <= wakeAt + MaxTail
      /\ pc \in {"nap", "deep"} /\ pc' = "top" /\ wakeAt' = now'
      /\ UNCHANGED <<err, slot, dailyAt, offset, lastDay, tickNow, newest, sampledAt, span>>
      /\ UNCHANGED <<replaced, moved, tickDay, served, again, back>>
  BY WakeInTime
<1>2. now \in Nat /\ now >= Start /\ Start \in Nat /\ tickNow \in Nat /\ wakeAt \in Nat
      /\ MaxTail \in Nat /\ MaxInterval \in Nat /\ MaxError \in Nat
  BY <1>0, ScalarFacts, Numbers
<1>3. \/ next' = next
      \/ next' = [i \in Slots |-> IF slot[i] # 0 /\ newest[i] # 0 THEN newest[i] + slot[i] ELSE 0]
  BY DEF NapEnds, DeepWake
<1>4. \A i \in Slots : next'[i] \in 0..(now' + MaxError + MaxInterval)
                       /\ next'[i] <= sampledAt[i] + MaxError + span[i]
  <2> TAKE i \in Slots
  <2>1. /\ slot[i] \in Nat /\ slot[i] <= MaxInterval /\ next[i] \in Nat
        /\ next[i] <= now + MaxError + MaxInterval
        /\ newest[i] \in Nat /\ newest[i] <= now + MaxError /\ sampledAt[i] \in Nat /\ span[i] \in Nat
    BY <1>0, SlotFacts
  <2>2. /\ slot[i] <= span[i] /\ newest[i] <= sampledAt[i] + MaxError
        /\ next[i] <= sampledAt[i] + MaxError + span[i]
    BY <1>0 DEF DueInTime
  <2>3. next'[i] \in {next[i], newest[i] + slot[i], 0}
    BY <1>3
  <2>4. QED
    BY <1>1, <1>2, <2>1, <2>2, <2>3
<1>5. TypeOK'
  <2>1. next' \in [Slots -> 0..(now' + MaxError + MaxInterval)]
    <3>1. DOMAIN next = Slots /\ next = [i \in Slots |-> next[i]]
      BY <1>0 DEF TypeOK
    <3>2. next' = [i \in Slots |-> next'[i]]
      BY <1>3, <3>1
    <3>3. QED
      BY <1>4, <3>2
  <2>2. newest' \in [Slots -> 0..(now' + MaxError)] /\ sampledAt' \in [Slots -> 0..now']
    BY <1>0, <1>1, <1>2 DEF TypeOK
  <2>3. tickNow' \in 0..(now' + MaxError) /\ now' >= Start
    <3> DEFINE n == now'
    <3>1. tickNow' = tickNow /\ tickNow \in Nat /\ tickNow <= now + MaxError
      BY <1>0, <1>1, <1>2 DEF TypeOK
    <3>2. n \in Nat /\ now <= n
      BY <1>1
    <3>3. tickNow \in 0..(n + MaxError) /\ n >= Start
      <4> HIDE DEF n
      <4>1. QED
        BY <1>2, <3>1, <3>2
    <3>4. QED
      BY <3>1, <3>3
  <2>4. /\ slot' \in [Slots -> Intervals \union {0}] /\ dailyAt' \in DailyTimes /\ offset' \in Offsets
        /\ span' \in [Slots -> Intervals \union {0}] /\ replaced' \subseteq Slots
        /\ pc' \in {"top", "work", "nap", "deep"} /\ err' \in Errors
        /\ lastDay' \in Nat \union {-1} /\ tickDay' \in Nat \union {-1} /\ served' \in SUBSET Nat
    BY <1>0, <1>1 DEF TypeOK
  <2>5. moved' \in BOOLEAN /\ again' \in BOOLEAN /\ back' \in BOOLEAN
    BY <1>0, <1>1 DEF TypeOK
  <2>6. now' \in Nat /\ wakeAt' \in Nat
    BY <1>1
  <2>7. QED
    BY <2>1, <2>2, <2>3, <2>4, <2>5, <2>6 DEF TypeOK
<1>6. WaitOK'
  <2>1. DueInTime'
    BY <1>0, <1>1, <1>4 DEF DueInTime
  <2>2. ASSUME NEW i \in Used PROVE now' <= sampledAt[i] + span[i] + Late + 2 * MaxError
    <3>1. wakeAt + MaxTail <= sampledAt[i] + span[i] + Late + 2 * MaxError
      BY <1>0, <1>1, <2>2 DEF NapInTime
    <3>2. sampledAt[i] \in Nat /\ span[i] \in Nat /\ Late \in Nat
      BY <1>0, <2>2, SlotFacts, ScalarFacts, Numbers
    <3>3. QED
      BY <1>1, <1>2, <3>1, <3>2
  <2>3. NoSensorStarves'
    BY <1>1, <2>2 DEF NoSensorStarves, Used
  <2>4. QED
    BY <1>1, <2>1, <2>3 DEF WaitOK, TickedAhead, NapInTime
<1>7. DailyOK'
  <2>1. ServedInOrder' /\ OneDailyPerDay'
    BY <1>0, <1>1 DEF ServedInOrder, OneDailyPerDay
  <2>2. DayAhead'
    <3>1. SUFFICES ASSUME DayHasRoom, ~ moved, lastDay # tickDay
                   PROVE  Local(now') + MaxError < (tickDay + 1) * Day
      <4>1. Local(now)' = Local(now')
        BY <1>1 DEF Local
      <4>2. QED
        BY <1>1, <4>1 DEF DayAhead, DayHasRoom, Late
    <3> DEFINE b == (tickDay + 1) * Day
    <3>2. Local(wakeAt) + MaxTail + MaxError < b
      BY <1>0, <1>1, <3>1 DEF DayAhead
    <3>3. b \in Int /\ offset \in Int
      <4>1. tickDay \in Int /\ Day \in Nat
        BY <1>0, ScalarFacts, Numbers
      <4>2. QED
        BY <1>0, <4>1, ScalarFacts
    <3> HIDE DEF b
    <3> DEFINE n == now'
    <3>4. wakeAt + offset + MaxTail + MaxError < b
      BY <3>2 DEF Local
    <3>5. n \in Nat /\ n <= wakeAt + MaxTail
      BY <1>1
    <3>6. n + offset + MaxError < b
      <4> HIDE DEF n
      <4>1. QED
        BY <1>2, <3>3, <3>4, <3>5
    <3>7. Local(now') + MaxError < b
      BY <3>6 DEF Local
    <3>8. QED
      BY <3>7 DEF b
  <2>3. DayIsServed'
    <3>1. (TypeOK /\ DayAhead => DayIsServed)'
      BY NotOverYet, PTL
    <3>2. QED
      BY <1>5, <2>2, <3>1
  <2>4. QED
    BY <2>1, <2>2, <2>3 DEF DailyOK
<1>8. QED
  BY <1>5, <1>6, <1>7 DEF IInv, WaitOK, DailyOK

-----------------------------------------------------------------------------
(* Configuration and power *)

LEMMA SensorStep ==
  ASSUME IInv, NEW j \in Slots, NEW interval \in Intervals \union {0}, SetSensor(j, interval)
  PROVE  IInv'
<1>0. TypeOK /\ DueInTime /\ TickedAhead /\ NoSensorStarves /\ DailyOK
  BY DEF IInv, DailyOK
<1>1. /\ pc \in {"top", "work"} /\ interval \in Nat
      /\ slot' = [slot EXCEPT ![j] = interval]
      /\ span' = [span EXCEPT ![j] = IF interval > @ THEN interval ELSE @]
      /\ sampledAt' = [sampledAt EXCEPT ![j] = IF slot[j] = 0 THEN now ELSE @]
      /\ replaced' \subseteq replaced \union {j}
      /\ UNCHANGED <<now, err, pc, dailyAt, offset, next, lastDay, tickNow, wakeAt, newest>>
      /\ UNCHANGED <<moved, tickDay, served, again, back>>
  BY Numbers DEF SetSensor, dayHistory
<1>2. now \in Nat /\ tickNow \in Nat /\ MaxError \in Nat
  BY <1>0, ScalarFacts, Numbers
<1>3. ASSUME NEW i \in Slots
      PROVE  /\ slot'[i] = (IF i = j THEN interval ELSE slot[i])
             /\ span'[i] = (IF i = j /\ interval > span[i] THEN interval ELSE span[i])
             /\ sampledAt'[i] = (IF i = j /\ slot[i] = 0 THEN now ELSE sampledAt[i])
             /\ span'[i] \in Intervals \union {0} /\ span'[i] \in Nat /\ sampledAt'[i] \in 0..now
             /\ span[i] <= span'[i] /\ sampledAt[i] <= sampledAt'[i] /\ slot'[i] <= span'[i]
             /\ slot'[i] # 0 => slot[i] # 0 \/ sampledAt'[i] = now
  <2>1. /\ slot[i] \in Nat /\ span[i] \in Nat /\ span[i] \in Intervals \union {0}
        /\ sampledAt[i] \in Nat /\ sampledAt[i] <= now /\ slot[i] <= span[i]
    BY <1>0, SlotFacts DEF DueInTime
  <2>2. /\ slot'[i] = (IF i = j THEN interval ELSE slot[i])
        /\ span'[i] = (IF i = j /\ interval > span[i] THEN interval ELSE span[i])
        /\ sampledAt'[i] = (IF i = j /\ slot[i] = 0 THEN now ELSE sampledAt[i])
    BY <1>0, <1>1 DEF TypeOK
  <2>3. QED
    BY <1>1, <1>2, <2>1, <2>2
<1>4. TypeOK'
  <2>1. slot' \in [Slots -> Intervals \union {0}]
    BY <1>0, <1>1 DEF TypeOK
  <2>2. span' \in [Slots -> Intervals \union {0}] /\ sampledAt' \in [Slots -> 0..now]
    <3>1. span' = [i \in Slots |-> span'[i]] /\ sampledAt' = [i \in Slots |-> sampledAt'[i]]
      BY <1>0, <1>1 DEF TypeOK
    <3>2. QED
      BY <1>3, <3>1
  <2>3. replaced' \subseteq Slots
    BY <1>0, <1>1 DEF TypeOK
  <2>4. QED
    BY <1>0, <1>1, <2>1, <2>2, <2>3 DEF TypeOK
<1>5. DueInTime'
  <2> SUFFICES ASSUME NEW i \in Slots
               PROVE  slot'[i] <= span'[i] /\ newest[i] <= sampledAt'[i] + MaxError
                      /\ next[i] <= sampledAt'[i] + MaxError + span'[i]
    BY <1>1 DEF DueInTime
  <2>1. newest[i] <= sampledAt[i] + MaxError /\ next[i] <= sampledAt[i] + MaxError + span[i]
        /\ newest[i] \in Nat /\ next[i] \in Nat /\ sampledAt[i] \in Nat /\ span[i] \in Nat
    BY <1>0, SlotFacts DEF DueInTime
  <2>2. QED
    BY <1>2, <1>3, <2>1
<1>6. TickedAhead'
  <2> SUFFICES ASSUME pc = "work", NEW i \in Slots, slot'[i] # 0
               PROVE  next[i] > tickNow \/ sampledAt'[i] = now
    BY <1>0, <1>1 DEF TickedAhead, Used
  <2>1. slot[i] # 0 => next[i] > tickNow \/ sampledAt[i] = now
    BY <1>0 DEF TickedAhead, Used
  <2>2. sampledAt[i] = now => sampledAt'[i] = now
    BY <1>3
  <2>3. QED
    BY <1>3, <2>1, <2>2
<1>7. NoSensorStarves'
  <2> SUFFICES ASSUME pc = "top", NEW i \in Slots, slot'[i] # 0
               PROVE  now <= sampledAt'[i] + span'[i] + Late + 2 * MaxError
    BY <1>1 DEF NoSensorStarves, Used
  <2>1. slot[i] # 0 => now <= sampledAt[i] + span[i] + Late + 2 * MaxError
    BY <1>0 DEF NoSensorStarves, Used
  <2>2. sampledAt[i] \in Nat /\ span[i] \in Nat /\ Late \in Nat
    BY <1>0, SlotFacts, Numbers
  <2>3. QED
    BY <1>2, <1>3, <2>1, <2>2
<1>8. DailyOK'
  BY <1>0, <1>1 DEF DailyOK, ServedInOrder, OneDailyPerDay, DayAhead, DayIsServed, DayHasRoom, Late,
     Today, Clock, Local, DayOf
<1>9. QED
  BY <1>1, <1>4, <1>5, <1>6, <1>7, <1>8 DEF IInv, DailyOK, NapInTime

LEMMA DailyStep ==
  ASSUME IInv, NEW t \in DailyTimes, SetDaily(t)
  PROVE  IInv'
<1>0. TypeOK /\ WaitOK /\ DailyOK
  BY DEF IInv, WaitOK, DailyOK
<1>1. /\ pc \in {"top", "work"} /\ dailyAt' = t /\ (moved' <=> (moved \/ pc = "work"))
      /\ moved' \in BOOLEAN
      /\ UNCHANGED <<now, err, pc, slot, offset, next, lastDay, tickNow, wakeAt, newest, sampledAt, span>>
      /\ UNCHANGED <<replaced, tickDay, served, again, back>>
  BY DEF SetDaily, dayHistory
<1>2. TypeOK'
  BY <1>0, <1>1 DEF TypeOK
<1>3. WaitOK'
  BY <1>0, <1>1 DEF WaitOK, DueInTime, TickedAhead, NapInTime, NoSensorStarves, Used
<1>4. DailyOK'
  <2>1. ServedInOrder' /\ OneDailyPerDay'
    BY <1>0, <1>1 DEF DailyOK, ServedInOrder, OneDailyPerDay
  <2>2. DayAhead'
    BY <1>0, <1>1 DEF DailyOK, DayAhead, DayHasRoom, Late, Local
  <2>3. DayIsServed'
    BY <1>0, <1>1 DEF DailyOK, DayIsServed, DayHasRoom, Late, Today, Clock, Local, DayOf
  <2>4. QED
    BY <2>1, <2>2, <2>3 DEF DailyOK
<1>5. QED
  BY <1>2, <1>3, <1>4 DEF IInv, WaitOK, DailyOK

LEMMA OffsetStep ==
  ASSUME IInv, NEW o \in Offsets, SetOffset(o)
  PROVE  IInv'
<1>0. TypeOK /\ WaitOK /\ DailyOK
  BY DEF IInv, WaitOK, DailyOK
<1>1. /\ pc \in {"top", "work"} /\ offset' = o /\ (moved' <=> (moved \/ o # offset))
      /\ moved' \in BOOLEAN
      /\ UNCHANGED <<now, err, pc, slot, dailyAt, next, lastDay, tickNow, wakeAt, newest, sampledAt, span>>
      /\ UNCHANGED <<replaced, tickDay, served, again, back>>
  BY DEF SetOffset, dayHistory
<1>2. TypeOK'
  BY <1>0, <1>1 DEF TypeOK
<1>3. WaitOK'
  BY <1>0, <1>1 DEF WaitOK, DueInTime, TickedAhead, NapInTime, NoSensorStarves, Used
<1>4. DailyOK'
  <2>1. ServedInOrder' /\ OneDailyPerDay'
    BY <1>0, <1>1 DEF DailyOK, ServedInOrder, OneDailyPerDay
  <2>2. ~ moved' => offset' = offset /\ ~ moved
    BY <1>1
  <2>3. DayAhead'
    BY <1>0, <1>1, <2>2 DEF DailyOK, DayAhead, DayHasRoom, Late, Local
  <2>4. DayIsServed'
    BY <1>0, <1>1, <2>2 DEF DailyOK, DayIsServed, DayHasRoom, Late, Today, Clock, Local, DayOf
  <2>5. QED
    BY <2>1, <2>3, <2>4 DEF DailyOK
<1>5. QED
  BY <1>2, <1>3, <1>4 DEF IInv, WaitOK, DailyOK

\* The tick is not before the day's cycle however the clock moves: DayAhead keeps
\* the clock's whole error in hand.
LEMMA ClockStep ==
  ASSUME IInv, NEW e \in Errors, SetClock(e)
  PROVE  IInv'
<1>0. TypeOK /\ WaitOK /\ DailyOK
  BY DEF IInv, WaitOK, DailyOK
<1>1. /\ err' = e
      /\ UNCHANGED <<now, pc, slot, dailyAt, offset, next, lastDay, tickNow, wakeAt, newest, sampledAt>>
      /\ UNCHANGED <<span, replaced, moved, tickDay, served, again, back>>
  BY DEF SetClock, config, history, dayHistory
<1>2. TypeOK'
  BY <1>0, <1>1 DEF TypeOK
<1>3. WaitOK'
  BY <1>0, <1>1 DEF WaitOK, DueInTime, TickedAhead, NapInTime, NoSensorStarves, Used
<1>4. DailyOK'
  <2>1. ServedInOrder' /\ OneDailyPerDay'
    BY <1>0, <1>1 DEF DailyOK, ServedInOrder, OneDailyPerDay
  <2>2. DayAhead'
    BY <1>0, <1>1 DEF DailyOK, DayAhead, DayHasRoom, Late, Local, DayOf
  <2>3. (TypeOK /\ DayAhead => DayIsServed)'
    BY NotOverYet, PTL
  <2>4. QED
    BY <1>2, <2>1, <2>2, <2>3 DEF DailyOK
<1>5. QED
  BY <1>2, <1>3, <1>4 DEF IInv, WaitOK, DailyOK

LEMMA CutStep ==
  ASSUME IInv, NEW d \in Outages, PowerCut(d)
  PROVE  IInv'
<1>0. TypeOK
  BY DEF IInv
<1>1. /\ now' = now + d /\ pc' = "top" /\ tickNow' = 0 /\ wakeAt' = now'
      /\ next' = [i \in Slots |-> 0] /\ lastDay' = -1
      /\ sampledAt' = [i \in Slots |-> now'] /\ span' = slot
      /\ replaced' = {} /\ moved' = FALSE
      /\ tickDay' = -1 /\ served' = {} /\ again' = FALSE /\ back' = FALSE
      /\ UNCHANGED <<err, slot, dailyAt, offset, newest>>
  BY DEF PowerCut, config
<1>2. /\ now \in Nat /\ now' \in Nat /\ now <= now' /\ now' >= Start /\ MaxInterval \in Nat
      /\ Late \in Nat /\ MaxError \in Nat
  <2>1. now \in Nat /\ d \in Nat /\ now >= Start /\ Start \in Nat
    BY <1>0, ScalarFacts, Numbers
  <2>2. now' \in Nat /\ now <= now' /\ now' >= Start
    BY <1>1, <2>1
  <2>3. QED
    BY <2>1, <2>2, Numbers
<1>3. TypeOK'
  <2>1. /\ next' \in [Slots -> 0..(now' + MaxError + MaxInterval)]
        /\ newest' \in [Slots -> 0..(now' + MaxError)]
        /\ sampledAt' \in [Slots -> 0..now']
    BY <1>0, <1>1, <1>2 DEF TypeOK
  <2>2. moved' \in BOOLEAN /\ again' \in BOOLEAN /\ back' \in BOOLEAN
    BY <1>1
  <2>3. tickNow' \in 0..(now' + MaxError) /\ wakeAt' \in Nat
        /\ lastDay' \in Nat \union {-1} /\ tickDay' \in Nat \union {-1} /\ served' \in SUBSET Nat
    BY <1>1, <1>2
  <2>4. QED
    BY <1>0, <1>1, <1>2, <2>1, <2>2, <2>3 DEF TypeOK
<1>4. WaitOK'
  <2>1. DueInTime'
    <3> SUFFICES ASSUME NEW i \in Slots
                 PROVE  slot'[i] <= span'[i] /\ newest'[i] <= sampledAt'[i] + MaxError
                        /\ next'[i] <= sampledAt'[i] + MaxError + span'[i]
      BY DEF DueInTime
    <3>1. slot[i] \in Nat /\ newest[i] \in Nat /\ newest[i] <= now + MaxError
      BY <1>0, SlotFacts
    <3>2. slot'[i] = slot[i] /\ span'[i] = slot[i] /\ newest'[i] = newest[i] /\ sampledAt'[i] = now'
          /\ next'[i] = 0
      BY <1>1
    <3>3. QED
      BY <1>2, <3>1, <3>2
  <2>2. NoSensorStarves'
    <3> SUFFICES ASSUME NEW i \in Slots
                 PROVE  now' <= sampledAt'[i] + span'[i] + Late + 2 * MaxError
      BY DEF NoSensorStarves, Used
    <3>1. slot[i] \in Nat /\ span'[i] = slot[i] /\ sampledAt'[i] = now'
      BY <1>0, <1>1, SlotFacts
    <3>2. QED
      BY <1>2, <3>1
  <2>3. QED
    BY <1>1, <2>1, <2>2 DEF WaitOK, TickedAhead, NapInTime
<1>5. DailyOK'
  BY <1>1, <1>2 DEF DailyOK, ServedInOrder, OneDailyPerDay, DayAhead, DayIsServed
<1>6. QED
  BY <1>3, <1>4, <1>5 DEF IInv, WaitOK, DailyOK

-----------------------------------------------------------------------------
(* The theorems *)

\* The types, the distance between due times and samplings, and the mark of the
\* day's cycle: the induction the theorems below rest on.
THEOREM InductiveInvariant == Spec => []IInv
<1>1. Init => IInv
  BY InitIsGood
<1>2. IInv /\ [Next]_vars => IInv'
  <2> SUFFICES ASSUME IInv, [Next]_vars PROVE IInv'
    OBVIOUS
  <2>1. CASE Tick
    BY <2>1, TickStep
  <2>2. ASSUME NEW w \in Works, Work(w) PROVE IInv'
    BY <2>2, WorkStep
  <2>3. ASSUME NEW t \in {now, wakeAt}, NEW tail \in Tails, NapEnds(t, tail) \/ DeepWake(t, tail)
        PROVE  IInv'
    BY <2>3, WakeStep
  <2>4. ASSUME NEW i \in Slots, NEW interval \in Intervals \union {0}, SetSensor(i, interval)
        PROVE  IInv'
    BY <2>4, SensorStep
  <2>5. ASSUME NEW t \in DailyTimes, SetDaily(t) PROVE IInv'
    BY <2>5, DailyStep
  <2>6. ASSUME NEW d \in Outages, PowerCut(d) PROVE IInv'
    BY <2>6, CutStep
  <2>9. ASSUME NEW o \in Offsets, SetOffset(o) PROVE IInv'
    BY <2>9, OffsetStep
  <2>10. ASSUME NEW e \in Errors, SetClock(e) PROVE IInv'
    BY <2>10, ClockStep
  <2>7. CASE UNCHANGED vars
    <3>1. TypeOK'
      BY <2>7 DEF IInv, TypeOK, vars, config, history, dayHistory
    <3>2. WaitOK'
      BY <2>7 DEF IInv, vars, config, history, dayHistory, WaitOK, DueInTime, TickedAhead, NapInTime,
         NoSensorStarves, Used
    <3>3. DailyOK'
      BY <2>7 DEF IInv, vars, config, history, dayHistory, DailyOK, ServedInOrder, OneDailyPerDay,
         DayAhead, DayIsServed, DayHasRoom, Late, Today, Clock, Local, DayOf
    <3>4. QED
      BY <3>1, <3>2, <3>3 DEF IInv, WaitOK, DailyOK
  <2>8. QED
    BY <2>1, <2>2, <2>3, <2>4, <2>5, <2>6, <2>7, <2>9, <2>10 DEF Next
<1>3. QED
  BY <1>1, <1>2, PTL DEF Spec

\* Every variable keeps its type: no due time lies further ahead of the clock than
\* its error and the longest interval, no reading further than the error.
THEOREM TypeCorrect == Spec => []TypeOK
<1>1. IInv => TypeOK
  BY DEF IInv
<1>2. QED
  BY <1>1, InductiveInvariant, PTL

\* Whatever sensors come, go and change their intervals, however long the
\* iterations take within their bound and wherever syncs set the clock within its
\* error, none is kept waiting longer than its interval, the time of one iteration
\* and twice that error.
THEOREM SensorsAreServed == Spec => []NoSensorStarves
<1>1. IInv => NoSensorStarves
  BY DEF IInv
<1>2. QED
  BY <1>1, InductiveInvariant, PTL

\* A local day gets a second daily cycle only when local time went back over a
\* midnight between two ticks: deep sleeps, naps, new daily times, jumps of the
\* clock and of the offset forward, or back within a day, never cause one.
THEOREM DailyIsOnce == Spec => []OneDailyPerDay
<1>1. IInv => OneDailyPerDay
  BY DEF IInv
<1>2. QED
  BY <1>1, InductiveInvariant, PTL

\* With daily times that leave an iteration and twice the clock's error before
\* midnight, every local day has its cycle, unless the daily time is moved in the
\* middle of an iteration, or the offset since the tick.
THEOREM DailyIsServed == Spec => []DayIsServed
<1>1. IInv => DayIsServed
  BY DEF IInv
<1>2. QED
  BY <1>1, InductiveInvariant, PTL
=============================================================================
