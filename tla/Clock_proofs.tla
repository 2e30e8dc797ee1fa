---------------------------- MODULE Clock_proofs ----------------------------
(***************************************************************************)
(* Proofs about Clock for every slack, jitter, delay, drift and ring size: *)
(* the inductive invariant IInv, and what follows from it about the error  *)
(* of the clock, the syncs it accepts and the outages it reports; and for  *)
(* sources that are never late, that naps are resumed from.                *)
(***************************************************************************)
EXTENDS Clock, SequenceTheorems, TLAPS

-----------------------------------------------------------------------------
(* Constants and operators *)

LEMMA Numbers ==
  /\ EpochMin \in Nat /\ EpochMin >= 1 /\ EpochMax \in Nat
  /\ Slack \in Nat /\ RingMax \in Nat /\ RingMax >= 1
  /\ Residual \in Nat /\ Jitter \in Nat /\ Delay \in Nat /\ BootLag \in Nat
  /\ Start \in Nat
BY ClockConstants

\* What power_deep_wake_info charges for a nap is a number of milliseconds.
LEMMA AllowanceIsNat ==
  ASSUME NEW m \in Nat PROVE Allowance(m) \in Nat
<1>1. m \div Second \in Nat
  BY ClockConstants
<1>2. QED
  BY <1>1, ClockConstants DEF Allowance

\* ring_push keeps a ring a ring, and puts the new sample in front.
LEMMA PushOK ==
  ASSUME NEW r, RingOK(r), NEW e \in Nat, NEW src \in Sources
  PROVE  /\ RingOK(Push(r, e, src))
         /\ Push(r, e, src) # <<>>
         /\ Push(r, e, src)[1] = [epoch |-> e, source |-> src]
<1> DEFINE n == IF Len(r) < RingMax THEN Len(r) + 1 ELSE RingMax
           p == Push(r, e, src)
<1>1. Len(r) \in Nat /\ n \in Nat /\ n >= 1 /\ n <= RingMax /\ n - 1 <= Len(r)
  BY Numbers DEF RingOK
<1>2. [epoch |-> e, source |-> src] \in Samples
  BY DEF Samples
<1>3. \A i \in 1..n : i # 1 => r[i - 1] \in Samples
  BY <1>1, ElementOfSeq DEF RingOK
<1>4. p \in [1..n -> Samples]
  BY <1>2, <1>3 DEF Push
<1>5. p \in Seq(Samples) /\ Len(p) = n
  <2> HIDE DEF n, p
  <2>1. QED
    BY <1>1, <1>4, SeqDef
<1>6. p[1] = [epoch |-> e, source |-> src]
  BY <1>1 DEF Push
<1>7. QED
  BY <1>1, <1>5, <1>6 DEF RingOK

\* Every sample of a ring has an epoch and a source.
LEMMA HeadTyped ==
  ASSUME NEW r, RingOK(r), r # <<>>
  PROVE  r[1].epoch \in Nat /\ r[1].source \in Sources
<1>1. Len(r) \in Nat \ {0}
  BY EmptySeq DEF RingOK
<1>2. r[1] \in Samples
  BY <1>1, ElementOfSeq DEF RingOK
<1>3. QED
  BY <1>2 DEF Samples

-----------------------------------------------------------------------------
(* The inductive invariant *)

LEMMA InitIsGood == Init => IInv
<1> SUFFICES ASSUME Init PROVE IInv
  OBVIOUS
<1>1. RingOK(<<>>)
  BY Numbers, EmptySeq DEF RingOK
<1>2. TypeOK
  <2>1. isSet \in BOOLEAN /\ dirty \in BOOLEAN /\ firstSync \in BOOLEAN
    BY DEF Init
  <2>2. context \in [wall : Nat, uncertainty : Nat]
    BY DEF Init, NoContext
  <2>3. QED
    BY <1>1, <2>1, <2>2, Numbers DEF Init, TypeOK
<1>3. QED
  BY <1>2, Numbers DEF Init, IInv, TimeOrder, UnpoweredIsBlank, SetAfterFirstSync,
     HeadNotAhead, SavedIsAuthoritative, ReferenceIsOld, ContextIsClose,
     ClockErrorBounded, OutageNeverUnderreported

\* A genuine sync is off by at most Jitter, or Jitter and Delay.
LEMMA SyncIsGenuine ==
  ASSUME BleSync \/ LoraSync, now \in Nat
  PROVE  \E e \in Nat, src \in Sources \ {"AON"} :
           /\ ApplySync(e, src)
           /\ e >= EpochMin /\ e <= now + Jitter /\ e >= now - Jitter - Delay
<1>1. CASE BleSync
  <2>1. PICK x \in Errors : x >= -Jitter /\ ApplySync(now + x, "SYNC")
    BY <1>1 DEF BleSync
  <2>2. now + x >= EpochMin
    BY <2>1 DEF ApplySync, Accepted, Plausible
  <2>3. x \in Int /\ x <= Jitter /\ x >= -Jitter - Delay
    BY ClockConstants
  <2>4. QED
    BY <2>1, <2>2, <2>3, Numbers DEF Sources
<1>2. CASE LoraSync
  <2>1. PICK e \in {now + x : x \in Errors} \union Garbage : ApplySync(e, "SYNC")
    BY <1>2 DEF LoraSync
  <2>2. Plausible(e)
    BY <2>1 DEF ApplySync, Accepted
  <2>3. e \notin Garbage
    <3>1. SUFFICES ASSUME e \in Garbage PROVE FALSE
      OBVIOUS
    <3>2. e \in Nat /\ (e < EpochMin \/ e >= EpochMax)
      BY <3>1, ClockConstants
    <3>3. QED
      BY <2>2, <3>2, Numbers DEF Plausible
  <2>4. PICK x \in Errors : e = now + x
    BY <2>1, <2>3
  <2>5. x \in Int /\ x <= Jitter /\ x >= -Jitter - Delay
    BY ClockConstants
  <2>6. QED
    BY <2>1, <2>2, <2>4, <2>5, Numbers DEF Sources, Plausible
<1>3. QED
  BY <1>1, <1>2

LEMMA SyncStep ==
  ASSUME IInv, BleSync \/ LoraSync
  PROVE  IInv'
<1>0. TypeOK /\ now \in Nat /\ bootedAt \in Nat /\ offFor \in Nat /\ RingOK(ring)
      /\ bootOutage \in Nat /\ cutAt \in Nat
  BY DEF IInv, TypeOK
<1>1. PICK e \in Nat, src \in Sources \ {"AON"} :
        /\ ApplySync(e, src)
        /\ e >= EpochMin /\ e <= now + Jitter /\ e >= now - Jitter - Delay
  BY <1>0, SyncIsGenuine
<1>2. /\ RingOK(ring') /\ ring' # <<>>
      /\ ring'[1] = [epoch |-> e, source |-> src]
  BY <1>0, <1>1, PushOK DEF ApplySync
<1>3. ring'[1].epoch = e /\ ring'[1].source # "AON"
  BY <1>2
<1>4. ring # <<>> => ring[1].epoch \in Nat
  BY <1>0, HeadTyped
<1>5. Gap(e) \in Nat
  BY <1>4 DEF Gap, LastKnown
<1>6. ClockNow' = e
  BY <1>0, <1>1 DEF ApplySync, ClockNow
<1>7. TypeOK'
  <2>1. epochBase' \in Int
    BY <1>0, <1>1 DEF ApplySync
  <2>2. bootOutage' \in Nat
    BY <1>0, <1>1, <1>5 DEF ApplySync, OutageAfter
  <2>3. QED
    BY <1>0, <1>1, <1>2, <2>1, <2>2 DEF ApplySync, TypeOK
<1>8. HeadNotAhead' /\ SetAfterFirstSync' /\ ClockErrorBounded'
  BY <1>0, <1>1, <1>2, <1>3, <1>6, Numbers
     DEF ApplySync, HeadNotAhead, SetAfterFirstSync, ClockErrorBounded
<1>9. SavedIsAuthoritative'
  BY <1>1, <1>2, <1>3 DEF ApplySync, IInv, SavedIsAuthoritative, Authoritative
<1>10. OutageNeverUnderreported'
  <2>1. CASE firstSync
    BY <1>1, <2>1 DEF ApplySync, OutageAfter, IInv, OutageNeverUnderreported
  <2>2. CASE ~ firstSync /\ offFor = 0
    BY <1>0, <1>1, <1>5, <2>2, Numbers DEF ApplySync, OutageAfter, OutageNeverUnderreported
  <2>3. CASE ~ firstSync /\ offFor > 0
    <3>1. ring # <<>> /\ ring[1].epoch <= cutAt + Jitter /\ cutAt + offFor <= now
      BY <1>1, <2>3 DEF ApplySync, IInv, ReferenceIsOld
    <3>2. Gap(e) >= offFor - 2 * Jitter - Delay
      BY <1>0, <1>1, <1>4, <3>1, Numbers DEF Gap, LastKnown
    <3>3. QED
      BY <1>1, <2>3, <3>2 DEF ApplySync, OutageAfter, OutageNeverUnderreported
  <2>4. QED
    BY <1>0, <2>1, <2>2, <2>3
<1>11. TimeOrder' /\ UnpoweredIsBlank' /\ ReferenceIsOld' /\ ContextIsClose'
  BY <1>1 DEF ApplySync, IInv, TimeOrder, UnpoweredIsBlank, ReferenceIsOld, ContextIsClose
<1>12. QED
  BY <1>7, <1>8, <1>9, <1>10, <1>11 DEF IInv

LEMMA TimeStep ==
  ASSUME IInv, NEW d \in Steps, TimePasses(d)
  PROVE  IInv'
<1>0. d \in Nat
  BY ClockConstants
<1>1. TypeOK /\ now' = now + d /\ now \in Nat /\ now' \in Nat /\ now' >= now
  BY <1>0 DEF IInv, TypeOK, TimePasses
<1>2. TypeOK'
  BY <1>1 DEF TypeOK, TimePasses, clock
<1>3. power = "on" => ClockNow' = ClockNow + d
  BY <1>0, <1>1 DEF TypeOK, TimePasses, ClockNow, clock
<1>4. ClockNow \in Int
  BY <1>1 DEF TypeOK, ClockNow
<1>5. \A r : RingOK(r) /\ Authoritative(r) => Authoritative(r)'
  BY <1>1, HeadTyped, Numbers DEF Authoritative
<1>6. SavedIsAuthoritative'
  BY <1>1, <1>5 DEF IInv, TypeOK, TimePasses, clock, SavedIsAuthoritative, Authoritative
<1>7. HeadNotAhead' /\ ReferenceIsOld'
  BY <1>1, HeadTyped, Numbers DEF IInv, TypeOK, TimePasses, clock, HeadNotAhead, ReferenceIsOld
<1>8. SetAfterFirstSync' /\ ClockErrorBounded'
  BY <1>0, <1>1, <1>3, <1>4, Numbers
     DEF IInv, TypeOK, TimePasses, clock, SetAfterFirstSync, ClockErrorBounded
<1>9. TimeOrder' /\ UnpoweredIsBlank' /\ ContextIsClose' /\ OutageNeverUnderreported'
  BY <1>1 DEF IInv, TypeOK, TimePasses, clock, TimeOrder, UnpoweredIsBlank, ContextIsClose,
     OutageNeverUnderreported
<1>10. QED
  BY <1>2, <1>6, <1>7, <1>8, <1>9 DEF IInv

\* A boot that cannot resume starts from the ring in flash, with the clock unset.
LEMMA ColdBootStep ==
  ASSUME IInv, ColdBoot
  PROVE  IInv'
<1>0. TypeOK /\ now \in Nat /\ cutAt \in Nat /\ cutAt <= now
  BY DEF IInv, TypeOK, TimeOrder
<1>1. RingOK(Seed) /\ (Seed # <<>> => record # NoRecord /\ Seed = record)
  BY <1>0, Numbers, EmptySeq DEF TypeOK, Seed, RingOK
<1>2. TypeOK'
  <2>1. offFor' \in Nat
    BY <1>0 DEF ColdBoot, ColdStart
  <2>2. isSet' \in BOOLEAN /\ dirty' \in BOOLEAN /\ firstSync' \in BOOLEAN
    BY <1>0 DEF ColdBoot, ColdStart, TypeOK
  <2>3. QED
    BY <1>0, <1>1, <2>1, <2>2 DEF ColdBoot, ColdStart, TypeOK
<1>3. ring' # <<>> => Authoritative(ring)'
  BY <1>1 DEF ColdBoot, ColdStart, IInv, SavedIsAuthoritative, Authoritative
<1>4. HeadNotAhead' /\ ReferenceIsOld'
  BY <1>0, <1>1, <1>3, HeadTyped, Numbers
     DEF ColdBoot, ColdStart, IInv, HeadNotAhead, ReferenceIsOld, Authoritative
<1>5. SavedIsAuthoritative'
  BY DEF ColdBoot, IInv, SavedIsAuthoritative, UnpoweredIsBlank, Authoritative
<1>6. QED
  BY <1>0, <1>2, <1>4, <1>5 DEF ColdBoot, ColdStart, IInv, TimeOrder, UnpoweredIsBlank,
     SetAfterFirstSync, ContextIsClose, ClockErrorBounded, OutageNeverUnderreported

\* The four steps of clock_persist_if_dirty move the ring, never the clock.
LEMMA PersistStep ==
  ASSUME IInv, Snapshot \/ SaveRefused \/ EraseRecord \/ ProgramRecord
  PROVE  IInv'
<1>0. TypeOK /\ RingOK(<<>>)
  BY Numbers, EmptySeq DEF IInv, TypeOK, RingOK
<1>1. power = "on"
  BY DEF IInv, UnpoweredIsBlank, Snapshot, SaveRefused, EraseRecord, ProgramRecord
<1>2. UNCHANGED <<now, power, bootedAt, epochBase, isSet, ring, firstSync, bootOutage,
                  uncertainty, context, cutAt, offFor, lost, rounding>>
  BY DEF Snapshot, SaveRefused, EraseRecord, ProgramRecord, clock
<1>3. TypeOK'
  BY <1>0, <1>2 DEF Snapshot, SaveRefused, EraseRecord, ProgramRecord, clock, TypeOK
<1>4. SavedIsAuthoritative'
  BY <1>2 DEF Snapshot, SaveRefused, EraseRecord, ProgramRecord, clock,
     IInv, SavedIsAuthoritative, Authoritative
<1>5. ClockNow' = ClockNow
  BY <1>2 DEF ClockNow
<1>6. QED
  BY <1>1, <1>2, <1>3, <1>4, <1>5 DEF IInv, TimeOrder, UnpoweredIsBlank, SetAfterFirstSync,
     HeadNotAhead, ReferenceIsOld, ContextIsClose, ClockErrorBounded, OutageNeverUnderreported

LEMMA CutStep ==
  ASSUME IInv, PowerCut
  PROVE  IInv'
<1>0. TypeOK /\ RingOK(<<>>) /\ now \in Nat /\ cutAt \in Nat
  BY Numbers, EmptySeq DEF IInv, TypeOK, RingOK
<1>1. TypeOK'
  <2>1. isSet' \in BOOLEAN /\ dirty' \in BOOLEAN /\ firstSync' \in BOOLEAN
    BY DEF PowerCut, RamLost
  <2>2. context' \in [wall : Nat, uncertainty : Nat]
    BY DEF PowerCut, NoContext
  <2>3. QED
    BY <1>0, <2>1, <2>2 DEF PowerCut, RamLost, TypeOK
<1>2. record # NoRecord => Authoritative(record)' /\ record[1].epoch <= cutAt' + Jitter
  BY DEF PowerCut, IInv, SavedIsAuthoritative, ReferenceIsOld, Authoritative
<1>3. QED
  BY <1>0, <1>1, <1>2 DEF PowerCut, RamLost, IInv, TimeOrder, UnpoweredIsBlank,
     SetAfterFirstSync, HeadNotAhead, SavedIsAuthoritative, ReferenceIsOld, ContextIsClose,
     ClockErrorBounded, OutageNeverUnderreported

LEMMA SleepStep ==
  ASSUME IInv, DeepSleep
  PROVE  IInv'
<1>0. TypeOK /\ RingOK(<<>>) /\ now \in Nat /\ ClockNow \in Int
  BY Numbers, EmptySeq DEF IInv, TypeOK, RingOK, ClockNow
<1>1. ClockNow >= EpochMin /\ ClockNow \in Nat
  BY <1>0, Numbers DEF DeepSleep, IInv, SetAfterFirstSync
<1>2. TypeOK'
  <2>1. isSet' \in BOOLEAN /\ dirty' \in BOOLEAN /\ firstSync' \in BOOLEAN
    BY DEF DeepSleep, RamLost
  <2>2. context' \in [wall : Nat, uncertainty : Nat]
    BY <1>0, <1>1 DEF DeepSleep, TypeOK
  <2>3. QED
    BY <1>0, <2>1, <2>2 DEF DeepSleep, RamLost, TypeOK
<1>3. ContextIsClose'
  BY <1>1 DEF DeepSleep, IInv, ClockErrorBounded, ContextIsClose
<1>4. record # NoRecord => Authoritative(record)' /\ record[1].epoch <= cutAt' + Jitter
  BY DEF DeepSleep, IInv, SavedIsAuthoritative, Authoritative
<1>5. QED
  BY <1>0, <1>2, <1>3, <1>4 DEF DeepSleep, RamLost, IInv, TimeOrder, UnpoweredIsBlank,
     SetAfterFirstSync, HeadNotAhead, SavedIsAuthoritative, ReferenceIsOld,
     ClockErrorBounded, OutageNeverUnderreported

LEMMA WakeStep ==
  ASSUME IInv, NEW d \in Naps, NEW m \in Int, Wake(d, m)
  PROVE  IInv'
<1> DEFINE estimate == context.wall + m
           drift == context.uncertainty + Allowance(m)
<1>0. /\ TypeOK /\ now \in Nat /\ cutAt = now /\ d \in Nat /\ m \in Nat
      /\ context.wall \in Nat /\ context.uncertainty \in Nat
      /\ lost \in Nat /\ rounding \in Nat
      /\ power = "asleep"
  BY ClockConstants DEF Wake, IInv, TypeOK, TimeOrder
<1>1. Allowance(m) \in Nat
  BY <1>0, AllowanceIsNat
<1>2. /\ now' = now + d + BootLag /\ bootedAt' = now + d
      /\ now' \in Nat /\ bootedAt' \in Nat /\ now' >= now /\ bootedAt' <= now'
  BY <1>0, Numbers DEF Wake
<1>3. RingOK(Seed) /\ (Seed # <<>> => record # NoRecord /\ Seed = record)
  BY <1>0, Numbers, EmptySeq DEF TypeOK, Seed, RingOK
<1>4. record # NoRecord =>
        /\ Authoritative(record) /\ record[1].epoch \in Nat
        /\ record[1].epoch <= cutAt + Jitter
  BY <1>0, HeadTyped DEF IInv, TypeOK, SavedIsAuthoritative, ReferenceIsOld, Authoritative
<1>5. SavedIsAuthoritative'
  <2>1. ~ dirty /\ pc = "run"
    BY <1>0 DEF IInv, UnpoweredIsBlank
  <2>2. ~ dirty' /\ pc' = "run" /\ record' = record
    BY <2>1 DEF Wake, ResumeFromAon
  <2>3. QED
    BY <1>0, <1>2, <1>4, <2>2, Numbers DEF SavedIsAuthoritative, Authoritative
<1>6. TimeOrder' /\ UnpoweredIsBlank' /\ ContextIsClose'
  BY <1>0, <1>2 DEF Wake, TimeOrder, UnpoweredIsBlank, ContextIsClose
<1>7. CASE ResumeFromAon(estimate, drift) /\ offFor' = 0
           /\ lost' = lost + BootLag /\ rounding' = rounding + Residual
  <2>1. estimate \in Nat /\ drift \in Nat /\ estimate >= EpochMin
    BY <1>0, <1>1, Numbers DEF IInv, ContextIsClose
  <2>2. /\ RingOK(ring') /\ ring' # <<>>
        /\ ring'[1].epoch = estimate
    <3>1. ring' = Push(Seed, estimate, "AON") /\ "AON" \in Sources
      BY <1>7 DEF ResumeFromAon, Sources
    <3>2. PICK r : r = Seed /\ RingOK(r)
      BY <1>3
    <3>3. PICK e \in Nat : e = estimate
      BY <2>1
    <3>4. /\ RingOK(Push(r, e, "AON")) /\ Push(r, e, "AON") # <<>>
          /\ Push(r, e, "AON")[1] = [epoch |-> e, source |-> "AON"]
      BY <3>1, <3>2, PushOK
    <3>5. QED
      BY <3>1, <3>2, <3>3, <3>4
  <2>3. ClockNow' = estimate
    <3>1. epochBase' = estimate - BootLag
      BY <1>7 DEF ResumeFromAon
    <3>2. QED
      BY <1>0, <1>2, <2>1, <3>1, Numbers DEF ClockNow
  <2>4. /\ estimate - (now + d) <= Jitter + drift + rounding'
        /\ (now + d) - estimate <= Jitter + Delay + drift + rounding' + lost
    <3>1. m - d <= Allowance(m) + Residual /\ d - m <= Allowance(m) + Residual
      BY DEF Wake
    <3>2. QED
      BY <1>0, <1>1, <1>7, <3>1, Numbers DEF IInv, ContextIsClose
  <2>5. ClockErrorBounded' /\ HeadNotAhead'
    <3>1. /\ uncertainty' = drift /\ lost' = lost + BootLag
          /\ now' = now + d + BootLag /\ rounding' \in Nat
      BY <1>0, <1>2, <1>7, Numbers DEF ResumeFromAon
    <3>2. /\ estimate - now' <= Jitter + drift + rounding'
          /\ now' - estimate <= Jitter + Delay + drift + rounding' + lost'
      BY <1>0, <2>1, <2>4, <3>1, Numbers
    <3>3. estimate <= now' + Jitter + drift + rounding'
      BY <1>0, <1>2, <2>1, <3>1, <3>2, Numbers
    <3>4. QED
      BY <2>2, <2>3, <3>1, <3>2, <3>3 DEF ClockErrorBounded, HeadNotAhead
  <2>6. TypeOK'
    <3>1. epochBase' \in Int /\ lost' \in Nat /\ rounding' \in Nat /\ uncertainty' \in Nat
          /\ offFor' \in Nat
      BY <1>0, <1>7, <2>1, Numbers DEF ResumeFromAon
    <3>2. QED
      BY <1>0, <1>2, <1>7, <2>2, <3>1 DEF Wake, ResumeFromAon, TypeOK, NoContext
  <2>7. OutageNeverUnderreported' /\ SetAfterFirstSync' /\ ReferenceIsOld'
    BY <1>0, <1>7, <2>1, <2>2, <2>3, <2>6, Numbers
       DEF Wake, ResumeFromAon, OutageNeverUnderreported, SetAfterFirstSync, ReferenceIsOld,
       TypeOK
  <2>8. QED
    BY <1>5, <1>6, <2>5, <2>6, <2>7 DEF IInv
<1>8. CASE ColdStart(now + d) /\ UNCHANGED dirty
  <2>1. offFor' \in Nat /\ cutAt + offFor' <= now'
    BY <1>0, <1>2, <1>8, Numbers DEF ColdStart
  <2>2. TypeOK'
    <3>1. isSet' \in BOOLEAN /\ dirty' \in BOOLEAN /\ firstSync' \in BOOLEAN
      BY <1>0, <1>8 DEF ColdStart, TypeOK
    <3>2. context' \in [wall : Nat, uncertainty : Nat]
      BY DEF Wake, NoContext
    <3>3. QED
      BY <1>0, <1>2, <1>3, <1>8, <2>1, <3>1, <3>2 DEF Wake, ColdStart, TypeOK
  <2>3. HeadNotAhead' /\ ReferenceIsOld'
    <3>1. ring' = Seed /\ uncertainty' = 0 /\ rounding' = 0 /\ ~ firstSync'
          /\ record' = record /\ cutAt' = cutAt /\ power' = "on"
      BY <1>8 DEF ColdStart, Wake
    <3>2. Seed # <<>> => /\ Seed[1].epoch \in Nat /\ Seed[1].epoch <= cutAt + Jitter
      BY <1>3, <1>4
    <3>3. Seed = <<>> => offFor' = 0
      BY <1>8 DEF ColdStart
    <3>4. ASSUME Seed # <<>> PROVE Seed[1].epoch <= now' + Jitter
      <4>1. PICK head \in Nat : head = Seed[1].epoch
        BY <3>2, <3>4
      <4>2. head <= now + Jitter
        BY <1>0, <3>2, <3>4, <4>1
      <4>3. head <= now' + Jitter
        BY <1>0, <1>2, <4>2, Numbers
      <4>4. QED
        BY <4>1, <4>3
    <3>5. now' + Jitter + uncertainty' + rounding' = now' + Jitter
      BY <1>2, <3>1, Numbers
    <3>6. HeadNotAhead'
      BY <3>1, <3>4, <3>5 DEF HeadNotAhead
    <3>7. ReferenceIsOld'
      BY <2>1, <3>1, <3>2, <3>3 DEF ReferenceIsOld
    <3>8. QED
      BY <3>6, <3>7
  <2>4. SetAfterFirstSync' /\ ClockErrorBounded' /\ OutageNeverUnderreported'
    BY <1>8 DEF ColdStart, SetAfterFirstSync, ClockErrorBounded, OutageNeverUnderreported
  <2>5. QED
    BY <1>5, <1>6, <2>2, <2>3, <2>4 DEF IInv
<1>9. QED
  BY <1>7, <1>8 DEF Wake

LEMMA StepIsGood == IInv /\ [Next]_vars => IInv'
<1> SUFFICES ASSUME IInv, [Next]_vars PROVE IInv'
  OBVIOUS
<1>1. CASE \E d \in Naps, x \in Drifts : Wake(d, d + x)
  <2>1. PICK d \in Naps, x \in Drifts : Wake(d, d + x)
    BY <1>1
  <2>2. d + x \in Int
    BY ClockConstants
  <2>3. QED
    BY <2>1, <2>2, WakeStep
<1>2. CASE UNCHANGED vars
  BY <1>2 DEF vars, clock, IInv, TypeOK, TimeOrder, UnpoweredIsBlank, SetAfterFirstSync,
     HeadNotAhead, SavedIsAuthoritative, Authoritative, ReferenceIsOld, ContextIsClose,
     ClockErrorBounded, OutageNeverUnderreported, ClockNow
<1>3. QED
  BY <1>1, <1>2, TimeStep, ColdBootStep, SyncStep, PersistStep, CutStep, SleepStep DEF Next

-----------------------------------------------------------------------------
(* Theorems *)

\* The inductive invariant holds of every behaviour of the clock.
THEOREM InductiveInvariant == Spec => []IInv
BY InitIsGood, StepIsGood, PTL DEF Spec

\* The variables of clock.c and clock_store.c keep to their types.
THEOREM TypeCorrect == Spec => []TypeOK
<1>1. IInv => TypeOK
  BY DEF IInv
<1>2. QED
  BY <1>1, InductiveInvariant, PTL

\* The error of a set clock stays within what the code charges for drift, plus
\* the boot time and the part seconds it does not charge.
THEOREM ErrorIsBounded == Spec => []ClockErrorBounded
<1>1. IInv => ClockErrorBounded
  BY DEF IInv
<1>2. QED
  BY <1>1, InductiveInvariant, PTL

\* clock_apply_sync turns no genuine fresh sync down.
THEOREM FreshSyncIsAccepted == Spec => []FreshSyncAccepted
<1>1. IInv => FreshSyncAccepted
  <2> SUFFICES ASSUME IInv, power = "on", rounding <= Slack - 2 * Jitter,
                      NEW x \in Errors, x >= -Jitter, Plausible(now + x)
               PROVE  Accepted(now + x)
    BY DEF FreshSyncAccepted
  <2>1. x \in Int /\ now \in Nat /\ uncertainty \in Nat /\ rounding \in Nat
    BY ClockConstants DEF IInv, TypeOK
  <2>2. ring # <<>> => ring[1].epoch \in Nat
                       /\ ring[1].epoch <= now + Jitter + uncertainty + rounding
    BY HeadTyped DEF IInv, TypeOK, HeadNotAhead
  <2>3. QED
    BY <2>1, <2>2, Numbers DEF Accepted, LastKnown
<1>2. QED
  BY <1>1, InductiveInvariant, PTL

\* The record in flash always ends in a sync.
THEOREM FlashKeepsAuthorities == Spec => []FlashHeadIsAuthoritative
<1>1. IInv => FlashHeadIsAuthoritative
  BY DEF IInv, SavedIsAuthoritative, Authoritative, FlashHeadIsAuthoritative
<1>2. QED
  BY <1>1, InductiveInvariant, PTL

\* No outage is reported shorter than it was, beyond the errors of the two syncs.
THEOREM OutageIsNotUnderreported == Spec => []OutageNeverUnderreported
<1>1. IInv => OutageNeverUnderreported
  BY DEF IInv
<1>2. QED
  BY <1>1, InductiveInvariant, PTL

-----------------------------------------------------------------------------
(* Naps are resumed from.                                                    *)

\* Sources are never late, the timer keeps time to a quarter, a boot takes the
\* part of a second the timer may lose, and the time left to run could double
\* without reaching the last plausible epoch.
Punctual ==
  /\ Delay = 0
  /\ 4 * Residual <= Second /\ 4 * Residual <= MaxSlept /\ Residual <= BootLag
  /\ Start + 2 * (MaxNow - Start) + Jitter < EpochMax

\* The latest a clock can have got to, if twice as much time passes for it as
\* does.
Latest == Start + 2 * (now - Start) + Jitter

\* The clock and the time the timer carries are behind no sync that is saved, or
\* about to be, by more than two of them can differ by.
NotSetBack ==
  /\ Start <= now
  /\ power = "on" /\ isSet =>
       /\ ClockNow <= Latest
       /\ record # NoRecord => record[1].epoch <= ClockNow + 2 * Jitter
       /\ pc # "run" => blob[1].epoch <= ClockNow + 2 * Jitter
       /\ dirty => ring[1].epoch <= ClockNow + 2 * Jitter
  /\ power = "asleep" =>
       /\ context.wall <= Latest
       /\ record # NoRecord => record[1].epoch <= context.wall + 2 * Jitter

LEMMA TimerKeepsTime ==
  ASSUME Punctual, NEW m \in Nat, NEW d \in Nat, m - d <= Allowance(m) + Residual
  PROVE  3 * m <= 4 * d + 4 * Residual
<1> DEFINE q == m \div Second
           a == Allowance(m)
           b == q * Second
<1>1. q \in Nat /\ Second \in Nat \ {0} /\ Residual \in Nat
  BY ClockConstants
<1>2. b \in Nat /\ b <= m
  BY <1>1
<1>3. a = q * Residual /\ a \in Nat
  BY <1>1 DEF Allowance
<1>4. 4 * a <= b
  <2> HIDE DEF q
  <2>1. q * (4 * Residual) <= q * Second
    BY <1>1 DEF Punctual
  <2>2. 4 * a = q * (4 * Residual)
    BY <1>1, <1>3
  <2>3. QED
    BY <2>1, <2>2
<1>5. m - d <= a + Residual
  OBVIOUS
<1> HIDE DEF a, b, q
<1>6. QED
  BY <1>1, <1>2, <1>3, <1>4, <1>5

LEMMA HeadsTyped ==
  ASSUME IInv
  PROVE  /\ record # NoRecord => record[1].epoch \in Nat /\ record[1].epoch <= now + Jitter
         /\ pc # "run" => blob[1].epoch \in Nat /\ blob[1].epoch <= now + Jitter
         /\ dirty => ring[1].epoch \in Nat /\ ring[1].epoch <= now + Jitter
BY HeadTyped DEF IInv, TypeOK, SavedIsAuthoritative, Authoritative

LEMMA SyncSetsNotBack ==
  ASSUME Punctual, IInv, NotSetBack, BleSync \/ LoraSync
  PROVE  NotSetBack'
<1>0. /\ TypeOK /\ now \in Nat /\ bootedAt \in Nat /\ RingOK(ring)
      /\ Start \in Nat /\ Jitter \in Nat
  BY Numbers DEF IInv, TypeOK
<1>1. PICK e \in Nat, src \in Sources \ {"AON"} :
        /\ ApplySync(e, src)
        /\ e >= EpochMin /\ e <= now + Jitter /\ e >= now - Jitter - Delay
  BY <1>0, SyncIsGenuine
<1>2. ring'[1] = [epoch |-> e, source |-> src]
  BY <1>0, <1>1, PushOK DEF ApplySync
<1>x. ring'[1].epoch = e
  BY <1>2
<1>3. ClockNow' = e
  BY <1>0, <1>1 DEF ApplySync, ClockNow
<1>4. UNCHANGED <<now, record, blob, pc, power>> /\ power = "on"
  BY <1>1 DEF ApplySync
<1>5. now - Jitter <= e /\ Start <= now
  BY <1>0, <1>1 DEF Punctual, NotSetBack
<1>6. e <= Latest /\ Latest' = Latest
  BY <1>0, <1>1, <1>4, <1>5 DEF Latest
<1>7. \A h \in Nat : h <= now + Jitter => h <= e + 2 * Jitter
  BY <1>0, <1>5
<1>8. e <= e + 2 * Jitter
  BY <1>0
<1>9. /\ record' # NoRecord => record'[1].epoch <= ClockNow' + 2 * Jitter
      /\ pc' # "run" => blob'[1].epoch <= ClockNow' + 2 * Jitter
  BY <1>3, <1>4, <1>7, HeadsTyped
<1>10. QED
  BY <1>x, <1>3, <1>4, <1>5, <1>6, <1>8, <1>9 DEF NotSetBack

LEMMA TimeSetsNotBack ==
  ASSUME IInv, NotSetBack, NEW d \in Steps, TimePasses(d)
  PROVE  NotSetBack'
<1>1. /\ d \in Nat /\ now \in Nat /\ Start \in Nat /\ Jitter \in Nat
      /\ bootedAt \in Nat /\ epochBase \in Int
  BY ClockConstants DEF IInv, TypeOK
<1>2. /\ now' = now + d /\ power # "asleep"
      /\ UNCHANGED <<power, pc, bootedAt, epochBase, isSet, ring, dirty, blob, record, context>>
  BY DEF TimePasses, clock
<1>3. ClockNow' = ClockNow + d /\ Latest' = Latest + 2 * d /\ ClockNow \in Int /\ Latest \in Int
  BY <1>1, <1>2 DEF ClockNow, Latest
<1>4. Start <= now'
  BY <1>1, <1>2 DEF NotSetBack
<1>5. \A h \in Nat : h <= ClockNow + 2 * Jitter => h <= ClockNow' + 2 * Jitter
  BY <1>1, <1>3
<1>6. ClockNow <= Latest => ClockNow' <= Latest'
  BY <1>1, <1>3
<1>7. QED
  BY <1>2, <1>4, <1>5, <1>6, HeadsTyped DEF NotSetBack

LEMMA WakeSetsNotBack ==
  ASSUME Punctual, IInv, NotSetBack, NEW d \in Naps, NEW m \in Int, Wake(d, m)
  PROVE  /\ NotSetBack'
         /\ 2 * (bootedAt' - now) <= MaxSlept => isSet'
<1> DEFINE e == context.wall + m
           w == context.wall
<1>1. /\ now \in Nat /\ d \in Nat /\ m \in Nat /\ w \in Nat
      /\ Start \in Nat /\ Jitter \in Nat /\ BootLag \in Nat /\ Residual \in Nat
      /\ MaxNow \in Nat /\ MaxSlept \in Nat /\ EpochMin \in Nat /\ EpochMax \in Nat
      /\ Slack \in Nat /\ 2 * Jitter <= Slack
  BY ClockConstants DEF Wake, IInv, TypeOK
<1>2. /\ power = "asleep" /\ now' = now + d + BootLag /\ bootedAt' = now + d
      /\ now + d + BootLag <= MaxNow /\ m - d <= Allowance(m) + Residual
      /\ UNCHANGED <<pc, record>> /\ power' = "on"
  BY DEF Wake
<1>3. 3 * m <= 4 * d + 4 * Residual
  BY <1>1, <1>2, TimerKeepsTime
<1>4. /\ w <= Latest /\ Start <= now /\ w >= EpochMin
      /\ record # NoRecord => record[1].epoch <= w + 2 * Jitter
  BY <1>2 DEF NotSetBack, IInv, ContextIsClose
<1>5. ~ dirty /\ pc = "run"
  BY <1>2 DEF IInv, UnpoweredIsBlank
<1>6. Residual <= BootLag
  BY DEF Punctual
<1>7. e <= Latest' /\ Start <= now'
  <2>1. w <= Start + 2 * (now - Start) + Jitter
    BY <1>4 DEF Latest
  <2>2. Latest' = Start + 2 * ((now + d + BootLag) - Start) + Jitter
    BY <1>2 DEF Latest
  <2>3. e = w + m
    OBVIOUS
  <2> HIDE DEF e
  <2>4. QED
    BY <1>1, <1>2, <1>3, <1>4, <1>6, <2>1, <2>2, <2>3
<1>8. e \in Nat /\ w <= e
  BY <1>1
<1>9. record # NoRecord => record[1].epoch \in Nat /\ record[1].epoch <= e + 2 * Jitter
  <2>1. \A h \in Nat : h <= w + 2 * Jitter => h <= e + 2 * Jitter
    BY <1>1, <1>8
  <2>2. QED
    BY <1>4, <2>1, HeadsTyped
<1>10. Resumable(e)
  <2>1. e >= EpochMin
    BY <1>1, <1>4, <1>8
  <2>2. e < EpochMax
    <3>1. Latest' = Start + 2 * ((now + d + BootLag) - Start) + Jitter
      BY <1>2 DEF Latest
    <3>2. Start + 2 * (MaxNow - Start) + Jitter < EpochMax
      BY DEF Punctual
    <3> HIDE DEF e
    <3>3. QED
      BY <1>1, <1>2, <1>7, <1>8, <3>1, <3>2
  <2>3. \A h \in Nat : h <= e + 2 * Jitter => e + Slack >= h
    <3> HIDE DEF e
    <3>1. QED
      BY <1>1, <1>8
  <2>4. Seed # <<>> => record # NoRecord /\ Seed = record
    BY DEF Seed
  <2>5. Seed # <<>> => e + Slack >= LastKnown(Seed)
    BY <1>9, <2>3, <2>4 DEF LastKnown
  <2>6. QED
    BY <2>1, <2>2, <2>5 DEF Resumable, Plausible
<1>11. CASE m <= MaxSlept
  <2>1. ResumeFromAon(e, context.uncertainty + Allowance(m))
    BY <1>10, <1>11 DEF Wake
  <2>2. ~ dirty' /\ pc' = "run" /\ isSet'
    BY <1>2, <1>5, <2>1 DEF ResumeFromAon
  <2>3. ClockNow' = e
    <3>1. epochBase' = e - BootLag
      BY <2>1 DEF ResumeFromAon
    <3> HIDE DEF e
    <3>2. QED
      BY <1>1, <1>2, <1>8, <3>1 DEF ClockNow
  <2>4. QED
    BY <1>2, <1>7, <1>9, <2>2, <2>3 DEF NotSetBack
<1>12. CASE ~(m <= MaxSlept)
  <2>1. ~ isSet'
    BY <1>12 DEF Wake, ColdStart
  <2>2. ~(2 * (bootedAt' - now) <= MaxSlept)
    <3>1. 4 * Residual <= MaxSlept
      BY DEF Punctual
    <3>2. QED
      BY <1>1, <1>2, <1>3, <1>12, <3>1
  <2>3. QED
    BY <1>2, <1>7, <2>1, <2>2 DEF NotSetBack
<1>13. QED
  BY <1>11, <1>12

LEMMA OthersSetNotBack ==
  ASSUME IInv, NotSetBack,
         \/ ColdBoot \/ Snapshot \/ SaveRefused \/ EraseRecord \/ ProgramRecord
         \/ PowerCut \/ DeepSleep \/ UNCHANGED vars
  PROVE  NotSetBack'
<1>1. CASE ColdBoot
  BY <1>1 DEF ColdBoot, ColdStart, NotSetBack
<1>2. CASE PowerCut
  BY <1>2 DEF PowerCut, RamLost, NotSetBack
<1>3. CASE DeepSleep
  BY <1>3 DEF DeepSleep, RamLost, NotSetBack, Latest
<1>4. CASE Snapshot \/ SaveRefused \/ EraseRecord \/ ProgramRecord
  <2>1. UNCHANGED <<now, power, isSet, ClockNow, Latest>> /\ power = "on"
    BY <1>4 DEF Snapshot, SaveRefused, EraseRecord, ProgramRecord, clock, ClockNow, Latest,
                IInv, UnpoweredIsBlank
  <2>2. QED
    BY <1>4, <2>1 DEF NotSetBack, Snapshot, SaveRefused, EraseRecord, ProgramRecord, clock
<1>5. CASE UNCHANGED vars
  BY <1>5 DEF vars, clock, NotSetBack, ClockNow, Latest
<1>6. QED
  BY <1>1, <1>2, <1>3, <1>4, <1>5

\* With sources that are never late, no nap of a credible length ends in a cold
\* start: a later sync cannot have set the clock back by more than the slack that
\* the timer's estimate is given (clock_resume_from_aon).
THEOREM NapsAreResumed ==
  ASSUME Punctual
  PROVE  Spec => EveryNapIsResumed
<1> DEFINE Inv == IInv /\ NotSetBack
           Resumed == power = "asleep" /\ power' = "on" /\ 2 * (bootedAt' - now) <= MaxSlept
                        => isSet'
<1>1. Init => NotSetBack
  BY Numbers DEF Init, NotSetBack
<1>2. Inv /\ [Next]_vars => NotSetBack' /\ [Resumed]_vars
  <2> SUFFICES ASSUME Inv, [Next]_vars PROVE NotSetBack' /\ [Resumed]_vars
    OBVIOUS
  <2>1. CASE \E d \in Naps, x \in Drifts : Wake(d, d + x)
    <3>1. PICK d \in Naps, x \in Drifts : Wake(d, d + x)
      BY <2>1
    <3>2. d + x \in Int
      BY ClockConstants
    <3>3. QED
      BY <3>1, <3>2, WakeSetsNotBack
  <2>2. CASE \E d \in Steps : TimePasses(d)
    <3>1. PICK d \in Steps : TimePasses(d)
      BY <2>2
    <3>2. power' = power
      BY <3>1 DEF TimePasses
    <3>3. QED
      BY <3>1, <3>2, TimeSetsNotBack
  <2>3. CASE BleSync \/ LoraSync
    <3>1. power' = power
      BY <2>3 DEF BleSync, LoraSync, ApplySync
    <3>2. QED
      BY <2>3, <3>1, SyncSetsNotBack
  <2>4. CASE \/ ColdBoot \/ Snapshot \/ SaveRefused \/ EraseRecord \/ ProgramRecord
             \/ PowerCut \/ DeepSleep \/ UNCHANGED vars
    <3>1. ~(power = "asleep" /\ power' = "on")
      BY <2>4 DEF ColdBoot, Snapshot, SaveRefused, EraseRecord, ProgramRecord, PowerCut,
                  DeepSleep, vars
    <3>2. QED
      BY <2>4, <3>1, OthersSetNotBack
  <2>5. QED
    BY <2>1, <2>2, <2>3, <2>4 DEF Next
<1>3. QED
  BY <1>1, <1>2, InductiveInvariant, PTL DEF Spec, EveryNapIsResumed
=============================================================================
