--------------------------- MODULE LoraNode_proofs ---------------------------
(***************************************************************************)
(* Proofs about LoraNode for any period, naps, work and slips, any pins    *)
(* and coordinates, and any number of edits, patches, cuts and deep        *)
(* sleeps: the period gate, the naps that keep its cadence, and the BOOT   *)
(* frames of a power cycle.                                                *)
(***************************************************************************)
EXTENDS LoraNode, TLAPS

LEMMA Numbers ==
  /\ Period \in Nat /\ Period > 0 /\ AgeMax \in Nat /\ AgeMax > Period
  /\ MaxWork \in Nat /\ MaxSlip \in Nat
  /\ \A w \in Works : w \in 1..MaxWork
  /\ \A s \in Slips : s \in -MaxSlip..MaxSlip
  /\ \A n \in Naps : n \in Nat /\ n > 0
  /\ Edits \in Nat /\ Patches \in Nat /\ Cuts \in Nat /\ Sleeps \in Nat
BY LoraAssumption

LEMMA ConfigFields ==
  ASSUME NEW c \in Configs
  PROVE  c.enabled \in BOOLEAN /\ c.pins \in Pins \cup {NoPins} /\ c.coords \in Coords \cup {NoCoords}
BY DEF Configs

\* What a patch of the network makes of a configuration is one.
LEMMA PatchedIsConfig ==
  ASSUME NEW c \in Configs, NEW x \in Coords
  PROVE  [c EXCEPT !.coords = x] \in Configs
BY DEF Configs

\* The smaller of two numbers (FiniteSetsExt).
LEMMA MinOfTwo ==
  ASSUME NEW a \in Int, NEW b \in Int
  PROVE  Min({a, b}) \in {a, b} /\ Min({a, b}) <= a /\ Min({a, b}) <= b
<1>1. \E x \in {a, b} : \A y \in {a, b} : x <= y
  BY a <= b \/ b <= a
<1>2. QED
  BY <1>1 DEF Min

-----------------------------------------------------------------------------
(* Ages *)

LEMMA LaterTyped ==
  ASSUME NEW a \in 0..AgeMax, NEW d \in Int, a + d >= 0
  PROVE  Later(a, d) \in 0..AgeMax
BY Numbers DEF Later

\* Two ages stay as far apart as they were while the same time passes.
LEMMA LaterStaysClose ==
  ASSUME NEW a \in 0..AgeMax, NEW s \in 0..AgeMax, NEW d \in Nat, NEW c \in Nat,
         a <= s + c, s <= a + c
  PROVE  Later(a, d) <= Later(s, d) + c /\ Later(s, d) <= Later(a, d) + c
BY Numbers DEF Later

\* An age carried through a deep sleep slips by MaxSlip at the most.
LEMMA SlipIsBounded ==
  ASSUME NEW a \in 0..AgeMax, NEW s \in 0..AgeMax, NEW slip \in Slips, NEW c \in Nat,
         a <= s + c, s <= a + c, a + slip >= 0
  PROVE  Later(a, slip) <= s + c + MaxSlip /\ s <= Later(a, slip) + c + MaxSlip
BY Numbers DEF Later

\* What the slips of one more deep sleep come to.
LEMMA OneMoreSlip ==
  ASSUME NEW n \in Nat
  PROVE  n * MaxSlip \in Nat /\ (n + 1) * MaxSlip = n * MaxSlip + MaxSlip
BY Numbers

-----------------------------------------------------------------------------
(* The radio *)

\* A frame handed over settles what it carried, and a BOOT frame is one more.
LEMMA DeliveredTyped ==
  ASSUME SettledTyped, NEW c \in Configs, NEW cyc \in BOOLEAN, Delivered(c, cyc)
  PROVE  /\ SettledTyped'
         /\ \/ UNCHANGED <<boots, bootSent>>
            \/ ~bootSent /\ bootSent' /\ boots' = boots + 1
<1> DEFINE f == Frame(c, cyc)
<1> USE DEF SettledTyped
<1>1. f = "boot" => ~bootSent
  BY DEF Frame, CoordsDirty
<1>2. f # "boot" => bootSent' = bootSent /\ boots' = boots
  BY DEF Delivered
<1>3. f = "boot" => bootSent' /\ boots' = boots + 1
  BY DEF Delivered
<1>4. coordsSent' \in Coords \cup {NoCoords} /\ told' \in Coords \cup {NoCoords}
  BY ConfigFields DEF Delivered
<1>5. ack' \in BOOLEAN /\ owed' \in BOOLEAN
  BY DEF Delivered
<1>6. tlv' \in Coords \cup {NoCoords} /\ patches' \in 0..Patches
  BY Numbers DEF Delivered
<1>7. bootSent' \in BOOLEAN
  BY DEF Delivered
<1>8. boots' \in Nat
  BY <1>2, <1>3
<1>9. QED
  BY <1>1, <1>2, <1>3, <1>4, <1>5, <1>6, <1>7, <1>8

LEMMA TalkTyped ==
  ASSUME RadioTyped, SettledTyped, NEW c \in Configs, NEW cyc \in BOOLEAN, Talk(c, cyc)
  PROVE  /\ RadioTyped' /\ SettledTyped'
         /\ \/ UNCHANGED <<boots, bootSent>>
            \/ ~bootSent /\ bootSent' /\ boots' = boots + 1
<1>1. RadioTyped'
  BY ConfigFields DEF RadioTyped, Talk, SilentModule, OpenFails, JoinFails, InSession, DoUplink,
     Rejected, TimedOut, Delivered
<1>2. CASE NoUplink
  BY <1>1, <1>2 DEF NoUplink, SettledTyped, sendOnce, frames
<1>3. CASE Delivered(c, cyc)
  BY <1>1, <1>3, DeliveredTyped
<1>4. QED
  BY <1>2, <1>3 DEF Talk, DoUplink, Rejected, TimedOut

\* A cycle of the loop tries the network when the period is due, and counts
\* the attempt whatever comes of it; otherwise it leaves everything alone.
LEMMA CycleTyped ==
  ASSUME RadioTyped, SettledTyped, NEW c \in Configs, LoraCycle(c)
  PROVE  /\ RadioTyped' /\ SettledTyped'
         /\ \/ UNCHANGED <<boots, bootSent>>
            \/ ~bootSent /\ bootSent' /\ boots' = boots + 1
         /\ Attempt \/ UNCHANGED timing
<1>1. CASE Attempt /\ Talk(c, TRUE)
  BY <1>1, TalkTyped
<1>2. CASE UNCHANGED <<timing, radio>> /\ NoUplink
  BY <1>2 DEF NoUplink, RadioTyped, SettledTyped, radio, sendOnce, frames
<1>3. QED
  BY <1>1, <1>2 DEF LoraCycle

LEMMA BringUpTyped ==
  ASSUME RadioTyped, NEW c \in Configs, LoraInit(c)
  PROVE  RadioTyped'
BY ConfigFields DEF RadioTyped, LoraInit, SilentModule, OpenFails, JoinFails, InSession, radio

-----------------------------------------------------------------------------
(* Types *)

\* A reset clears every static to a value of its type.
LEMMA ResetTyped ==
  ASSUME StoreTyped, SettledTyped, RamLost, UNCHANGED saved,
         boots' \in Nat, told' \in Coords \cup {NoCoords}, owed' \in BOOLEAN, patches' = patches
  PROVE  /\ StoreTyped' /\ RadioTyped' /\ SettledTyped'
         /\ attempted' = FALSE /\ bootSent' = FALSE /\ age' = 0 /\ age' \in 0..AgeMax
<1>1. StoreTyped'
  BY DEF StoreTyped, RamLost
<1>2. RadioTyped'
  BY DEF RadioTyped, RamLost
<1>3. SettledTyped'
  BY DEF SettledTyped, RamLost
<1>4. age' \in 0..AgeMax
  BY Numbers DEF RamLost
<1>5. QED
  BY <1>1, <1>2, <1>3, <1>4 DEF RamLost

\* Steps of the supervisor that try the network.
LEMMA TryingStep ==
  ASSUME TypeOK, BootCycle \/ Cycle \/ Ping
  PROVE  /\ TypeOK'
         /\ \/ UNCHANGED <<boots, bootSent>>
            \/ ~bootSent /\ bootSent' /\ boots' = boots + 1
         /\ Attempt \/ UNCHANGED timing
         /\ UNCHANGED <<power, stash, lapses>>
<1>0. PlaceTyped /\ StoreTyped /\ RadioTyped /\ TimesTyped /\ SettledTyped /\ CountsTyped
  BY DEF TypeOK
<1>1. PICK c \in Configs, cyc \in BOOLEAN : LoraCycle(c) \/ (Talk(c, cyc) /\ UNCHANGED timing)
  BY <1>0 DEF BootCycle, Cycle, Ping, StoreTyped
<1>2. /\ RadioTyped' /\ SettledTyped'
      /\ \/ UNCHANGED <<boots, bootSent>>
         \/ ~bootSent /\ bootSent' /\ boots' = boots + 1
      /\ Attempt \/ UNCHANGED timing
  BY <1>0, <1>1, TalkTyped, CycleTyped
<1>3. PlaceTyped' /\ StoreTyped' /\ CountsTyped' /\ UNCHANGED <<power, stash, lapses>>
  BY <1>0 DEF BootCycle, Cycle, Ping, PlaceTyped, StoreTyped, CountsTyped, store, others
<1>4. CASE Attempt
  <2>1. attempted' \in BOOLEAN
    BY <1>4 DEF Attempt
  <2>2. age' \in 0..AgeMax /\ sinceTry' \in 0..AgeMax /\ slept' \in Nat
    BY <1>4, Numbers DEF Attempt
  <2>3. TimesTyped'
    BY <1>0, <1>3, <2>1, <2>2 DEF TimesTyped
  <2>4. QED
    BY <1>2, <1>3, <2>3 DEF TypeOK
<1>5. CASE UNCHANGED timing
  <2>1. TimesTyped'
    BY <1>0, <1>3, <1>5 DEF TimesTyped, timing
  <2>2. QED
    BY <1>2, <1>3, <2>1 DEF TypeOK
<1>6. QED
  BY <1>2, <1>4, <1>5

\* Steps of the supervisor that neither take time nor try the network.
LEMMA KeepingStep ==
  ASSUME TypeOK, Take \/ Persist \/ Idle \/ At \/ ConfigWrite
  PROVE  /\ TypeOK'
         /\ UNCHANGED power /\ UNCHANGED <<attempted, age, sinceTry, slept>> /\ UNCHANGED stash
         /\ UNCHANGED <<boots, bootSent>> /\ UNCHANGED <<lapses, cuts, sleeps>>
<1>0. PlaceTyped /\ StoreTyped /\ RadioTyped /\ TimesTyped /\ SettledTyped /\ CountsTyped
  BY DEF TypeOK
<1>1. /\ UNCHANGED power /\ UNCHANGED <<attempted, age, sinceTry, slept>> /\ UNCHANGED stash
      /\ UNCHANGED <<boots, bootSent>> /\ UNCHANGED <<lapses, cuts, sleeps>>
      /\ edits' = edits \/ (edits' = edits + 1 /\ edits < Edits)
  <2>1. CASE Take
    BY <2>1 DEF Take, timing, bounds, others
  <2>2. CASE Persist
    BY <2>2 DEF Persist, timing, sendOnce, frames, bounds, others
  <2>3. CASE Idle
    BY <2>3 DEF Idle, timing, sendOnce, frames, bounds, others
  <2>4. CASE At
    BY <2>4 DEF At, timing, sendOnce, frames, bounds, others
  <2>5. CASE ConfigWrite
    BY <2>5 DEF ConfigWrite, timing, sendOnce, frames
  <2>6. QED
    BY <2>1, <2>2, <2>3, <2>4, <2>5
<1>2. PlaceTyped' /\ CountsTyped' /\ TimesTyped'
  <2>1. PlaceTyped'
    BY <1>0, <1>1 DEF PlaceTyped, Take, Persist, Idle, At, ConfigWrite
  <2>2. CountsTyped'
    BY <1>0, <1>1, Numbers DEF CountsTyped
  <2>3. TimesTyped'
    BY <1>0, <1>1 DEF TimesTyped
  <2>4. QED
    BY <2>1, <2>2, <2>3
<1>3. RadioTyped'
  BY <1>0, ConfigFields
     DEF RadioTyped, StoreTyped, radio, Take, Persist, Idle, At, ConfigWrite, OpenFails, InSession
<1>4. StoreTyped' /\ SettledTyped'
  <2>1. CASE Take
    <3>1. CASE TakePatch
      <4>1. tlv \in Coords /\ cfg \in Configs
        BY <1>0, <3>1 DEF TakePatch, SettledTyped, StoreTyped
      <4>2. cfg' \in Configs
        BY <3>1, <4>1, PatchedIsConfig DEF TakePatch
      <4>3. live' \in Configs /\ saved' \in Configs
        BY <1>0, <3>1, <4>2 DEF TakePatch, Save, StoreTyped
      <4>4. dirty' \in BOOLEAN
        BY <1>0, <2>1 DEF Take, StoreTyped
      <4>5. SettledTyped'
        BY <1>0, <2>1, <3>1 DEF Take, TakePatch, SettledTyped, bounds
      <4>6. QED
        BY <4>2, <4>3, <4>4, <4>5 DEF StoreTyped
    <3>2. CASE UNCHANGED <<cfg, live, saved, tlv, ack, owed>>
      BY <1>0, <2>1, <3>2 DEF Take, StoreTyped, SettledTyped, bounds
    <3>3. QED
      BY <2>1, <3>1, <3>2 DEF Take
  <2>2. CASE Persist
    <3>1. live' \in Configs /\ saved' \in Configs
      BY <1>0, <2>2 DEF Persist, Save, StoreTyped
    <3>2. QED
      BY <1>0, <2>2, <3>1 DEF Persist, StoreTyped, SettledTyped, sendOnce, frames, bounds
  <2>3. CASE Idle \/ At \/ ConfigWrite
    BY <1>0, <2>3 DEF Idle, At, ConfigWrite, StoreTyped, SettledTyped, store, sendOnce, frames, bounds
  <2>4. QED
    BY <2>1, <2>2, <2>3
<1>5. TypeOK'
  BY <1>2, <1>3, <1>4 DEF TypeOK
<1>6. QED
  BY <1>1, <1>5

-----------------------------------------------------------------------------
(* Steps in which time passes *)

\* The nap is not planned past the next attempt.
LEMMA NapIsCut ==
  ASSUME live.enabled, NEW n \in Nat, TimesTyped, NEW d \in 0..NapFor(n)
  PROVE  d <= 1 \/ (attempted /\ age + d <= Period)
<1> DEFINE due == IF SecsUntilDue = 0 THEN 1 ELSE SecsUntilDue
<1>1. SecsUntilDue \in Nat
  BY Numbers DEF SecsUntilDue, TimesTyped
<1>2. due \in Int
  BY <1>1
<1>3. NapFor(n) = Min({n, due})
  BY DEF NapFor
<1>4. NapFor(n) \in Int /\ NapFor(n) <= due
  <2> HIDE DEF due
  <2>1. Min({n, due}) \in {n, due} /\ Min({n, due}) <= due
    BY <1>2, MinOfTwo
  <2>2. QED
    BY <1>2, <1>3, <2>1
<1>5. d <= due
  <2> HIDE DEF due
  <2>1. QED
    BY <1>2, <1>4
<1>6. SecsUntilDue # 0 => attempted /\ SecsUntilDue = Period - age
  BY DEF SecsUntilDue
<1>7. CASE SecsUntilDue = 0
  BY <1>5, <1>7
<1>8. CASE SecsUntilDue # 0
  BY <1>1, <1>5, <1>6, <1>8, Numbers DEF TimesTyped
<1>9. QED
  BY <1>7, <1>8

-----------------------------------------------------------------------------
(* The inductive invariant, a group of steps at a time *)

LEMMA InitIsGood == Init => IInv
<1> SUFFICES ASSUME Init PROVE IInv
  OBVIOUS
<1>1. PlaceTyped /\ StoreTyped /\ RadioTyped
  BY DEF Init, PlaceTyped, StoreTyped, RadioTyped
<1>2. TimesTyped /\ CountsTyped
  <2>1. attempted \in BOOLEAN
    BY DEF Init
  <2>2. age \in 0..AgeMax /\ sinceTry \in 0..AgeMax /\ stash \in -1..AgeMax /\ slept \in Nat
    BY Numbers DEF Init
  <2>3. CountsTyped
    BY Numbers DEF Init, CountsTyped
  <2>4. QED
    BY <2>1, <2>2, <2>3 DEF TimesTyped
<1>3. SettledTyped
  <2>1. bootSent \in BOOLEAN /\ ack \in BOOLEAN /\ owed \in BOOLEAN
    BY DEF Init
  <2>2. boots \in Nat /\ patches \in 0..Patches
    BY Numbers DEF Init
  <2>3. QED
    BY <2>1, <2>2 DEF Init, SettledTyped
<1>4. GateIsHonest /\ UnpoweredIsBlank /\ BootsAreMarked /\ BootOnce
  BY DEF Init, GateIsHonest, UnpoweredIsBlank, BootsAreMarked, BootOnce
<1>5. QED
  BY <1>1, <1>2, <1>3, <1>4 DEF IInv, TypeOK

\* The number of deep sleeps a slip was paid for.
LEMMA SlipsPaid ==
  ASSUME TimesTyped
  PROVE  slept * MaxSlip \in Nat /\ (slept > 0 => slept * MaxSlip = (slept - 1) * MaxSlip + MaxSlip
                                                  /\ (slept - 1) * MaxSlip \in Nat)
<1>1. slept \in Nat
  BY DEF TimesTyped
<1>2. slept * MaxSlip \in Nat
  BY <1>1, OneMoreSlip
<1>3. ASSUME slept > 0
      PROVE  slept * MaxSlip = (slept - 1) * MaxSlip + MaxSlip /\ (slept - 1) * MaxSlip \in Nat
  <2>1. slept - 1 \in Nat /\ (slept - 1) + 1 = slept
    BY <1>1, <1>3
  <2>2. QED
    BY <2>1, OneMoreSlip
<1>4. QED
  BY <1>2, <1>3

LEMMA QuietStep ==
  ASSUME IInv, Take \/ Persist \/ Idle \/ At \/ ConfigWrite \/ UNCHANGED vars
  PROVE  IInv'
<1>1. /\ TypeOK'
      /\ UNCHANGED power /\ UNCHANGED <<attempted, age, sinceTry, slept>> /\ UNCHANGED stash
      /\ UNCHANGED <<boots, bootSent>> /\ UNCHANGED lapses
  <2>1. CASE UNCHANGED vars
    <3>1. UNCHANGED vars /\ TypeOK
      BY <2>1 DEF IInv
    <3>2. PlaceTyped' /\ StoreTyped' /\ RadioTyped'
      BY <3>1 DEF vars, TypeOK, PlaceTyped, StoreTyped, RadioTyped
    <3>3. TimesTyped' /\ SettledTyped' /\ CountsTyped'
      BY <3>1 DEF vars, TypeOK, TimesTyped, SettledTyped, CountsTyped
    <3>4. QED
      BY <3>1, <3>2, <3>3 DEF vars, TypeOK
  <2>2. CASE ~UNCHANGED vars
    BY <2>2, KeepingStep DEF IInv
  <2>3. QED
    BY <2>1, <2>2
<1>2. GateIsHonest'
  BY <1>1 DEF IInv, GateIsHonest, Close
<1>3. UnpoweredIsBlank' /\ BootsAreMarked' /\ BootOnce'
  BY <1>1 DEF IInv, UnpoweredIsBlank, BootsAreMarked, BootOnce
<1>4. QED
  BY <1>1, <1>2, <1>3 DEF IInv

LEMMA TryStep ==
  ASSUME IInv, BootCycle \/ Cycle \/ Ping
  PROVE  IInv'
<1>1. /\ TypeOK'
      /\ \/ UNCHANGED <<boots, bootSent>>
         \/ ~bootSent /\ bootSent' /\ boots' = boots + 1
      /\ Attempt \/ UNCHANGED timing
      /\ UNCHANGED <<power, stash, lapses>>
  BY TryingStep DEF IInv
<1>2. power = "on" /\ power' = "on"
  BY <1>1 DEF BootCycle, Cycle, Ping
<1>3. GateIsHonest'
  <2>1. CASE Attempt
    <3>1. attempted' = TRUE /\ age' = 0 /\ sinceTry' = 0 /\ slept' = 0
      BY <2>1 DEF Attempt
    <3>2. slept' * MaxSlip = 0
      BY <3>1, Numbers
    <3>3. QED
      BY <1>2, <3>1, <3>2 DEF GateIsHonest, Close
  <2>2. CASE UNCHANGED timing
    BY <1>2, <2>2 DEF timing, IInv, GateIsHonest, Close
  <2>3. QED
    BY <1>1, <2>1, <2>2
<1>4. BootsAreMarked' /\ BootOnce'
  <2>1. boots \in Nat /\ lapses \in Nat
    BY DEF IInv, TypeOK, SettledTyped, CountsTyped
  <2>2. CASE UNCHANGED <<boots, bootSent>>
    BY <1>1, <1>2, <2>2 DEF IInv, BootsAreMarked, BootOnce
  <2>3. CASE ~bootSent /\ bootSent' /\ boots' = boots + 1
    BY <1>1, <1>2, <2>1, <2>3 DEF IInv, BootsAreMarked, BootOnce
  <2>4. QED
    BY <1>1, <2>2, <2>3
<1>5. QED
  BY <1>1, <1>2, <1>3, <1>4 DEF IInv, UnpoweredIsBlank

LEMMA NapStep ==
  ASSUME IInv, LightNap
  PROVE  IInv'
<1>0. TypeOK /\ power = "on" /\ TimesTyped
  BY DEF IInv, TypeOK, LightNap
<1>1. PICK n \in Naps, w \in Works : \E d \in 0..NapFor(n) :
        age' = Later(age, w + d) /\ sinceTry' = Later(sinceTry, w + d)
  BY DEF LightNap
<1>2. PICK d \in 0..NapFor(n) : age' = Later(age, w + d) /\ sinceTry' = Later(sinceTry, w + d)
  BY <1>1
<1>3. w + d \in Nat
  BY Numbers
<1>4. age \in 0..AgeMax /\ sinceTry \in 0..AgeMax
  BY <1>0 DEF TimesTyped
<1>5. age' \in 0..AgeMax /\ sinceTry' \in 0..AgeMax
  BY <1>2, <1>3, <1>4, LaterTyped
<1>6. UNCHANGED power /\ UNCHANGED <<attempted, slept, stash>> /\ UNCHANGED <<boots, bootSent, lapses>>
  BY DEF LightNap, sendOnce, frames, bounds, others
<1>7. TypeOK'
  <2>1. PlaceTyped' /\ StoreTyped' /\ RadioTyped' /\ CountsTyped'
    BY <1>0 DEF LightNap, TypeOK, PlaceTyped, StoreTyped, RadioTyped, CountsTyped, store, radio,
       bounds, others
  <2>2. TimesTyped'
    BY <1>0, <1>5, <1>6 DEF TimesTyped
  <2>3. SettledTyped'
    BY <1>0 DEF LightNap, TypeOK, SettledTyped, sendOnce, frames, bounds
  <2>4. QED
    BY <2>1, <2>2, <2>3 DEF TypeOK
<1>8. GateIsHonest'
  <2>1. CASE attempted
    <3>1. age <= sinceTry + slept * MaxSlip /\ sinceTry <= age + slept * MaxSlip
      BY <1>0, <2>1 DEF IInv, GateIsHonest, Close
    <3>2. age' <= sinceTry' + slept * MaxSlip /\ sinceTry' <= age' + slept * MaxSlip
      BY <1>0, <1>2, <1>3, <1>4, <3>1, SlipsPaid, LaterStaysClose
    <3>3. QED
      BY <1>0, <1>6, <2>1, <3>2 DEF GateIsHonest, Close
  <2>2. CASE ~attempted
    <3>1. sinceTry = AgeMax
      BY <1>0, <2>2 DEF IInv, GateIsHonest
    <3>2. sinceTry' = AgeMax
      BY <1>2, <1>3, <3>1, Numbers DEF Later
    <3>3. QED
      BY <1>0, <1>6, <2>2, <3>2 DEF GateIsHonest
  <2>3. QED
    BY <2>1, <2>2
<1>9. QED
  BY <1>0, <1>6, <1>7, <1>8 DEF IInv, UnpoweredIsBlank, BootsAreMarked, BootOnce

\* A deep sleep stashes the age that the attempt will have at its end.
LEMMA SleepStep ==
  ASSUME IInv, DeepSleep
  PROVE  IInv'
<1>0. TypeOK /\ power = "on" /\ TimesTyped /\ StoreTyped /\ SettledTyped
  BY DEF IInv, TypeOK, DeepSleep
<1>1. PICK n \in Naps, w \in Works : \E d \in 0..NapFor(n) :
        /\ stash' = IF attempted THEN Later(age, w + d) ELSE -1
        /\ sinceTry' = Later(sinceTry, w + d)
  BY DEF DeepSleep
<1>2. PICK d \in 0..NapFor(n) :
        /\ stash' = IF attempted THEN Later(age, w + d) ELSE -1
        /\ sinceTry' = Later(sinceTry, w + d)
  BY <1>1
<1>3. w + d \in Nat
  BY Numbers
<1>4. age \in 0..AgeMax /\ sinceTry \in 0..AgeMax /\ slept \in Nat
  BY <1>0 DEF TimesTyped
<1>5. stash' \in -1..AgeMax /\ sinceTry' \in 0..AgeMax
  <2>1. Later(age, w + d) \in 0..AgeMax /\ Later(sinceTry, w + d) \in 0..AgeMax
    BY <1>3, <1>4, LaterTyped
  <2>2. QED
    BY <1>2, <2>1, Numbers
<1>6. power' = "asleep" /\ pc' = "boot" /\ slept' = slept + 1 /\ RamLost
      /\ UNCHANGED <<boots, told, owed>> /\ UNCHANGED <<saved, lapses, patches>>
  BY DEF DeepSleep, frames
<1>7. /\ StoreTyped' /\ RadioTyped' /\ SettledTyped'
      /\ attempted' = FALSE /\ bootSent' = FALSE /\ age' \in 0..AgeMax
  <2>1. boots' \in Nat /\ told' \in Coords \cup {NoCoords} /\ owed' \in BOOLEAN
    BY <1>0, <1>6 DEF SettledTyped
  <2>2. QED
    BY <1>0, <1>6, <2>1, ResetTyped
<1>8. TypeOK'
  <2>1. PlaceTyped'
    BY <1>6 DEF PlaceTyped
  <2>2. attempted' \in BOOLEAN
    BY <1>7
  <2>3. TimesTyped'
    BY <1>4, <1>5, <1>6, <1>7, <2>2 DEF TimesTyped
  <2>4. CountsTyped'
    BY <1>0, Numbers DEF DeepSleep, TypeOK, CountsTyped
  <2>5. QED
    BY <1>7, <2>1, <2>3, <2>4 DEF TypeOK
<1>9. GateIsHonest'
  <2>1. slept' > 0 /\ slept' - 1 = slept
    BY <1>4, <1>6
  <2>2. CASE attempted
    <3>1. age <= sinceTry + slept * MaxSlip /\ sinceTry <= age + slept * MaxSlip
      BY <1>0, <2>2 DEF IInv, GateIsHonest, Close
    <3>2. stash' = Later(age, w + d)
      BY <1>2, <2>2
    <3>3. stash' <= sinceTry' + slept * MaxSlip /\ sinceTry' <= stash' + slept * MaxSlip
      BY <1>0, <1>2, <1>3, <1>4, <3>1, <3>2, SlipsPaid, LaterStaysClose
    <3>4. stash' >= 0
      BY <1>3, <1>4, <3>2, LaterTyped
    <3>5. QED
      BY <1>6, <2>1, <3>3, <3>4 DEF GateIsHonest, Close
  <2>3. CASE ~attempted
    <3>1. sinceTry = AgeMax /\ stash' = -1
      BY <1>0, <1>2, <2>3 DEF IInv, GateIsHonest
    <3>2. sinceTry' = AgeMax
      BY <1>2, <1>3, <3>1, Numbers DEF Later
    <3>3. QED
      BY <1>6, <2>1, <3>1, <3>2 DEF GateIsHonest
  <2>4. QED
    BY <2>2, <2>3
<1>10. UnpoweredIsBlank' /\ BootsAreMarked' /\ BootOnce'
  BY <1>6, <1>7 DEF IInv, UnpoweredIsBlank, BootsAreMarked, BootOnce
<1>11. QED
  BY <1>8, <1>9, <1>10 DEF IInv

LEMMA ColdStep ==
  ASSUME IInv, ColdBoot
  PROVE  IInv'
<1>0. TypeOK /\ power = "off" /\ power' = "on" /\ pc' = "boot" /\ StoreTyped /\ RadioTyped
  BY DEF IInv, TypeOK, ColdBoot
<1>1. UNCHANGED store /\ UNCHANGED timing /\ UNCHANGED <<sendOnce, tlv, stash, frames>> /\ UNCHANGED bounds
  BY DEF ColdBoot
<1>2. TypeOK'
  <2>1. RadioTyped'
    BY <1>0, BringUpTyped DEF ColdBoot, StoreTyped
  <2>2. PlaceTyped' /\ StoreTyped'
    BY <1>0, <1>1 DEF PlaceTyped, StoreTyped, store
  <2>3. TimesTyped' /\ CountsTyped'
    BY <1>0, <1>1 DEF TypeOK, TimesTyped, CountsTyped, timing, bounds, others
  <2>4. SettledTyped'
    BY <1>0, <1>1 DEF TypeOK, SettledTyped, sendOnce, frames, bounds
  <2>5. QED
    BY <2>1, <2>2, <2>3, <2>4 DEF TypeOK
<1>3. ~attempted' /\ ~bootSent' /\ sinceTry' = AgeMax /\ boots' = 0 /\ lapses' = lapses
  BY <1>0, <1>1 DEF IInv, GateIsHonest, UnpoweredIsBlank, BootsAreMarked, timing, sendOnce, frames,
     bounds, others
<1>4. lapses \in Nat
  BY <1>0 DEF TypeOK, CountsTyped
<1>5. QED
  BY <1>0, <1>2, <1>3, <1>4 DEF IInv, GateIsHonest, UnpoweredIsBlank, BootsAreMarked, BootOnce

\* A wake takes up the age where the sleep left it, give or take a slip; one
\* that finds LoRa off takes up nothing.
LEMMA WakeStep ==
  ASSUME IInv, Wake
  PROVE  IInv'
<1>0. /\ TypeOK /\ power = "asleep" /\ power' = "on" /\ pc' = "boot"
      /\ StoreTyped /\ RadioTyped /\ TimesTyped /\ SettledTyped /\ CountsTyped
  BY DEF IInv, TypeOK, Wake
<1>1. /\ UNCHANGED <<cfg, live, saved, dirty>> /\ UNCHANGED slept /\ UNCHANGED <<boots, told, owed>>
      /\ UNCHANGED <<ack, tlv, patches>> /\ UNCHANGED <<edits, cuts, sleeps>> /\ stash' = -1
  BY DEF Wake, store, frames
<1>2. /\ ~attempted /\ ~bootSent /\ slept > 0 /\ boots <= 1 + lapses /\ lapses \in Nat /\ boots \in Nat
      /\ stash >= 0 => Close(stash, slept - 1)
      /\ age \in 0..AgeMax /\ sinceTry \in 0..AgeMax /\ stash \in -1..AgeMax /\ AgeMax \in 0..AgeMax
  BY <1>0, Numbers
     DEF IInv, GateIsHonest, UnpoweredIsBlank, BootOnce, TimesTyped, CountsTyped, SettledTyped
<1>3. /\ age' \in 0..AgeMax /\ sinceTry' \in 0..AgeMax
      /\ IF attempted' THEN age' <= sinceTry' + slept * MaxSlip /\ sinceTry' <= age' + slept * MaxSlip
         ELSE sinceTry' = AgeMax
  <2>1. ASSUME NEW slip \in Slips, Restore(saved, slip), stash >= 0, stash + slip >= 0
        PROVE  /\ attempted' /\ sinceTry' = sinceTry /\ age' \in 0..AgeMax
               /\ age' <= sinceTry + slept * MaxSlip /\ sinceTry <= age' + slept * MaxSlip
    <3>1. attempted' = TRUE /\ age' = Later(stash, slip) /\ sinceTry' = sinceTry
      BY <2>1 DEF Restore
    <3>2. stash \in 0..AgeMax /\ slip \in Int
      BY <1>2, <2>1, Numbers
    <3>3. age' \in 0..AgeMax
      BY <2>1, <3>1, <3>2, LaterTyped
    <3>4. stash <= sinceTry + (slept - 1) * MaxSlip /\ sinceTry <= stash + (slept - 1) * MaxSlip
      BY <1>2, <2>1 DEF Close
    <3>5. (slept - 1) * MaxSlip \in Nat /\ slept * MaxSlip = (slept - 1) * MaxSlip + MaxSlip
      BY <1>0, <1>2, SlipsPaid
    <3>6. /\ age' <= sinceTry + (slept - 1) * MaxSlip + MaxSlip
          /\ sinceTry <= age' + (slept - 1) * MaxSlip + MaxSlip
      BY <1>2, <2>1, <3>1, <3>2, <3>4, <3>5, SlipIsBounded
    <3>7. age' <= sinceTry + slept * MaxSlip /\ sinceTry <= age' + slept * MaxSlip
      BY <1>2, <3>3, <3>5, <3>6, Numbers
    <3>8. QED
      BY <3>1, <3>3, <3>7
  <2>2. ASSUME NEW slip \in Slips, Restore(saved, slip), ~(stash >= 0 /\ stash + slip >= 0)
        PROVE  ~attempted' /\ age' = age /\ sinceTry' = AgeMax
    BY <1>2, <2>2 DEF Restore
  <2>3. ASSUME ~saved.enabled
        PROVE  ~attempted' /\ age' = age /\ sinceTry' = AgeMax
    BY <1>2, <2>3 DEF Wake
  <2>4. CASE saved.enabled
    <3>1. PICK slip \in Slips : Restore(saved, slip)
      BY <2>4 DEF Wake
    <3>2. CASE stash >= 0 /\ stash + slip >= 0
      BY <1>2, <2>1, <3>1, <3>2
    <3>3. CASE ~(stash >= 0 /\ stash + slip >= 0)
      BY <1>2, <2>2, <3>1, <3>3
    <3>4. QED
      BY <3>2, <3>3
  <2>5. QED
    BY <1>2, <2>3, <2>4
<1>4. attempted' \in BOOLEAN
  <2>1. CASE attempted' = TRUE
    BY <2>1
  <2>2. CASE attempted' = attempted
    BY <1>0, <2>2 DEF TimesTyped
  <2>3. QED
    BY <2>1, <2>2 DEF Wake, Restore
<1>5. \/ bootSent' = TRUE /\ lapses' = lapses
      \/ bootSent' = bootSent /\ lapses' = lapses + 1
  BY DEF Wake, Restore
<1>6. coordsSent' \in Coords \cup {NoCoords}
  BY <1>0, ConfigFields DEF Wake, Restore, SettledTyped, StoreTyped
<1>7. TypeOK'
  <2>1. RadioTyped'
    BY <1>0, BringUpTyped DEF Wake, StoreTyped
  <2>2. PlaceTyped' /\ StoreTyped'
    BY <1>0, <1>1 DEF PlaceTyped, StoreTyped
  <2>3. TimesTyped'
    BY <1>0, <1>1, <1>3, <1>4, Numbers DEF TimesTyped
  <2>4. bootSent' \in BOOLEAN
    BY <1>0, <1>5 DEF SettledTyped
  <2>5. SettledTyped'
    BY <1>0, <1>1, <1>6, <2>4 DEF SettledTyped
  <2>6. CountsTyped'
    BY <1>0, <1>1, <1>5 DEF CountsTyped
  <2>7. QED
    BY <2>1, <2>2, <2>3, <2>5, <2>6 DEF TypeOK
<1>8. GateIsHonest'
  BY <1>0, <1>1, <1>3 DEF GateIsHonest, Close
<1>9. BootsAreMarked' /\ BootOnce'
  BY <1>0, <1>1, <1>2, <1>5 DEF BootsAreMarked, BootOnce
<1>10. QED
  BY <1>0, <1>7, <1>8, <1>9 DEF IInv, UnpoweredIsBlank

LEMMA CutStep ==
  ASSUME IInv, PowerCut
  PROVE  IInv'
<1>0. TypeOK /\ StoreTyped /\ SettledTyped
  BY DEF IInv, TypeOK
<1>1. /\ power' = "off" /\ pc' = "boot" /\ RamLost /\ stash' = -1 /\ sinceTry' = AgeMax /\ slept' = 0
      /\ boots' = 0 /\ told' = NoCoords /\ owed' = FALSE /\ lapses' = 0 /\ UNCHANGED <<saved, patches>>
  BY DEF PowerCut
<1>2. owed' \in BOOLEAN /\ boots' \in Nat
  <2>1. owed' \in BOOLEAN
    BY <1>1
  <2>2. QED
    BY <1>1, <2>1
<1>3. /\ StoreTyped' /\ RadioTyped' /\ SettledTyped'
      /\ attempted' = FALSE /\ bootSent' = FALSE /\ age' \in 0..AgeMax
  BY <1>0, <1>1, <1>2, ResetTyped
<1>4. TypeOK'
  <2>1. PlaceTyped'
    BY <1>1 DEF PlaceTyped
  <2>2. attempted' \in BOOLEAN
    BY <1>3
  <2>3. TimesTyped'
    BY <1>1, <1>3, <2>2, Numbers DEF TimesTyped
  <2>4. CountsTyped'
    BY <1>0, Numbers DEF PowerCut, TypeOK, CountsTyped
  <2>5. QED
    BY <1>3, <2>1, <2>3, <2>4 DEF TypeOK
<1>5. QED
  BY <1>1, <1>3, <1>4 DEF IInv, GateIsHonest, UnpoweredIsBlank, BootsAreMarked, BootOnce

-----------------------------------------------------------------------------
(* The theorems *)

\* The types, the distance between the attempt's age and what it is taken for,
\* and the marks of the BOOT frames: the induction the theorems below rest on.
THEOREM InductiveInvariant == Spec => []IInv
<1>1. Init => IInv
  BY InitIsGood
<1>2. IInv /\ [Next]_vars => IInv'
  <2> SUFFICES ASSUME IInv, [Next]_vars PROVE IInv'
    OBVIOUS
  <2>1. CASE Take \/ Persist \/ Idle \/ At \/ ConfigWrite \/ UNCHANGED vars
    BY <2>1, QuietStep
  <2>2. CASE BootCycle \/ Cycle \/ Ping
    BY <2>2, TryStep
  <2>3. CASE LightNap
    BY <2>3, NapStep
  <2>4. CASE DeepSleep
    BY <2>4, SleepStep
  <2>5. CASE ColdBoot
    BY <2>5, ColdStep
  <2>6. CASE Wake
    BY <2>6, WakeStep
  <2>7. CASE PowerCut
    BY <2>7, CutStep
  <2>8. QED
    BY <2>1, <2>2, <2>3, <2>4, <2>5, <2>6, <2>7 DEF Next, Supervisor
<1>3. QED
  BY <1>1, <1>2, PTL DEF Spec

\* The variables keep their types.
THEOREM TypeCorrect == Spec => []TypeOK
<1>1. IInv => TypeOK
  BY DEF IInv
<1>2. QED
  BY <1>1, InductiveInvariant, PTL

\* Whatever the radio answers and however naps, deep sleeps, pings, edits and
\* cuts fall, lora_cycle finds the period due no earlier than the period after
\* the last attempt, but for what the deep sleeps since have slipped.
THEOREM PeriodIsKept == Spec => []NotTooOften
<1>1. IInv => NotTooOften
  <2> SUFFICES ASSUME IInv, power = "on", Due PROVE sinceTry + slept * MaxSlip >= Period
    BY DEF NotTooOften
  <2>1. TimesTyped /\ slept * MaxSlip \in Nat
    BY SlipsPaid DEF IInv, TypeOK
  <2>2. CASE attempted
    <3>1. age >= Period /\ age <= sinceTry + slept * MaxSlip
      BY <2>2 DEF IInv, GateIsHonest, Close, Due
    <3>2. QED
      BY <2>1, <3>1, Numbers DEF TimesTyped
  <2>3. CASE ~attempted
    <3>1. sinceTry = AgeMax
      BY <2>3 DEF IInv, GateIsHonest
    <3>2. QED
      BY <2>1, <3>1, Numbers
  <2>4. QED
    BY <2>2, <2>3
<1>2. QED
  BY <1>1, InductiveInvariant, PTL

\* A power cycle has one BOOT frame, and one more for each wake that found LoRa
\* off, however its uplinks fail and its deep sleeps forget.
THEOREM BootFramesAreFew == Spec => []BootOnce
<1>1. IInv => BootOnce
  BY DEF IInv
<1>2. QED
  BY <1>1, InductiveInvariant, PTL

\* No nap, light or deep, begun before the next attempt is due goes past it by
\* more than the work of an iteration and what the deep sleeps have slipped.
THEOREM NapsKeepTheCadence == Spec => NapKeepsTheCadence
<1> DEFINE A == (LightNap \/ DeepSleep) /\ live.enabled /\ sinceTry < Period
                  => sinceTry' <= Period + MaxWork + slept * MaxSlip
<1>1. IInv /\ [Next]_vars => [A]_vars
  <2> SUFFICES ASSUME IInv, LightNap \/ DeepSleep, live.enabled, sinceTry < Period
               PROVE  sinceTry' <= Period + MaxWork + slept * MaxSlip
    OBVIOUS
  <2>1. TimesTyped /\ slept * MaxSlip \in Nat /\ power = "on"
    BY SlipsPaid DEF IInv, TypeOK, LightNap, DeepSleep
  <2>2. age \in 0..AgeMax /\ sinceTry \in 0..AgeMax
    BY <2>1 DEF TimesTyped
  <2>3. attempted /\ sinceTry <= age + slept * MaxSlip
    BY <2>1, <2>2, Numbers DEF IInv, GateIsHonest, Close
  <2>4. PICK n \in Naps, w \in Works : \E d \in 0..NapFor(n) : sinceTry' = Later(sinceTry, w + d)
    BY DEF LightNap, DeepSleep
  <2>5. PICK d \in 0..NapFor(n) : sinceTry' = Later(sinceTry, w + d)
    BY <2>4
  <2>6. d <= 1 \/ age + d <= Period
    BY <2>1, <2>2, NapIsCut, Numbers
  <2>7. w \in Nat /\ w <= MaxWork /\ d \in Nat
    BY Numbers
  <2>8. sinceTry' <= sinceTry + w + d
    BY <2>2, <2>5, <2>7, Numbers DEF Later
  <2>9. sinceTry + d <= Period + slept * MaxSlip
    BY <2>1, <2>2, <2>3, <2>6, <2>7, Numbers
  <2>10. sinceTry' \in Int
    BY <2>2, <2>5, <2>7, LaterTyped
  <2>11. QED
    BY <2>1, <2>2, <2>7, <2>8, <2>9, <2>10, Numbers
<1>2. QED
  BY <1>1, InductiveInvariant, PTL DEF Spec, NapKeepsTheCadence
=============================================================================
