-------------------------- MODULE ImageStore_proofs --------------------------
(***************************************************************************)
(* Proofs about ImageStore for every bank geometry, record size and number *)
(* of saves: the inductive invariant IInv, and from it that the A/B store  *)
(* implements DurableImage.                                                *)
(***************************************************************************)
EXTENDS ImageStore, TLAPS

-----------------------------------------------------------------------------
(* What flash says, and when a step changes it *)

\* When some bank is valid, the load loop picks a valid one.
LEMMA NewestIsValid ==
  Newest \in Banks /\ (SomeImage => Valid(Newest))
BY DEF Newest, SomeImage, Banks

\* A bank a step leaves alone parses as before (bank_parse reads nothing else).
LEMMA BankFrame ==
  ASSUME NEW b \in Banks, flash'[b] = flash[b]
  PROVE  Valid(b)' <=> Valid(b)
BY DEF Valid

\* A step that leaves flash alone changes nothing a boot would see.
LEMMA FlashFrame ==
  ASSUME UNCHANGED flash
  PROVE  /\ SomeImage' <=> SomeImage
         /\ Newest' = Newest
         /\ Durable' = Durable
         /\ \A b \in Banks : Valid(b)' <=> Valid(b)
<1>1. \A b \in Banks : Valid(b)' <=> Valid(b)
  BY BankFrame
<1>2. SomeImage' <=> SomeImage
  BY <1>1 DEF SomeImage
<1>3. Newest' = Newest
  BY <1>1 DEF Newest, Banks
<1>4. QED
  BY <1>1, <1>2, <1>3 DEF Durable

\* While bank t is not a whole image, and the newest image is in the other bank,
\* rewriting t changes nothing a boot would see.
LEMMA SpareInvisible ==
  ASSUME NEW k \in Banks, NEW t \in Banks, k # t,
         SomeImage => Newest = k,
         flash'[k] = flash[k],
         ~ Valid(t)'
  PROVE  /\ SomeImage' <=> SomeImage
         /\ SomeImage => Newest' = k /\ flash'[Newest'] = flash[Newest]
         /\ Durable' = Durable
<1>1. Valid(k)' <=> Valid(k)
  BY BankFrame
<1>2. SomeImage <=> Valid(k)
  BY NewestIsValid DEF SomeImage
<1>3. SomeImage' <=> Valid(k)'
  BY DEF SomeImage, Banks
<1>4. SomeImage => Newest' = k
  BY <1>1, <1>2 DEF Newest, Banks
<1>5. QED
  BY <1>1, <1>2, <1>3, <1>4 DEF Durable

\* A bank with no record on its first page is not an image.
LEMMA BlankFirstPage ==
  ASSUME NEW b \in Banks, flash[b][1] \in {Erased, Torn}
  PROVE  ~ Valid(b)
BY ConstantsOK DEF Valid

-----------------------------------------------------------------------------
(* The inductive invariant *)

LEMMA RecordIsTag ==
  TypeOK => Record \in Tags /\ Record.seq = seq /\ Record.ring = ring
            /\ Record.window = window
BY DEF TypeOK, Record, Tags

LEMMA OtherBank ==
  ASSUME NEW b \in Banks PROVE Other(b) \in Banks /\ Other(b) # b
BY DEF Other, Banks

LEMMA InitIsGood == Init => IInv
<1> SUFFICES ASSUME Init PROVE IInv
  OBVIOUS
<1>1. TypeOK
  BY ConstantsOK DEF Init, TypeOK, Banks, AllWindows
<1>2. ~ SomeImage
  <2>1. \A b \in Banks : flash[b][1] = Erased
    BY ConstantsOK DEF Init, Pages
  <2>2. QED
    BY <2>1, BlankFirstPage DEF SomeImage
<1>3. QED
  BY <1>1, <1>2 DEF Init, IInv, OffIsBlank, NewestIsTracked, SpareIsWritten,
     EraseProgress, ProgramProgress, CleanMeansDurable, InSave

\* Steps that leave flash alone.
LEMMA QuietStep ==
  ASSUME IInv,
         \/ Boot \/ AdoptWeather \/ ReadDirty \/ SkipSave \/ StartSave
         \/ SaveRefused \/ EnterSave \/ SaveDone
         \/ \E r \in Rings : RingChange(r)
         \/ \E w \in Windows : WeatherSet(w)
         \/ UNCHANGED vars
  PROVE  IInv'
<1> USE DEF IInv, InSave, Landed, history
<1>1. UNCHANGED flash
  BY DEF Boot, AdoptWeather, ReadDirty, SkipSave, StartSave, SaveRefused, EnterSave,
     SaveDone, RingChange, WeatherSet, vars, history
<1>2. /\ SomeImage' <=> SomeImage
      /\ Newest' = Newest
      /\ Durable' = Durable
  BY <1>1, FlashFrame
<1>3. SomeImage =>
        /\ flash[Newest][1] \in Tags
        /\ Durable = [ring |-> flash[Newest][1].ring, window |-> flash[Newest][1].window]
  BY NewestIsValid DEF Durable, Valid
<1>4. ~ SomeImage => Durable = [ring |-> EmptyRing, window |-> NoWindow]
  BY DEF Durable
<1>5. CASE Boot
  <2>1. TypeOK'
    BY <1>1, <1>3, <1>5, NewestIsValid DEF Boot, TypeOK, Tags
  <2>2. CleanMeansDurable'
    BY <1>2, <1>3, <1>4, <1>5 DEF Boot, CleanMeansDurable, OffIsBlank
  <2>3. QED
    BY <1>1, <1>2, <1>5, <2>1, <2>2 DEF Boot, OffIsBlank, NewestIsTracked,
       SpareIsWritten, EraseProgress, ProgramProgress
<1>6. CASE AdoptWeather
  <2>1. SomeImage => flash[bank][1] \in Tags
    BY <1>3, <1>6 DEF AdoptWeather, NewestIsTracked
  <2>2. TypeOK'
    BY <1>1, <1>6, <2>1 DEF AdoptWeather, TypeOK, Tags
  <2>3. QED
    BY <1>1, <1>2, <1>6, <2>2 DEF AdoptWeather, OffIsBlank, NewestIsTracked,
       SpareIsWritten, EraseProgress, ProgramProgress, CleanMeansDurable
<1>7. CASE \E r \in Rings : RingChange(r)
  BY <1>1, <1>2, <1>7 DEF RingChange, TypeOK, OffIsBlank, NewestIsTracked,
     SpareIsWritten, EraseProgress, ProgramProgress, CleanMeansDurable
<1>8. CASE \E w \in Windows : WeatherSet(w)
  BY <1>1, <1>2, <1>8 DEF WeatherSet, TypeOK, AllWindows, OffIsBlank, NewestIsTracked,
     SpareIsWritten, EraseProgress, ProgramProgress, CleanMeansDurable
<1>9. CASE StartSave
  <2>1. TypeOK'
    <3>1. Other(bank) \in Banks
      BY OtherBank DEF TypeOK
    <3>2. seq' \in Nat
      BY <1>9 DEF StartSave, TypeOK
    <3>3. dirty' \in BOOLEAN /\ UNCHANGED <<took, refused, slipped>>
      BY <1>9 DEF StartSave
    <3>4. QED
      BY <1>9, <3>1, <3>2, <3>3 DEF StartSave, TypeOK
  <2>2. NewestIsTracked'
    BY <1>1, <1>2, <1>9 DEF StartSave, TypeOK, NewestIsTracked
  <2>3. SpareIsWritten'
    BY <1>9 DEF StartSave, TypeOK, SpareIsWritten
  <2>4. QED
    BY <1>9, <2>1, <2>2, <2>3 DEF StartSave, OffIsBlank, EraseProgress,
       ProgramProgress, CleanMeansDurable
<1>10. CASE SaveRefused
  BY <1>1, <1>2, <1>10 DEF SaveRefused, TypeOK, OffIsBlank, NewestIsTracked,
     SpareIsWritten, EraseProgress, ProgramProgress, CleanMeansDurable
<1>11. CASE EnterSave
  BY <1>1, <1>2, <1>11, ConstantsOK DEF EnterSave, TypeOK, OffIsBlank, NewestIsTracked,
     SpareIsWritten, EraseProgress, ProgramProgress, CleanMeansDurable
<1>12. CASE SaveDone
  <2>1. Valid(target)
    BY <1>12, RecordIsTag, ConstantsOK DEF SaveDone, ProgramProgress, Valid, Pages, TypeOK
  <2>2. SomeImage /\ Newest = target
    BY <1>12, <2>1 DEF SaveDone, SomeImage, NewestIsTracked, TypeOK
  <2>3. flash[target][1] = Record
    BY <1>12, ConstantsOK DEF SaveDone, ProgramProgress, TypeOK, Pages
  <2>4. Durable.ring = ring
    BY <1>3, <2>2, <2>3, RecordIsTag
  <2>5. QED
    BY <1>1, <1>2, <1>12, <2>2, <2>4 DEF SaveDone, TypeOK, OffIsBlank, NewestIsTracked,
       SpareIsWritten, EraseProgress, ProgramProgress, CleanMeansDurable
<1>13. CASE UNCHANGED vars
  BY <1>1, <1>2, <1>13 DEF vars, TypeOK, OffIsBlank, NewestIsTracked,
     SpareIsWritten, EraseProgress, ProgramProgress, CleanMeansDurable, Record
<1>14. CASE ReadDirty
  BY <1>1, <1>2, <1>14 DEF ReadDirty, TypeOK, OffIsBlank, NewestIsTracked,
     SpareIsWritten, EraseProgress, ProgramProgress, CleanMeansDurable
<1>15. CASE SkipSave
  BY <1>1, <1>2, <1>15 DEF SkipSave, TypeOK, OffIsBlank, NewestIsTracked,
     SpareIsWritten, EraseProgress, ProgramProgress, CleanMeansDurable
<1>16. QED
  BY <1>5, <1>6, <1>7, <1>8, <1>9, <1>10, <1>11, <1>12, <1>13, <1>14, <1>15

\* What a step that writes flash during a save leaves for the next boot: with
\* the spare bank not a whole image, exactly what was there before.
LEMMA SpareStep ==
  ASSUME IInv, pc \in {"erase", "program"}, ~ Landed,
         flash'[bank] = flash[bank], NEW t \in Banks, t = target, ~ Valid(t)'
  PROVE  /\ SomeImage' <=> SomeImage
         /\ SomeImage => Newest = bank /\ Newest' = bank /\ flash'[Newest'] = flash[Newest]
         /\ Durable' = Durable
<1>1. SomeImage => Newest = bank
  BY DEF IInv, NewestIsTracked
<1>2. PICK k \in Banks : k = bank
  BY DEF IInv, TypeOK
<1>3. k # t
  BY <1>2, OtherBank DEF IInv, SpareIsWritten, InSave
<1>4. QED
  BY <1>1, <1>2, <1>3, SpareInvisible

LEMMA EraseStep ==
  ASSUME IInv, EraseSector
  PROVE  IInv' /\ Durable' = Durable /\ (SomeImage' <=> SomeImage)
         /\ (SomeImage => flash'[Newest'] = flash[Newest])
<1> USE DEF IInv, InSave, history
<1>1. PICK t \in Banks : t = target
  BY DEF TypeOK
<1>2. t # bank
  BY <1>1, OtherBank DEF EraseSector, SpareIsWritten, TypeOK
<1>3. /\ flash' \in [Banks -> [Pages -> Tags \union {Erased, Torn}]]
      /\ \A c \in Banks : c # t => flash'[c] = flash[c]
      /\ \A p \in Pages : flash'[t][p] = (IF SectorOf[p] = pos + 1 THEN Erased ELSE flash[t][p])
  <2>1. PagesOfSector(pos + 1) \in SUBSET Pages
    BY DEF PagesOfSector
  <2>2. flash' = Overwrite(t, PagesOfSector(pos + 1), Erased)
    BY <1>1 DEF EraseSector
  <2>3. TypeOK
    OBVIOUS
  <2>4. /\ flash' \in [Banks -> [Pages -> Tags \union {Erased, Torn}]]
        /\ \A c \in Banks : c # t => flash'[c] = flash[c]
        /\ \A p \in Pages :
             flash'[t][p] = (IF p \in PagesOfSector(pos + 1) THEN Erased ELSE flash[t][p])
    BY <2>1, <2>2, <2>3 DEF Overwrite, TypeOK
  <2>5. QED
    BY <2>4 DEF PagesOfSector
<1>4. \A p \in Pages : SectorOf[p] <= pos + 1 => flash'[t][p] = Erased
  BY <1>1, <1>3, ConstantsOK DEF EraseSector, EraseProgress, TypeOK
<1>5. ~ Valid(t)'
  <2>1. flash'[t][1] = Erased
    BY <1>4, ConstantsOK DEF Pages, TypeOK
  <2>2. QED
    BY <2>1, ConstantsOK DEF Valid
<1>6. flash'[bank] = flash[bank]
  BY <1>2, <1>3 DEF TypeOK
<1>7. /\ SomeImage' <=> SomeImage
      /\ SomeImage => Newest = bank /\ Newest' = bank /\ flash'[Newest'] = flash[Newest]
      /\ Durable' = Durable
  BY <1>1, <1>5, <1>6, SpareStep DEF EraseSector, Landed
<1>8. TypeOK'
  BY <1>3 DEF EraseSector, TypeOK
<1>9. NewestIsTracked'
  <2>1. ~ Landed'
    BY ConstantsOK DEF EraseSector, Landed, TypeOK, Pages
  <2>2. QED
    BY <1>7, <2>1 DEF EraseSector, NewestIsTracked, Landed
<1>10. EraseProgress' /\ ProgramProgress'
  <2>1. CASE pos + 1 = LastSector
    BY <1>1, <1>4, <2>1, ConstantsOK DEF EraseSector, EraseProgress, ProgramProgress,
       TypeOK, Pages
  <2>2. CASE pos + 1 # LastSector
    BY <1>1, <1>4, <2>2, ConstantsOK DEF EraseSector, EraseProgress, ProgramProgress, TypeOK
  <2>3. QED
    BY <2>1, <2>2
<1>11. QED
  BY <1>7, <1>8, <1>9, <1>10 DEF EraseSector, OffIsBlank, SpareIsWritten, CleanMeansDurable

\* The step that programs the last page is the commit: until then a boot sees
\* the old image, after it the new one.
LEMMA ProgramStep ==
  ASSUME IInv, ProgramPage
  PROVE  /\ IInv'
         /\ \/ Durable' = Durable
            \/ Durable' = [ring |-> ring, window |-> window]
         /\ SomeImage => SomeImage' /\ flash'[Newest'][1].seq >= flash[Newest][1].seq
<1> DEFINE n == PageCount[ring]
<1>0. /\ TypeOK /\ NewestIsTracked /\ ProgramProgress
      /\ target = Other(bank) /\ seq >= 1
      /\ pos \in Nat /\ pos < n /\ n \in Pages /\ n \in Nat /\ n <= LastPage
  BY ConstantsOK DEF IInv, InSave, SpareIsWritten, ProgramPage, TypeOK, Pages
<1>1. PICK t \in Banks : t = target
  BY <1>0 DEF TypeOK
<1>2. t # bank
  BY <1>0, <1>1, OtherBank DEF TypeOK
<1>3. Record \in Tags /\ Record.seq = seq /\ Record.ring = ring /\ Record.window = window
  BY <1>0, RecordIsTag
<1>4. {pos + 1} \in SUBSET Pages
  BY <1>0, ConstantsOK DEF Pages
<1>5. /\ flash' \in [Banks -> [Pages -> Tags \union {Erased, Torn}]]
      /\ \A c \in Banks : c # t => flash'[c] = flash[c]
      /\ \A p \in Pages : flash'[t][p] = (IF p = pos + 1 THEN Record ELSE flash[t][p])
  <2>1. flash' = Overwrite(t, {pos + 1}, Record)
    BY <1>1 DEF ProgramPage
  <2>2. Record \in Tags \union {Erased, Torn} /\ TypeOK
    BY <1>0, <1>3
  <2>3. /\ flash' \in [Banks -> [Pages -> Tags \union {Erased, Torn}]]
        /\ \A c \in Banks : c # t => flash'[c] = flash[c]
        /\ \A p \in Pages :
             flash'[t][p] = (IF p \in {pos + 1} THEN Record ELSE flash[t][p])
    BY <1>4, <2>1, <2>2 DEF Overwrite, TypeOK
  <2>4. QED
    BY <2>3
<1>6. Record' = Record
  BY DEF ProgramPage, Record
<1>7. \A p \in Pages : flash'[t][p] = (IF p <= pos + 1 THEN Record ELSE Erased)
  <2>1. \A p \in Pages : flash[t][p] = (IF p <= pos THEN Record ELSE Erased)
    BY <1>0, <1>1 DEF ProgramPage, ProgramProgress
  <2>2. \A p \in Pages : p <= pos + 1 <=> p <= pos \/ p = pos + 1
    BY <1>0 DEF Pages
  <2>3. QED
    BY <1>5, <2>1, <2>2
<1>8. TypeOK'
  <2>1. pos' \in Nat
    BY <1>0 DEF ProgramPage
  <2>2. QED
    BY <1>0, <1>5, <2>1 DEF ProgramPage, TypeOK, history
<1>9. ProgramProgress'
  BY <1>0, <1>1, <1>6, <1>7 DEF ProgramPage, ProgramProgress
<1>10. flash'[bank] = flash[bank]
  BY <1>0, <1>2, <1>5 DEF TypeOK
<1>11. ~ Landed
  BY <1>0 DEF Landed
<1>12. CASE pos + 1 < PageCount[ring]
  <2>1. ~ Valid(t)'
    <3>1. pos + 2 \in 1..PageCount[ring]' /\ pos + 2 \in Pages /\ 1 \in Pages
      BY <1>0, <1>12, ConstantsOK DEF ProgramPage, Pages
    <3>2. flash'[t][1] = Record /\ flash'[t][pos + 2] = Erased
      BY <1>0, <1>7, <3>1
    <3>3. QED
      BY <1>3, <3>1, <3>2, ConstantsOK DEF Valid, ProgramPage
  <2>2. /\ SomeImage' <=> SomeImage
        /\ SomeImage => Newest = bank /\ Newest' = bank /\ flash'[Newest'] = flash[Newest]
        /\ Durable' = Durable
    BY <1>1, <1>10, <1>11, <2>1, SpareStep DEF ProgramPage
  <2>3. ~ Landed'
    BY <1>12 DEF Landed, ProgramPage
  <2>4. NewestIsTracked'
    BY <1>0, <1>11, <2>2, <2>3 DEF ProgramPage, NewestIsTracked, InSave
  <2>5. SomeImage => SomeImage' /\ flash'[Newest'][1].seq >= flash[Newest][1].seq
    <3>1. SomeImage => flash[Newest][1] \in Tags
      BY NewestIsValid DEF Valid
    <3>2. QED
      BY <2>2, <3>1 DEF Tags
  <2>6. QED
    BY <1>8, <1>9, <2>2, <2>4, <2>5 DEF IInv, InSave, ProgramPage, OffIsBlank,
       SpareIsWritten, EraseProgress, CleanMeansDurable
<1>13. CASE pos + 1 = PageCount[ring]
  <2>1. flash'[t][1] = Record
    BY <1>0, <1>7, ConstantsOK DEF Pages
  <2>2. Valid(t)'
    <3>1. \A p \in 1..n : p \in Pages /\ p <= pos + 1
      BY <1>0, <1>13, ConstantsOK DEF Pages
    <3>2. QED
      BY <1>3, <1>7, <2>1, <3>1 DEF Valid, ProgramPage
  <2>3. Valid(bank) => SomeImage /\ Newest = bank /\ flash[bank][1].seq = seq - 1
    BY <1>0, <1>11 DEF SomeImage, TypeOK, NewestIsTracked, ProgramPage, InSave
  <2>4. PICK k \in Banks : k = bank
    BY <1>0 DEF TypeOK
  <2>5. Valid(k)' <=> Valid(k)
    BY <1>10, <2>4, BankFrame
  <2>6. SomeImage' /\ Newest' = t
    <3>1. SomeImage'
      BY <2>2 DEF SomeImage
    <3>2. flash'[t][1].seq = seq
      BY <1>3, <2>1
    <3>3. Valid(k)' => flash'[k][1].seq = seq - 1
      BY <1>10, <2>3, <2>4, <2>5
    <3>4. Newest' = t
      BY <1>0, <1>2, <2>2, <2>4, <3>2, <3>3 DEF Newest, Banks, TypeOK
    <3>5. QED
      BY <3>1, <3>4
  <2>7. Durable' = [ring |-> ring, window |-> window]
    BY <1>3, <2>1, <2>6 DEF Durable
  <2>8. Landed'
    BY <1>13 DEF Landed, ProgramPage
  <2>9. NewestIsTracked'
    BY <1>0, <1>1, <1>3, <2>1, <2>6, <2>8 DEF ProgramPage, NewestIsTracked, InSave
  <2>10. SomeImage => flash'[Newest'][1].seq >= flash[Newest][1].seq
    BY <1>0, <1>3, <1>11, <2>1, <2>6 DEF NewestIsTracked, ProgramPage, InSave, TypeOK
  <2>11. QED
    BY <1>8, <1>9, <2>6, <2>7, <2>9, <2>10 DEF IInv, InSave, ProgramPage, OffIsBlank,
       SpareIsWritten, EraseProgress, CleanMeansDurable
<1>14. QED
  BY <1>0, <1>12, <1>13

\* A power cut loses RAM only, wherever in a save it falls.
LEMMA CutStep ==
  ASSUME IInv, PowerCut
  PROVE  IInv' /\ Durable' = Durable /\ (SomeImage' <=> SomeImage)
         /\ (SomeImage => flash'[Newest'] = flash[Newest])
<1>1. IInv'
  <2>1. TypeOK'
    <3>1. flash' \in [Banks -> [Pages -> Tags \union {Erased, Torn}]]
      BY DEF PowerCut, Overwrite, IInv, TypeOK
    <3>2. QED
      BY <3>1, ConstantsOK DEF PowerCut, TypeOK, Banks, AllWindows
  <2>2. QED
    BY <2>1 DEF PowerCut, IInv, OffIsBlank, NewestIsTracked, SpareIsWritten,
       EraseProgress, ProgramProgress, CleanMeansDurable, InSave
<1>2. CASE UNCHANGED flash
  BY <1>1, <1>2, FlashFrame
<1>3. CASE flash' # flash
  <2> DEFINE S == InProgress
  <2>1. PICK t \in Banks : t = target
    BY DEF IInv, TypeOK
  <2>2. flash' = Overwrite(t, S, Torn)
    BY <1>3, <2>1 DEF PowerCut
  <2>3. /\ \A c \in Banks : c # t => flash'[c] = flash[c]
        /\ \A p \in Pages : flash'[t][p] = (IF p \in S THEN Torn ELSE flash[t][p])
    BY <2>2 DEF Overwrite, IInv, TypeOK
  <2>4. S # {}
    <3>1. SUFFICES ASSUME S = {} PROVE flash' = flash
      BY <1>3
    <3>2. \A c \in Banks : flash'[c] = flash[c]
      <4>1. flash'[t] = [p \in Pages |-> flash[t][p]]
        BY <2>2, <3>1 DEF Overwrite, IInv, TypeOK
      <4>2. flash'[t] = flash[t]
        BY <4>1 DEF IInv, TypeOK
      <4>3. QED
        BY <2>3, <4>2
    <3>3. flash' \in [Banks -> [Pages -> Tags \union {Erased, Torn}]]
      BY <1>1 DEF IInv, TypeOK
    <3>4. QED
      BY <3>2, <3>3 DEF IInv, TypeOK
  <2>5. pc \in {"erase", "program"} /\ ~ Landed
    <3>1. CASE pc = "erase"
      BY <3>1 DEF Landed
    <3>2. CASE pc = "program" /\ pos < PageCount[ring]
      BY <3>2, ConstantsOK DEF Landed, IInv, TypeOK, Pages
    <3>3. CASE ~ (pc = "erase") /\ ~ (pc = "program" /\ pos < PageCount[ring])
      BY <2>4, <3>3 DEF InProgress
    <3>4. QED
      BY <3>1, <3>2, <3>3
  <2>6. t # bank
    BY <2>1, <2>5, OtherBank DEF IInv, SpareIsWritten, InSave, TypeOK
  <2>7. flash'[bank] = flash[bank]
    BY <2>3, <2>6 DEF IInv, TypeOK
  <2>8. ~ Valid(t)'
    <3>1. CASE pc = "erase"
      <4>1. flash'[t][1] \in {Erased, Torn}
        <5>1. 1 \in Pages
          BY ConstantsOK DEF Pages
        <5>2. 1 \in S <=> pos = 0
          BY <3>1, <5>1, ConstantsOK DEF InProgress, PagesOfSector, IInv, TypeOK
        <5>3. pos # 0 => flash[t][1] = Erased
          BY <2>1, <3>1, <5>1, ConstantsOK DEF IInv, TypeOK, EraseProgress
        <5>4. QED
          BY <2>3, <5>1, <5>2, <5>3
      <4>2. QED
        BY <4>1, ConstantsOK DEF Valid
    <3>2. CASE pc = "program"
      <4>1. S = {pos + 1} /\ pos \in Nat /\ pos < PageCount[ring]
        BY <2>4, <3>2 DEF InProgress, IInv, TypeOK
      <4>2. PageCount[ring] \in Pages /\ pos + 1 \in Pages /\ 1 \in Pages
            /\ pos + 1 \in 1..PageCount[ring]
        BY <4>1, ConstantsOK DEF Pages, IInv, TypeOK
      <4>3. flash'[t][pos + 1] = Torn
        BY <2>3, <4>1, <4>2
      <4>4. CASE pos = 0
        BY <4>3, <4>4, ConstantsOK DEF Valid
      <4>5. CASE pos # 0
        <5>1. flash[t][1] = Record
          BY <2>1, <3>2, <4>1, <4>2, <4>5 DEF IInv, ProgramProgress
        <5>2. flash'[t][1] = Record
          BY <2>3, <4>1, <4>2, <4>5, <5>1
        <5>3. Record \in Tags /\ Record.ring = ring
          BY RecordIsTag DEF IInv
        <5>4. QED
          BY <4>2, <4>3, <5>2, <5>3, ConstantsOK DEF Valid
      <4>6. QED
        BY <4>4, <4>5
    <3>3. QED
      BY <2>5, <3>1, <3>2
  <2>9. QED
    BY <1>1, <2>1, <2>5, <2>7, <2>8, SpareStep
<1>4. QED
  BY <1>2, <1>3

-----------------------------------------------------------------------------
(* Theorems *)

LEMMA StepIsGood == IInv /\ [Next]_vars => IInv'
<1> SUFFICES ASSUME IInv, [Next]_vars PROVE IInv'
  OBVIOUS
<1>1. CASE EraseSector
  BY <1>1, EraseStep
<1>2. CASE ProgramPage
  BY <1>2, ProgramStep
<1>3. CASE PowerCut
  BY <1>3, CutStep
<1>4. QED
  BY <1>1, <1>2, <1>3, QuietStep DEF Next, Supervisor

\* The inductive invariant holds of every behaviour: at every point of a save
\* the other bank still holds what a boot needs.
THEOREM InductiveInvariant == Spec => []IInv
BY InitIsGood, StepIsGood, PTL DEF Spec

\* The variables of storage_store.c keep to their types; in particular a
\* refused save never takes s_seq below zero.
THEOREM TypeCorrect == Spec => []TypeOK
<1>1. IInv => TypeOK
  BY DEF IInv
<1>2. QED
  BY <1>1, InductiveInvariant, PTL

\* A ring the flag does not report is already in flash, whatever the BLE context
\* does between the read and the clear of storage_take_dirty, unless a save of it
\* was refused or that very clear wiped a flag nobody had read.
THEOREM CleanRingIsDurable == Spec => []CleanMeansDurable
<1>1. IInv => CleanMeansDurable
  BY DEF IInv
<1>2. QED
  BY <1>1, InductiveInvariant, PTL

\* The seq of the image a boot would pick never decreases, through any number
\* of saves, refusals and power cuts.
THEOREM SeqNeverRegresses == Spec => NewestMovesForward
<1>1. IInv /\ [Next]_vars =>
        [SomeImage => SomeImage' /\ flash'[Newest'][1].seq >= flash[Newest][1].seq]_vars
  <2> SUFFICES ASSUME IInv, [Next]_vars, SomeImage
               PROVE  SomeImage' /\ flash'[Newest'][1].seq >= flash[Newest][1].seq
    OBVIOUS
  <2>1. flash[Newest][1].seq \in Nat
    BY NewestIsValid DEF Valid, Tags
  <2>2. CASE UNCHANGED flash
    BY <2>1, <2>2, FlashFrame
  <2>3. CASE EraseSector
    BY <2>1, <2>3, EraseStep
  <2>4. CASE PowerCut
    BY <2>1, <2>4, CutStep
  <2>5. CASE ProgramPage
    BY <2>5, ProgramStep
  <2>6. QED
    BY <2>2, <2>3, <2>4, <2>5 DEF Next, Supervisor, Boot, AdoptWeather, ReadDirty,
       SkipSave, StartSave, SaveRefused, EnterSave, SaveDone, RingChange, WeatherSet,
       vars
<1>2. QED
  BY <1>1, InductiveInvariant, PTL DEF Spec, NewestMovesForward

\* A power cut costs the new image, never the old one: the A/B store implements
\* the single durable image of DurableImage.
THEOREM StoreKeepsItsPromise == Spec => PowerCutCostsOnlyTheNewImage
<1>1. Init => Promise!Init
  <2> SUFFICES ASSUME Init PROVE Promise!Init
    OBVIOUS
  <2>1. \A b \in Banks : flash[b][1] = Erased
    BY ConstantsOK DEF Init, Pages
  <2>2. ~ SomeImage
    BY <2>1, BlankFirstPage DEF SomeImage
  <2>3. QED
    BY <2>2 DEF Init, Promise!Init, Promise!Blank, Durable
<1>2. IInv /\ [Next]_vars => [Promise!Next]_(Promise!vars)
  <2> SUFFICES ASSUME IInv, [Next]_vars PROVE [Promise!Next]_(Promise!vars)
    OBVIOUS
  <2> USE DEF Promise!Next, Promise!vars, IInv, TypeOK
  <2>1. CASE Boot
    <3>1. UNCHANGED flash
      BY <2>1 DEF Boot
    <3>2. Durable' = Durable
      BY <3>1, FlashFrame
    <3>3. ring' = Durable.ring /\ window' = NoWindow
      BY <2>1 DEF Boot, Durable, OffIsBlank
    <3>4. QED
      BY <2>1, <3>2, <3>3 DEF Boot, Promise!Restart
  <2>2. CASE AdoptWeather \/ (\E r \in Rings : RingChange(r)) \/ (\E w \in Windows : WeatherSet(w))
    <3>1. Durable' = Durable
      <4>1. UNCHANGED flash
        BY <2>2 DEF AdoptWeather, RingChange, WeatherSet
      <4>2. QED
        BY <4>1, FlashFrame
    <3>2. ring' \in Rings /\ pc # "off" /\ pc' # "off"
      BY <2>2 DEF AdoptWeather, RingChange, WeatherSet
    <3>3. window' \in {window} \union Windows
      <4>1. CASE AdoptWeather
        <5>1. SomeImage => flash[bank][1] \in Tags
          BY <4>1, NewestIsValid DEF AdoptWeather, NewestIsTracked, Landed, Valid
        <5>2. QED
          BY <4>1, <5>1 DEF AdoptWeather, Tags, AllWindows
      <4>2. QED
        BY <2>2, <4>1 DEF RingChange, WeatherSet
    <3>4. QED
      BY <3>1, <3>2, <3>3 DEF Promise!Work
  <2>3. CASE ReadDirty \/ SkipSave \/ StartSave \/ SaveRefused \/ EnterSave \/ SaveDone
    <3>1. UNCHANGED flash
      BY <2>3 DEF ReadDirty, SkipSave, StartSave, SaveRefused, EnterSave, SaveDone
    <3>2. Durable' = Durable
      BY <3>1, FlashFrame
    <3>3. QED
      BY <2>3, <3>2 DEF ReadDirty, SkipSave, StartSave, SaveRefused, EnterSave, SaveDone
  <2>4. CASE EraseSector
    BY <2>4, EraseStep DEF EraseSector
  <2>5. CASE ProgramPage
    BY <2>5, ProgramStep DEF ProgramPage, Promise!Commit
  <2>6. CASE PowerCut
    BY <2>6, CutStep DEF PowerCut, Promise!PowerCut
  <2>7. CASE UNCHANGED vars
    <3>1. Durable' = Durable
      BY <2>7, FlashFrame DEF vars
    <3>2. QED
      BY <2>7, <3>1 DEF vars
  <2>8. QED
    BY <2>1, <2>2, <2>3, <2>4, <2>5, <2>6, <2>7 DEF Next, Supervisor
<1>3. QED
  BY <1>1, <1>2, InductiveInvariant, PTL DEF Spec, PowerCutCostsOnlyTheNewImage, Promise!Spec
=============================================================================
