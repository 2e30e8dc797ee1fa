----------------------------- MODULE ImageStore -----------------------------
(***************************************************************************)
(* The A/B flash image of the readings ring and the TA window              *)
(* (src/src/storage/storage_store.c), with the dirty flag that decides     *)
(* when the supervisor writes it (src/src/storage/storage_flash.c,         *)
(* src/src/main.c).                                                        *)
(*                                                                         *)
(* A save erases the spare bank sector by sector, then programs the record *)
(* page by page.  Power may go at any point: the unit being erased or      *)
(* programmed is then left torn.  A ring is an opaque value; PageCount     *)
(* says how many pages its record takes.  The CRC is taken to reject every *)
(* record whose pages do not all come from one save.                       *)
(*                                                                         *)
(* The save runs inside flash_safe_execute, which holds the BLE context    *)
(* off: RAM cannot change between "erase" and the end of the save, but it  *)
(* can before that, also between the read of the dirty flag and its clear: *)
(* storage_take_dirty is two accesses, and the BLE context may interrupt   *)
(* the supervisor between them.                                            *)
(***************************************************************************)
EXTENDS Integers

CONSTANTS
  Rings, EmptyRing, Windows, NoWindow,
  LastPage,    \* pages in a bank
  LastSector,  \* sectors in a bank (STORE_BANK_SECTORS)
  SectorOf,    \* the sector a page lies in
  PageCount,   \* pages the record of a ring takes
  MaxSeq,      \* bound: no ring change once this many saves were made
  Erased, Torn \* a page with no record in it

Pages == 1..LastPage
AllWindows == Windows \union {NoWindow}
Tags == [seq : Nat, ring : Rings, window : AllWindows]

ASSUME ConstantsOK ==
  /\ EmptyRing \in Rings
  /\ NoWindow \notin Windows
  /\ LastPage \in Nat \ {0}
  /\ LastSector \in Nat \ {0}
  /\ SectorOf \in [Pages -> 1..LastSector]
  /\ SectorOf[1] = 1
  /\ PageCount \in [Rings -> Pages]
  /\ MaxSeq \in Nat
  /\ Erased \notin Tags
  /\ Torn \notin Tags

VARIABLES
  flash,    \* per bank and page: Erased, Torn, or the record that page is of
  ring,     \* s_rd: the readings ring
  window,   \* the TA cache (weather.c)
  dirty,    \* s_dirty: the ring changed since the last storage_take_dirty
  took,     \* d of storage_take_dirty: the flag, as it was read
  bank,     \* s_bank: where the newest image is believed to be
  seq,      \* s_seq
  target,   \* s_sink.base
  pos,      \* sectors erased, then pages programmed, by the save under way
  pc,       \* where the supervisor is
  refused,  \* history: the last save was refused and nothing was written since
  slipped   \* history: a change's flag was cleared unread, and nothing written since

history == <<refused, slipped>>
vars == <<flash, ring, window, dirty, took, bank, seq, target, pos, pc, history>>

Banks == {"A", "B"}
Other(b) == IF b = "A" THEN "B" ELSE "A"

-----------------------------------------------------------------------------
(* Reading flash *)

\* bank_parse: a record is valid when all its pages come from one save.
Valid(b) ==
  /\ flash[b][1] \in Tags
  /\ \A p \in 1..PageCount[flash[b][1].ring] : flash[b][p] = flash[b][1]

SomeImage == \E b \in Banks : Valid(b)

\* The load loop: bank B replaces bank A only with a greater seq.
Newest ==
  IF Valid("B") /\ (Valid("A") => flash["B"][1].seq > flash["A"][1].seq)
  THEN "B" ELSE "A"

Durable ==
  IF SomeImage
  THEN [ring |-> flash[Newest][1].ring, window |-> flash[Newest][1].window]
  ELSE [ring |-> EmptyRing, window |-> NoWindow]

-----------------------------------------------------------------------------
Saving == pc \in {"erase", "program"}

Init ==
  /\ flash = [b \in Banks |-> [p \in Pages |-> Erased]]
  /\ ring = EmptyRing /\ window = NoWindow /\ dirty = FALSE /\ took = FALSE
  /\ bank = "B" /\ seq = 0
  /\ target = "A" /\ pos = 0
  /\ pc = "off"
  /\ refused = FALSE /\ slipped = FALSE

\* Mutation: the boot forgets s_seq.
BootWithoutSeq ==
  /\ pc = "off"
  /\ pc' = "boot"
  /\ IF SomeImage
     THEN bank' = Newest /\ ring' = flash[Newest][1].ring
     ELSE UNCHANGED <<bank, ring>>
  /\ UNCHANGED <<flash, seq, window, dirty, took, target, pos, history>>

\* main() up to storage_store_load.
Boot ==
  /\ pc = "off"
  /\ pc' = "boot"
  /\ IF SomeImage
     THEN /\ bank' = Newest
          /\ seq' = flash[Newest][1].seq
          /\ ring' = flash[Newest][1].ring
     ELSE UNCHANGED <<bank, seq, ring>>
  /\ UNCHANGED <<flash, window, dirty, took, target, pos, history>>

\* storage_store_adopt_weather: a window a downlink already brought wins, and
\* one too old for the hour, or no clock to judge it by, drops the stored one.
AdoptWeather ==
  /\ pc = "boot"
  /\ pc' = "run"
  /\ \/ UNCHANGED window
     \/ /\ window = NoWindow
        /\ SomeImage
        /\ window' = flash[bank][1].window
  /\ UNCHANGED <<flash, ring, dirty, took, bank, seq, target, pos, history>>

\* Mutation: a change that does not raise s_dirty.
RingChangeUnmarked(r) ==
  /\ pc \in {"boot", "run", "take", "enter"}
  /\ seq < MaxSeq
  /\ ring' = r
  /\ UNCHANGED <<flash, window, dirty, took, bank, seq, target, pos, pc, history>>

\* A capture, an ingest, a clear, a rebase: whatever changes the ring.
RingChange(r) ==
  /\ pc \in {"boot", "run", "take", "enter"}
  /\ seq < MaxSeq
  /\ ring' = r
  /\ dirty' = TRUE
  /\ UNCHANGED <<flash, window, took, bank, seq, target, pos, pc, history>>

\* weather_set: a TA downlink, or a forecast written by the app.
WeatherSet(w) ==
  /\ pc \in {"boot", "run", "take", "enter"}
  /\ window' = w
  /\ UNCHANGED <<flash, ring, dirty, took, bank, seq, target, pos, pc, history>>

\* storage_take_dirty, the read.
ReadDirty ==
  /\ pc = "run"
  /\ pc' = "take"
  /\ took' = dirty
  /\ UNCHANGED <<flash, ring, window, dirty, bank, seq, target, pos, history>>

\* storage_take_dirty, the write, with nothing to save in what was read: a flag
\* raised since the read is lost.
SkipSave ==
  /\ pc = "take"
  /\ ~took
  /\ dirty' = FALSE
  /\ slipped' = (slipped \/ dirty)
  /\ pc' = "run"
  /\ UNCHANGED <<flash, ring, window, took, bank, seq, target, pos, refused>>

\* Mutation: the save goes to the bank that holds the newest image.
StartSaveInPlace ==
  /\ pc = "take"
  /\ took
  /\ dirty' = FALSE
  /\ target' = bank
  /\ seq' = seq + 1
  /\ pc' = "enter"
  /\ UNCHANGED <<flash, ring, window, took, bank, pos, history>>

\* storage_take_dirty, the write, and storage_store_save up to flash_safe_execute.
StartSave ==
  /\ pc = "take"
  /\ took
  /\ dirty' = FALSE
  /\ target' = Other(bank)
  /\ seq' = seq + 1
  /\ pc' = "enter"
  /\ UNCHANGED <<flash, ring, window, took, bank, pos, history>>

\* flash_safe_execute gave up waiting (rc # PICO_OK): nothing was written.
SaveRefused ==
  /\ pc = "enter"
  /\ seq' = seq - 1
  /\ pc' = "run"
  /\ refused' = TRUE
  /\ UNCHANGED <<flash, ring, window, dirty, took, bank, target, pos, slipped>>

EnterSave ==
  /\ pc = "enter"
  /\ pos' = 0
  /\ pc' = "erase"
  /\ UNCHANGED <<flash, ring, window, dirty, took, bank, seq, target, history>>

\* What a bank looks like with the pages of S replaced by v.
Overwrite(b, S, v) ==
  [flash EXCEPT ![b] = [p \in Pages |-> IF p \in S THEN v ELSE flash[b][p]]]

PagesOfSector(s) == {p \in Pages : SectorOf[p] = s}

EraseSector ==
  /\ pc = "erase"
  /\ flash' = Overwrite(target, PagesOfSector(pos + 1), Erased)
  /\ IF pos + 1 = LastSector
     THEN pc' = "program" /\ pos' = 0
     ELSE pc' = pc /\ pos' = pos + 1
  /\ UNCHANGED <<ring, window, dirty, took, bank, seq, target, history>>

Record == [seq |-> seq, ring |-> ring, window |-> window]

ProgramPage ==
  /\ pc = "program"
  /\ pos < PageCount[ring]
  /\ flash' = Overwrite(target, {pos + 1}, Record)
  /\ pos' = pos + 1
  /\ UNCHANGED <<ring, window, dirty, took, bank, seq, target, pc, history>>

\* Mutation: sink_finish is left out, the last page never reaches flash.
SaveDoneEarly ==
  /\ pc = "program"
  /\ pos >= PageCount[ring] - 1
  /\ bank' = target
  /\ pc' = "run"
  /\ refused' = FALSE /\ slipped' = FALSE
  /\ UNCHANGED <<flash, ring, window, dirty, took, seq, target, pos>>

SaveDone ==
  /\ pc = "program"
  /\ pos = PageCount[ring]
  /\ bank' = target
  /\ pc' = "run"
  /\ refused' = FALSE /\ slipped' = FALSE
  /\ UNCHANGED <<flash, ring, window, dirty, took, seq, target, pos>>

\* The unit a power cut would leave torn.
InProgress ==
  CASE pc = "erase" -> PagesOfSector(pos + 1)
    [] pc = "program" /\ pos < PageCount[ring] -> {pos + 1}
    [] OTHER -> {}

\* Power lost, or the deep-sleep power-off: RAM goes back to its boot values.
PowerCut ==
  /\ pc # "off"
  /\ flash' \in {flash, Overwrite(target, InProgress, Torn)}
  /\ ring' = EmptyRing /\ window' = NoWindow /\ dirty' = FALSE /\ took' = FALSE
  /\ bank' = "B" /\ seq' = 0
  /\ target' = "A" /\ pos' = 0
  /\ pc' = "off"
  /\ refused' = FALSE /\ slipped' = FALSE

Supervisor ==
  \/ Boot \/ AdoptWeather
  \/ ReadDirty \/ SkipSave \/ StartSave \/ SaveRefused \/ EnterSave
  \/ EraseSector \/ ProgramPage \/ SaveDone

Next ==
  \/ Supervisor
  \/ \E r \in Rings : RingChange(r)
  \/ \E w \in Windows : WeatherSet(w)
  \/ PowerCut

Spec == Init /\ [][Next]_vars

\* main() never blocks for good between two of these steps; nothing else is
\* promised, neither changes, nor power, nor that a save is ever granted.
FairSpec == Spec /\ WF_vars(Supervisor)

-----------------------------------------------------------------------------
(* The inductive invariant of the proofs: which bank holds the newest image,  *)
(* and what the spare bank contains at every point of a save.                 *)

InSave == pc \in {"enter", "erase", "program"}
Landed == pc = "program" /\ pos = PageCount[ring]

OffIsBlank ==
  pc = "off" => ring = EmptyRing /\ window = NoWindow

NewestIsTracked ==
  pc # "off" /\ SomeImage =>
    /\ Newest = (IF Landed THEN target ELSE bank)
    /\ flash[Newest][1].seq = (IF InSave /\ ~Landed THEN seq - 1 ELSE seq)

SpareIsWritten ==
  InSave => target = Other(bank) /\ seq >= 1

EraseProgress ==
  pc = "erase" =>
    /\ pos < LastSector
    /\ \A p \in Pages : SectorOf[p] <= pos => flash[target][p] = Erased

ProgramProgress ==
  pc = "program" =>
    /\ pos <= PageCount[ring]
    /\ \A p \in Pages : flash[target][p] = (IF p <= pos THEN Record ELSE Erased)

-----------------------------------------------------------------------------
(* Properties *)

\* Every variable keeps to its C type; s_seq, an unsigned counter, is taken back
\* by a refused save but never below zero.
TypeOK ==
  /\ flash \in [Banks -> [Pages -> Tags \union {Erased, Torn}]]
  /\ ring \in Rings /\ window \in AllWindows
  /\ dirty \in BOOLEAN /\ took \in BOOLEAN
  /\ refused \in BOOLEAN /\ slipped \in BOOLEAN
  /\ bank \in Banks /\ target \in Banks
  /\ seq \in Nat
  /\ pos \in Nat
  /\ pc \in {"off", "boot", "run", "take", "enter", "erase", "program"}

\* With s_dirty clear there is nothing of the ring left to write, whatever
\* changed it while a save was being set up or carried out, but for two ways a
\* change is forgotten: flash_safe_execute refused the save after the flag was
\* cleared, or storage_take_dirty read the flag clear and cleared it just after
\* a BLE handler had raised it.  A flag that was read set covers every change
\* made before the image is written.
CleanMeansDurable ==
  pc \in {"boot", "run", "take"} /\ ~dirty /\ ~refused /\ ~slipped
    => Durable.ring = ring

IInv ==
  /\ TypeOK
  /\ OffIsBlank
  /\ NewestIsTracked
  /\ SpareIsWritten
  /\ EraseProgress
  /\ ProgramProgress
  /\ CleanMeansDurable

\* "A power cut mid-write therefore costs the new image, never the old one":
\* what a boot would restore only ever changes into what RAM holds at that
\* moment, all at once, and every boot starts from it.
Promise == INSTANCE DurableImage WITH on <- pc # "off", durable <- Durable
PowerCutCostsOnlyTheNewImage == Promise!Spec

\* The image a boot would pick never goes back to an earlier save.
NewestMovesForward ==
  [][SomeImage => SomeImage' /\ flash'[Newest'][1].seq >= flash[Newest][1].seq]_vars

\* A changed ring reaches flash, as long as it is not changed again, the power
\* stays on, no save is refused and its flag does not slip.
RingReachesFlash ==
  \A r \in Rings :
    (pc # "off" /\ ring = r)
      ~> (Durable.ring = r \/ ring # r \/ pc = "off" \/ refused \/ slipped)

(* What the code does not give (ImageStoreRefuted.cfg). *)

\* src/src/main.c:401 "Persist the measurement state, if anything changed": the
\* same with no allowance for a flag that slips.  Violated: a BLE ingest between
\* the read and the clear of storage_flash.c:190-191 is in no image until
\* something else changes the ring.
EveryChangeReachesFlash ==
  \A r \in Rings :
    (pc # "off" /\ ring = r) ~> (Durable.ring = r \/ ring # r \/ pc = "off" \/ refused)

\* The same for the TA window, which storage_store.c calls part of that state.
\* Violated: weather_set does not raise the flag.
WindowReachesFlash ==
  \A w \in Windows :
    (pc # "off" /\ window = w) ~> (Durable.window = w \/ window # w \/ pc = "off" \/ refused)
=============================================================================
