---------------------------- MODULE Requests_proofs ----------------------------
(***************************************************************************)
(* Proofs about what the app asks of the supervisor.                       *)
(*                                                                         *)
(* SensorBench, the consoles between the measurements, for any commands,   *)
(* any probes and any number of commands: a client that waits for each     *)
(* answer before it asks again gets whole answers, and its own.  One that  *)
(* does not wait is refuted by ConsoleRefuted.cfg.                         *)
(*                                                                         *)
(* AppRequests, the ping, the inference and the switch, for any number of  *)
(* slots, pins, tables and phones: a request dies with its client, and the *)
(* pins show the table in force, unless a switch has come in between.      *)
(***************************************************************************)
EXTENDS SensorBench, AppRequests, WellFoundedInduction, TLAPS

-----------------------------------------------------------------------------
(* The consoles.                                                             *)

\* What the assumptions say of the commands.
LEMMA CommandFacts ==
  /\ \A c \in Commands : c = [text |-> c.text, pin |-> c.pin] /\ c.text # NoText /\ c.pin # NoText
  /\ NoText \notin Commands /\ MaxSeq \in Nat
BY BenchAssumption DEF App!ConsoleAssumption

LEMMA InitIsGood == App!Init => App!IInv
<1> SUFFICES ASSUME App!Init PROVE App!IInv
  OBVIOUS
<1> USE CommandFacts DEF App!Init, App!NoCommand
<1>1. App!TypeOK
  <2>1. pending \in BOOLEAN
    BY DEF App!Init
  <2>2. 0 \in 0..MaxSeq /\ 0 \in 0..0
    OBVIOUS
  <2>3. QED
    BY <2>1, <2>2 DEF App!TypeOK
<1>2. App!OneAtATime /\ App!TakenSoFar /\ App!AnswerWaits
  BY DEF App!OneAtATime, App!TakenSoFar, App!AnswerWaits
<1>3. App!AcceptedIsWhole /\ App!AcceptedIsOwn
  BY DEF App!AcceptedIsWhole, App!AcceptedIsOwn
<1>4. QED
  BY <1>1, <1>2, <1>3 DEF App!IInv

-----------------------------------------------------------------------------
(* The supervisor's steps; none of them touches what the client has got.     *)

LEMMA TakeKeepsIt ==
  ASSUME App!IInv, App!Take
  PROVE  App!IInv'
<1> USE CommandFacts DEF App!IInv, App!Take, App!client, App!result
<1>1. App!TypeOK'
  BY DEF App!TypeOK
<1>2. App!OneAtATime' /\ App!TakenSoFar' /\ App!AnswerWaits'
  BY DEF App!TypeOK, App!OneAtATime, App!TakenSoFar, App!AnswerWaits
<1>3. App!AcceptedIsWhole' /\ App!AcceptedIsOwn'
  BY DEF App!AcceptedIsWhole, App!AcceptedIsOwn
<1>4. QED
  BY <1>1, <1>2, <1>3

\* The box holds the awaited command while the supervisor copies it.
LEMMA CopiesKeepIt ==
  ASSUME App!IInv, App!CopyText \/ App!CopyPin
  PROVE  App!IInv'
<1> USE CommandFacts DEF App!IInv, App!CopyText, App!CopyPin, App!client, App!result, App!mailbox
<1>1. App!TypeOK'
  BY DEF App!TypeOK
<1>2. App!OneAtATime' /\ App!AnswerWaits'
  BY DEF App!OneAtATime, App!AnswerWaits
<1>3. App!TakenSoFar'
  BY DEF App!TypeOK, App!OneAtATime, App!TakenSoFar
<1>4. App!AcceptedIsWhole' /\ App!AcceptedIsOwn'
  BY DEF App!AcceptedIsWhole, App!AcceptedIsOwn
<1>5. QED
  BY <1>1, <1>2, <1>3, <1>4

\* The result is being written: its number has not moved, and nobody reads it.
LEMMA WritingKeepsIt ==
  ASSUME App!IInv, App!Run \/ App!Reply
  PROVE  App!IInv'
<1> USE CommandFacts DEF App!IInv, App!Run, App!Reply, App!client, App!mailbox
<1>1. App!TypeOK'
  BY DEF App!TypeOK
<1>2. App!OneAtATime' /\ App!AnswerWaits'
  BY DEF App!OneAtATime, App!AnswerWaits
<1>3. App!TakenSoFar'
  BY DEF App!TypeOK, App!OneAtATime, App!TakenSoFar
<1>4. App!AcceptedIsWhole' /\ App!AcceptedIsOwn'
  BY DEF App!AcceptedIsWhole, App!AcceptedIsOwn
<1>5. QED
  BY <1>1, <1>2, <1>3, <1>4

\* The number moves when the result is the awaited command's.
LEMMA PublishKeepsIt ==
  ASSUME App!IInv, App!Publish
  PROVE  App!IInv'
<1> USE CommandFacts DEF App!IInv, App!Publish, App!client, App!mailbox
<1>1. want \in Commands /\ copied = want /\ reply = want /\ cmd = want.text /\ ~pending
  <2>1. want \in Commands /\ ~pending
    BY DEF App!TypeOK, App!OneAtATime
  <2>2. copied.text = want.text /\ copied.pin = want.pin
    BY DEF App!TakenSoFar
  <2>3. copied = [text |-> copied.text, pin |-> copied.pin]
    BY DEF App!TakenSoFar
  <2>4. want = [text |-> want.text, pin |-> want.pin]
    BY <2>1
  <2>5. copied = want
    BY <2>2, <2>3, <2>4
  <2>6. QED
    BY <2>1, <2>5 DEF App!TakenSoFar
<1>2. App!TypeOK'
  BY DEF App!TypeOK, App!TakenSoFar
<1>3. App!OneAtATime' /\ App!TakenSoFar' /\ App!AnswerWaits'
  BY <1>1 DEF App!OneAtATime, App!TakenSoFar, App!AnswerWaits
<1>4. App!AcceptedIsWhole' /\ App!AcceptedIsOwn'
  BY DEF App!AcceptedIsWhole, App!AcceptedIsOwn
<1>5. QED
  BY <1>2, <1>3, <1>4

-----------------------------------------------------------------------------
(* The steps of the client.                                                  *)

\* A client that awaits nothing finds the mailbox empty and the supervisor idle.
LEMMA AskKeepsIt ==
  ASSUME Waits, App!IInv, NEW c \in Commands, App!Ask(c)
  PROVE  App!IInv'
<1> USE CommandFacts DEF App!IInv, App!Ask, App!result
<1>1. App!TypeOK'
  BY DEF App!TypeOK
<1>2. App!OneAtATime' /\ App!TakenSoFar' /\ App!AnswerWaits'
  BY DEF App!TypeOK, App!OneAtATime, App!TakenSoFar, App!AnswerWaits
<1>3. App!AcceptedIsWhole' /\ App!AcceptedIsOwn'
  BY DEF App!AcceptedIsWhole, App!AcceptedIsOwn
<1>4. QED
  BY <1>1, <1>2, <1>3

\* The number has moved, so the supervisor is through and the result is whole.
LEMMA PollKeepsIt ==
  ASSUME App!IInv, App!Poll
  PROVE  App!IInv'
<1> USE CommandFacts DEF App!IInv, App!Poll, App!result, App!mailbox
<1>1. want \in Commands /\ reply = want /\ cmd = want.text /\ at = "idle" /\ ~pending
  BY DEF App!TypeOK, App!OneAtATime, App!AnswerWaits
<1>2. App!TypeOK'
  BY DEF App!TypeOK
<1>3. App!OneAtATime' /\ App!TakenSoFar' /\ App!AnswerWaits'
  BY <1>1 DEF App!OneAtATime, App!TakenSoFar, App!AnswerWaits
<1>4. App!AcceptedIsWhole' /\ App!AcceptedIsOwn'
  BY <1>1 DEF App!AcceptedIsWhole, App!AcceptedIsOwn
<1>5. QED
  BY <1>2, <1>3, <1>4

\* A client goes when it awaits nothing.
LEMMA DisconnectKeepsIt ==
  ASSUME Waits, App!IInv, App!Disconnect
  PROVE  App!IInv'
<1> USE CommandFacts DEF App!IInv, App!Disconnect, App!result
<1>1. App!TypeOK'
  BY DEF App!TypeOK
<1>2. App!OneAtATime' /\ App!TakenSoFar' /\ App!AnswerWaits'
  BY DEF App!TypeOK, App!OneAtATime, App!TakenSoFar, App!AnswerWaits
<1>3. App!AcceptedIsWhole' /\ App!AcceptedIsOwn'
  BY DEF App!AcceptedIsWhole, App!AcceptedIsOwn
<1>4. QED
  BY <1>1, <1>2, <1>3

\* A measurement leaves the console alone.
LEMMA MeasuringKeepsIt ==
  ASSUME App!IInv, UNCHANGED appVars
  PROVE  App!IInv'
BY DEF appVars, App!IInv, App!TypeOK, App!OneAtATime, App!TakenSoFar, App!AnswerWaits,
       App!AcceptedIsWhole, App!AcceptedIsOwn

-----------------------------------------------------------------------------
\* A client that waits for its answers: Console!IInv holds through the whole
\* loop, measurements included.
THEOREM InductiveInvariant ==
  ASSUME Waits
  PROVE  BenchSpec => []App!IInv
<1>1. BenchInit => App!IInv
  BY InitIsGood DEF BenchInit
<1>2. App!IInv /\ [BenchNext]_benchVars => App!IInv'
  <2> SUFFICES ASSUME App!IInv, [BenchNext]_benchVars PROVE App!IInv'
    OBVIOUS
  <2>1. CASE App!Supervisor
    BY <2>1, TakeKeepsIt, CopiesKeepIt, WritingKeepsIt, PublishKeepsIt DEF App!Supervisor
  <2>2. ASSUME NEW c \in Commands, App!Ask(c) PROVE App!IInv'
    BY <2>2, AskKeepsIt
  <2>3. CASE App!Poll
    BY <2>3, PollKeepsIt
  <2>4. CASE App!Disconnect
    BY <2>4, DisconnectKeepsIt
  <2>5. CASE UNCHANGED appVars
    BY <2>5, MeasuringKeepsIt
  <2>6. Loop => App!Supervisor \/ UNCHANGED appVars
    BY DEF Loop, BeginCapture, Capturing, NothingDue, ServeRequest, NoRequest
  <2>7. Handler => (\E c \in Commands : App!Ask(c)) \/ App!Poll \/ App!Disconnect
    BY DEF Handler, ClientPolls
  <2>8. UNCHANGED benchVars => UNCHANGED appVars
    BY DEF benchVars
  <2>9. QED
    BY <2>1, <2>2, <2>3, <2>4, <2>5, <2>6, <2>7, <2>8 DEF BenchNext
<1>3. QED
  BY <1>1, <1>2, PTL DEF BenchSpec

\* The client's answers are whole: one command is named, and the lines are the
\* reply to it (lora_wioe5.c, sensor_sdi12.c, the number written last).
THEOREM AnswersAreWhole ==
  ASSUME Waits
  PROVE  BenchSpec => []AcceptedIsWhole
<1>1. App!IInv => AcceptedIsWhole
  BY DEF App!IInv, AcceptedIsWhole
<1>2. QED
  BY <1>1, InductiveInvariant, PTL

\* What a client gets is the reply to the command it asked for, on its pin.
THEOREM AnswersAreOwn ==
  ASSUME Waits
  PROVE  BenchSpec => []AcceptedIsOwn
<1>1. App!IInv => AcceptedIsOwn
  BY DEF App!IInv, AcceptedIsOwn
<1>2. QED
  BY <1>1, InductiveInvariant, PTL
-----------------------------------------------------------------------------
(* The loop over the output pins.                                            *)

\* Induction over the numbers of a set.
LEMMA AllOfNat ==
  ASSUME NEW S, 0 \in S, \A n \in Nat : n \in S => n + 1 \in S
  PROVE  \A n \in Nat : n \in S
<1> SUFFICES ASSUME NEW m \in Nat, m \notin S PROVE FALSE
  OBVIOUS
<1> DEFINE Out == {n \in Nat : n \notin S}
<1>1. m \in Out
  OBVIOUS
<1>2. PICK x \in Out : \A y \in Nat : <<y, x>> \in OpToRel(<, Nat) => y \notin Out
  BY <1>1, NatLessThanWellFounded, WFMin
<1>3. x \in Nat /\ x # 0 /\ x \notin S
  BY <1>2
<1>4. x - 1 \in Nat /\ x - 1 < x
  BY <1>3
<1>5. <<x - 1, x>> \in OpToRel(<, Nat)
  BY <1>3, <1>4 DEF OpToRel
<1>6. x - 1 \in S
  BY <1>2, <1>4, <1>5
<1>7. x \in S
  BY <1>3, <1>4, <1>6
<1>8. QED
  BY <1>3, <1>7

\* The loop over the first n slots, with all it has been through.
IsSync(g, s, old, new, n) ==
  g = [k \in 0..n |-> IF k = 0 THEN s ELSE SyncSlot(g[k - 1], k, old, new)]

\* It is well defined.
LEMMA SyncExists ==
  ASSUME NEW s, NEW old, NEW new, NEW n \in Nat
  PROVE  \E g : IsSync(g, s, old, new, n)
<1> DEFINE Body(g, k) == IF k = 0 THEN s ELSE SyncSlot(g[k - 1], k, old, new)
           S == {m \in Nat : \E g : g = [k \in 0..m |-> Body(g, k)]}
<1>1. 0 \in S
  <2> DEFINE f == [k \in 0..0 |-> s]
  <2>1. f = [k \in 0..0 |-> Body(f, k)]
    OBVIOUS
  <2>2. QED
    BY <2>1
<1>2. ASSUME NEW m \in Nat, m \in S PROVE m + 1 \in S
  <2>1. PICK g : g = [k \in 0..m |-> Body(g, k)]
    BY <1>2
  <2> DEFINE f == [k \in 0..(m + 1) |-> IF k \in 0..m THEN g[k] ELSE SyncSlot(g[m], k, old, new)]
  <2>2. ASSUME NEW k \in 0..(m + 1) PROVE f[k] = Body(f, k)
    <3>1. CASE k = 0
      BY <2>1, <3>1
    <3>2. CASE k \in 1..m
      <4>1. k - 1 \in 0..m /\ k \in 0..m /\ k # 0
        BY <3>2
      <4>2. f[k - 1] = g[k - 1] /\ f[k] = g[k]
        BY <4>1
      <4>3. g[k] = Body(g, k)
        BY <2>1, <4>1
      <4>4. QED
        BY <4>1, <4>2, <4>3
    <3>3. CASE k = m + 1
      <4>1. m \in 0..m /\ m \in 0..(m + 1) /\ k \notin 0..m /\ k # 0 /\ k - 1 = m
        BY <3>3
      <4>2. f[m] = g[m]
        BY <4>1
      <4>3. f[k] = SyncSlot(g[m], k, old, new)
        BY <4>1
      <4>4. QED
        BY <4>1, <4>2, <4>3
    <3>4. QED
      BY <3>1, <3>2, <3>3
  <2>3. f = [k \in 0..(m + 1) |-> Body(f, k)]
    <3> HIDE DEF Body
    <3>1. \A k \in 0..(m + 1) : f[k] = Body(f, k)
      BY <2>2
    <3>2. f = [k \in 0..(m + 1) |-> f[k]]
      OBVIOUS
    <3> HIDE DEF f
    <3>3. QED
      BY <3>1, <3>2
  <2> HIDE DEF f, Body
  <2>4. \E h : h = [k \in 0..(m + 1) |-> Body(h, k)]
    BY <2>3
  <2>5. QED
    BY <2>4
<1>3. n \in S
  <2> HIDE DEF S
  <2>1. QED
    BY <1>1, <1>2, AllOfNat
<1>4. QED
  BY <1>3 DEF IsSync

\* So the pins are left as the last of a sequence of steps, one for each slot.
LEMMA SyncUnfolds ==
  ASSUME RequestsAssumption, NEW table
  PROVE  \E g : /\ Synced(table) = g[N]
                /\ g[0] = [level |-> level, on |-> on]
                /\ \A k \in 1..N : g[k] = SyncSlot(g[k - 1], k, seen, table)
<1> DEFINE s == [level |-> level, on |-> on]
           loop == CHOOSE g : IsSync(g, s, seen, table, N)
<1>1. N \in Nat
  BY DEF RequestsAssumption
<1>2. \E g : IsSync(g, s, seen, table, N)
  <2> HIDE DEF s
  <2>1. QED
    BY <1>1, SyncExists
<1>3. IsSync(loop, s, seen, table, N)
  BY <1>2
<1>4. Synced(table) = loop[N]
  BY DEF Synced, IsSync
<1> HIDE DEF loop, s
<1>5. loop[0] = s
  <2>1. 0 \in 0..N
    BY <1>1
  <2>2. QED
    BY <1>3, <2>1 DEF IsSync
<1>6. ASSUME NEW k \in 1..N PROVE loop[k] = SyncSlot(loop[k - 1], k, seen, table)
  <2>1. k \in 0..N /\ k # 0
    BY <1>1
  <2>2. QED
    BY <1>3, <2>1 DEF IsSync
<1>7. \E g : /\ Synced(table) = g[N] /\ g[0] = s
             /\ \A k \in 1..N : g[k] = SyncSlot(g[k - 1], k, seen, table)
  BY <1>4, <1>5, <1>6
<1>8. QED
  BY <1>7 DEF s

\* What the first k slots leave.  A slot still on keeps the table it had, a pin is
\* high for such a slot only, and a slot that stays as it is keeps its pin.
Syncing(a, old, new, k) ==
  /\ a \in [level : [Gpios -> {"float", "low", "high"}], on : [Slots -> BOOLEAN]]
  /\ \A i \in Slots : a.on[i] => old[i].act /\ (i <= k => new[i] = old[i])
  /\ \A g \in Gpios : a.level[g] = "high" =>
       \E i \in Slots : old[i] = [act |-> TRUE, gpio |-> g] /\ a.on[i]
  /\ \A i \in Slots : new[i] = old[i] /\ a.on[i] => a.level[old[i].gpio] = "high"
  /\ \A i \in Slots : /\ old[i].act => a.level[old[i].gpio] # "float"
                      /\ i <= k /\ new[i].act => a.level[new[i].gpio] # "float"

\* A table as the app may write it.
LEMMA TableFacts ==
  ASSUME RequestsAssumption, NEW t \in Tables
  PROVE  /\ t \in [Slots -> Slot]
         /\ \A i \in Slots : t[i] = [act |-> t[i].act, gpio |-> t[i].gpio]
         /\ \A i \in Slots : t[i].act \in BOOLEAN /\ t[i].gpio \in Gpios
         /\ \A i, j \in Slots : i # j => t[i].gpio # t[j].gpio
BY DEF RequestsAssumption, Slot

LEMMA SlotOrder ==
  ASSUME RequestsAssumption, NEW k \in Slots
  PROVE  \A i \in Slots : i <= k => i <= k - 1 \/ i = k
BY DEF Slots, RequestsAssumption

\* The pin a slot leaves.
LEMMA ReleaseKeepsIt ==
  ASSUME RequestsAssumption, NEW old \in Tables, NEW new \in Tables, NEW k \in Slots,
         NEW a, Syncing(a, old, new, k - 1), Released(old[k], new[k]),
         NEW b, b = [level |-> [a.level EXCEPT ![old[k].gpio] = "low"], on |-> [a.on EXCEPT ![k] = FALSE]]
  PROVE  Syncing(b, old, new, k - 1) /\ ~b.on[k]
<1> USE TableFacts DEF Syncing
<1>1. /\ b.level = [a.level EXCEPT ![old[k].gpio] = "low"] /\ b.on = [a.on EXCEPT ![k] = FALSE]
      /\ old[k].act /\ new[k] # old[k]
  BY DEF Released, Moved
<1>2. b \in [level : [Gpios -> {"float", "low", "high"}], on : [Slots -> BOOLEAN]]
  OBVIOUS
<1>3. \A i \in Slots : b.on[i] => a.on[i] /\ i # k
  BY <1>1
<1>4. \A i \in Slots : a.on[i] /\ i # k => b.on[i]
  BY <1>1
<1>5. \A g \in Gpios : b.level[g] = IF g = old[k].gpio THEN "low" ELSE a.level[g]
  BY <1>1
<1> HIDE DEF Syncing
<1>6. \A i \in Slots : b.on[i] => old[i].act /\ (i <= k - 1 => new[i] = old[i])
  BY <1>3 DEF Syncing
<1>7. ASSUME NEW g \in Gpios, b.level[g] = "high"
      PROVE  \E i \in Slots : old[i] = [act |-> TRUE, gpio |-> g] /\ b.on[i]
  <2>1. g # old[k].gpio /\ a.level[g] = "high"
    BY <1>5, <1>7
  <2>2. PICK i \in Slots : old[i] = [act |-> TRUE, gpio |-> g] /\ a.on[i]
    BY <2>1 DEF Syncing
  <2>3. i # k
    BY <2>1, <2>2
  <2>4. QED
    BY <1>4, <2>2, <2>3
<1>8. ASSUME NEW i \in Slots, new[i] = old[i], b.on[i]
      PROVE  b.level[old[i].gpio] = "high"
  <2>1. i # k /\ a.level[old[i].gpio] = "high"
    BY <1>3, <1>8 DEF Syncing
  <2>2. old[i].gpio # old[k].gpio
    <3>1. \A j, m \in Slots : j # m => old[j].gpio # old[m].gpio
      BY TableFacts
    <3>2. QED
      BY <2>1, <3>1
  <2>3. QED
    BY <1>5, <2>1, <2>2
<1>9. ASSUME NEW i \in Slots
       PROVE  /\ old[i].act => b.level[old[i].gpio] # "float"
              /\ i <= k - 1 /\ new[i].act => b.level[new[i].gpio] # "float"
  BY <1>5 DEF Syncing
<1>10. QED
  BY <1>1, <1>2, <1>3, <1>6, <1>7, <1>8, <1>9 DEF Syncing

\* The pin a slot takes, which is off by then.
LEMMA ClaimKeepsIt ==
  ASSUME RequestsAssumption, NEW old \in Tables, NEW new \in Tables, NEW k \in Slots,
         NEW a, Syncing(a, old, new, k - 1), Claimed(old[k], new[k]), ~a.on[k],
         NEW b, b = [a EXCEPT !.level[new[k].gpio] = "low"]
  PROVE  Syncing(b, old, new, k)
<1> USE TableFacts
<1>1. \A i \in Slots : i <= k => i <= k - 1 \/ i = k
  BY SlotOrder
<1>2. b.level = [a.level EXCEPT ![new[k].gpio] = "low"] /\ b.on = a.on /\ new[k].act
  BY DEF Claimed, Syncing
<1>3. b \in [level : [Gpios -> {"float", "low", "high"}], on : [Slots -> BOOLEAN]]
  BY DEF Syncing
<1>4. \A g \in Gpios : b.level[g] = IF g = new[k].gpio THEN "low" ELSE a.level[g]
  BY <1>2 DEF Syncing
<1>5. \A i \in Slots : b.on[i] => old[i].act /\ (i <= k => new[i] = old[i])
  BY <1>2, <1>1 DEF Syncing
<1>6. ASSUME NEW g \in Gpios, b.level[g] = "high"
      PROVE  \E i \in Slots : old[i] = [act |-> TRUE, gpio |-> g] /\ b.on[i]
  <2>1. a.level[g] = "high"
    BY <1>4, <1>6
  <2>2. QED
    BY <1>2, <2>1 DEF Syncing
<1>7. ASSUME NEW i \in Slots, new[i] = old[i], b.on[i]
      PROVE  b.level[old[i].gpio] = "high"
  <2>1. i # k /\ a.level[old[i].gpio] = "high"
    BY <1>2, <1>7 DEF Syncing
  <2>2. new[i].gpio # new[k].gpio
    BY <2>1
  <2>3. QED
    BY <1>4, <1>7, <2>1, <2>2
<1>8. ASSUME NEW i \in Slots
      PROVE  /\ old[i].act => b.level[old[i].gpio] # "float"
             /\ i <= k /\ new[i].act => b.level[new[i].gpio] # "float"
  BY <1>4, <1>1 DEF Syncing
<1>9. QED
  BY <1>3, <1>5, <1>6, <1>7, <1>8 DEF Syncing

\* One slot.
LEMMA SlotKeepsIt ==
  ASSUME RequestsAssumption, NEW old \in Tables, NEW new \in Tables, NEW k \in Slots,
         NEW a, Syncing(a, old, new, k - 1)
  PROVE  Syncing(SyncSlot(a, k, old, new), old, new, k)
<1> DEFINE s1 == IF Released(old[k], new[k])
                 THEN [level |-> [a.level EXCEPT ![old[k].gpio] = "low"], on |-> [a.on EXCEPT ![k] = FALSE]]
                 ELSE a
<1>1. Syncing(s1, old, new, k - 1) /\ (Released(old[k], new[k]) => ~s1.on[k])
  <2>1. CASE Released(old[k], new[k])
    BY <2>1, ReleaseKeepsIt
  <2>2. CASE ~Released(old[k], new[k])
    BY <2>2
  <2>3. QED
    BY <2>1, <2>2
<1>2. SyncSlot(a, k, old, new) =
        IF Claimed(old[k], new[k])
        THEN [s1 EXCEPT !.level[new[k].gpio] = IF s1.on[k] THEN "high" ELSE "low"] ELSE s1
  BY DEF SyncSlot
<1> HIDE DEF s1
<1>3. CASE Claimed(old[k], new[k])
  <2>1. ~s1.on[k]
    <3>1. CASE Released(old[k], new[k])
      BY <1>1, <3>1
    <3>2. CASE ~Released(old[k], new[k])
      <4>1. ~old[k].act
        BY <1>3, <3>2, TableFacts DEF Claimed, Released
      <4>2. QED
        BY <1>1, <4>1 DEF Syncing
    <3>3. QED
      BY <3>1, <3>2
  <2>2. SyncSlot(a, k, old, new) = [s1 EXCEPT !.level[new[k].gpio] = "low"]
    BY <1>2, <1>3, <2>1
  <2>3. QED
    BY <1>1, <1>3, <2>1, <2>2, ClaimKeepsIt
<1>4. CASE ~Claimed(old[k], new[k])
  <2>1. SyncSlot(a, k, old, new) = s1
    BY <1>2, <1>4
  <2>3. \A i \in Slots : i <= k => i <= k - 1 \/ i = k
    BY SlotOrder
  <2>4. s1.on[k] => new[k] = old[k]
    <3>1. s1.on[k] => old[k].act
      BY <1>1 DEF Syncing
    <3>2. s1.on[k] => new[k].act /\ new[k].gpio = old[k].gpio
      BY <1>1, <3>1, TableFacts DEF Released, Moved
    <3>3. s1.on[k] => old[k].act = TRUE /\ new[k].act = TRUE
      BY <3>1, <3>2, TableFacts
    <3>4. /\ old[k] = [act |-> old[k].act, gpio |-> old[k].gpio]
          /\ new[k] = [act |-> new[k].act, gpio |-> new[k].gpio]
      BY TableFacts
    <3>5. QED
      BY <3>2, <3>3, <3>4
  <2>5. new[k].act => s1.level[new[k].gpio] # "float"
    <3>1. new[k].act => old[k].act /\ new[k].gpio = old[k].gpio
      BY <1>4, TableFacts DEF Claimed, Moved
    <3>2. QED
      BY <1>1, <3>1 DEF Syncing
  <2>6. Syncing(s1, old, new, k)
    BY <1>1, <2>3, <2>4, <2>5 DEF Syncing
  <2>7. QED
    BY <2>1, <2>6
<1>5. QED
  BY <1>3, <1>4

\* Whatever is on and high before: no pin of an actuator is left floating.
Driving(a, old, new, k) ==
  /\ a \in [level : [Gpios -> {"float", "low", "high"}], on : [Slots -> BOOLEAN]]
  /\ \A i \in Slots : /\ old[i].act => a.level[old[i].gpio] # "float"
                      /\ i <= k /\ new[i].act => a.level[new[i].gpio] # "float"

LEMMA SlotDrives ==
  ASSUME RequestsAssumption, NEW old \in Tables, NEW new \in Tables, NEW k \in Slots,
         NEW a, Driving(a, old, new, k - 1)
  PROVE  Driving(SyncSlot(a, k, old, new), old, new, k)
<1> DEFINE s1 == IF Released(old[k], new[k])
                 THEN [level |-> [a.level EXCEPT ![old[k].gpio] = "low"], on |-> [a.on EXCEPT ![k] = FALSE]]
                 ELSE a
           to == IF s1.on[k] THEN "high" ELSE "low"
           s2 == [s1 EXCEPT !.level[new[k].gpio] = to]
<1>1. Driving(s1, old, new, k - 1)
  <2>1. CASE Released(old[k], new[k])
    <3> DEFINE lv == [a.level EXCEPT ![old[k].gpio] = "low"]
               st == [a.on EXCEPT ![k] = FALSE]
    <3>1. lv \in [Gpios -> {"float", "low", "high"}] /\ st \in [Slots -> BOOLEAN]
      BY DEF Driving
    <3>2. \A g \in Gpios : a.level[g] # "float" => lv[g] # "float"
      BY DEF Driving
    <3>3. s1.level = lv /\ s1.on = st /\ s1 = [level |-> lv, on |-> st]
      BY <2>1
    <3> HIDE DEF s1, lv, st
    <3>4. QED
      BY <3>1, <3>2, <3>3, TableFacts DEF Driving
  <2>2. CASE ~Released(old[k], new[k])
    BY <2>2
  <2>3. QED
    BY <2>1, <2>2
<1>2. SyncSlot(a, k, old, new) = IF Claimed(old[k], new[k]) THEN s2 ELSE s1
  BY DEF SyncSlot
<1> HIDE DEF s1
<1>3. \A i \in Slots : i <= k => i <= k - 1 \/ i = k
  BY SlotOrder
<1>4. CASE Claimed(old[k], new[k])
  <2>1. to \in {"low", "high"}
    OBVIOUS
  <2> HIDE DEF to
  <2>2. /\ s2 \in [level : [Gpios -> {"float", "low", "high"}], on : [Slots -> BOOLEAN]]
        /\ \A g \in Gpios : s2.level[g] = IF g = new[k].gpio THEN to ELSE s1.level[g]
    BY <1>1, <2>1 DEF Driving
  <2> HIDE DEF s2
  <2>3. \A i \in Slots : /\ old[i].act => s2.level[old[i].gpio] # "float"
                         /\ i <= k /\ new[i].act => s2.level[new[i].gpio] # "float"
    BY <1>1, <1>3, <2>1, <2>2, TableFacts DEF Driving
  <2>4. QED
    BY <1>2, <1>4, <2>2, <2>3 DEF Driving
<1>5. CASE ~Claimed(old[k], new[k])
  <2>1. new[k].act => s1.level[new[k].gpio] # "float"
    <3>1. new[k].act => old[k].act /\ new[k].gpio = old[k].gpio
      BY <1>5, TableFacts DEF Claimed, Moved
    <3>2. QED
      BY <1>1, <3>1 DEF Driving
  <2>2. QED
    BY <1>1, <1>2, <1>3, <1>5, <2>1 DEF Driving
<1>6. QED
  BY <1>4, <1>5

LEMMA SyncDrives ==
  ASSUME RequestsAssumption, TypeOK, Driven(seen), NEW table \in Tables,
         NEW end, end = Synced(table)
  PROVE  /\ end \in [level : [Gpios -> {"float", "low", "high"}], on : [Slots -> BOOLEAN]]
         /\ \A i \in Slots : table[i].act => end.level[table[i].gpio] # "float"
<1>1. N \in Nat /\ \A i \in Slots : i \in Int /\ 1 <= i /\ i <= N
  BY DEF RequestsAssumption, Slots
<1>2. seen \in Tables
  BY DEF TypeOK
<1>3. PICK g : /\ end = g[N]
               /\ g[0] = [level |-> level, on |-> on]
               /\ \A k \in 1..N : g[k] = SyncSlot(g[k - 1], k, seen, table)
  BY SyncUnfolds
<1> DEFINE S == {n \in Nat : n <= N => Driving(g[n], seen, table, n)}
<1>4. 0 \in S
  <2>1. \A i \in Slots : ~(i <= 0)
    BY <1>1
  <2>2. Driving([level |-> level, on |-> on], seen, table, 0)
    BY <2>1 DEF Driving, Driven, TypeOK
  <2>3. QED
    BY <1>3, <2>2
<1>5. ASSUME NEW n \in Nat, n \in S PROVE n + 1 \in S
  <2> SUFFICES ASSUME n + 1 <= N PROVE Driving(g[n + 1], seen, table, n + 1)
    OBVIOUS
  <2> DEFINE k == n + 1
  <2>1. k \in Slots /\ k \in 1..N /\ k - 1 = n /\ n <= N
    BY <1>1 DEF Slots
  <2>2. Driving(g[n], seen, table, n)
    BY <1>5, <2>1
  <2> HIDE DEF k
  <2>3. Driving(SyncSlot(g[k - 1], k, seen, table), seen, table, k)
    BY <1>2, <2>1, <2>2, SlotDrives
  <2>4. Driving(g[k], seen, table, k)
    BY <1>3, <2>1, <2>3
  <2>5. QED
    BY <2>4 DEF k
<1>6. Driving(end, seen, table, N)
  <2> HIDE DEF S
  <2>1. N \in S
    BY <1>1, <1>4, <1>5, AllOfNat
  <2>2. Driving(g[N], seen, table, N)
    BY <1>1, <2>1 DEF S
  <2>3. QED
    BY <1>3, <2>2
<1>7. QED
  BY <1>1, <1>6 DEF Driving

\* What all of them leave: the pins show the new table.
LEMMA SyncFacts ==
  ASSUME RequestsAssumption, TypeOK, Driven(seen), PinsShow(seen, on), NEW table \in Tables,
         NEW end, end = Synced(table)
  PROVE  /\ end \in [level : [Gpios -> {"float", "low", "high"}], on : [Slots -> BOOLEAN]]
         /\ \A g \in Gpios : end.level[g] = "high" <=>
              \E i \in Slots : table[i] = [act |-> TRUE, gpio |-> g] /\ end.on[i]
         /\ \A i \in Slots : end.on[i] => table[i].act
<1>1. N \in Nat /\ \A i \in Slots : i \in Int /\ 1 <= i /\ i <= N
  BY DEF RequestsAssumption, Slots
<1>2. seen \in Tables
  BY DEF TypeOK
<1>3. PICK g : /\ end = g[N]
               /\ g[0] = [level |-> level, on |-> on]
               /\ \A k \in 1..N : g[k] = SyncSlot(g[k - 1], k, seen, table)
  BY SyncUnfolds
<1> DEFINE S == {n \in Nat : n <= N => Syncing(g[n], seen, table, n)}
<1>4. 0 \in S
  <2> DEFINE a == [level |-> level, on |-> on]
  <2>1. a \in [level : [Gpios -> {"float", "low", "high"}], on : [Slots -> BOOLEAN]]
    BY DEF TypeOK
  <2>2. a.level = level /\ a.on = on
    OBVIOUS
  <2> HIDE DEF a
  <2>3. \A i \in Slots : ~(i <= 0)
    BY <1>1
  <2>4. \A i \in Slots : on[i] => seen[i].act
    BY DEF PinsShow
  <2>5. \A h \in Gpios : level[h] = "high" =>
          \E i \in Slots : seen[i] = [act |-> TRUE, gpio |-> h] /\ on[i]
    BY DEF PinsShow
  <2>6. ASSUME NEW i \in Slots, on[i] PROVE level[seen[i].gpio] = "high"
    <3>1. seen[i].act = TRUE /\ seen[i].gpio \in Gpios /\ seen[i] = [act |-> seen[i].act, gpio |-> seen[i].gpio]
      BY <1>2, <2>4, <2>6, TableFacts
    <3>2. seen[i] = [act |-> TRUE, gpio |-> seen[i].gpio]
      BY <3>1
    <3>3. QED
      BY <2>6, <3>1, <3>2 DEF PinsShow
  <2>7. \A i \in Slots : seen[i].act => level[seen[i].gpio] # "float"
    BY DEF Driven
  <2>8. Syncing(a, seen, table, 0)
    BY <2>1, <2>2, <2>3, <2>4, <2>5, <2>6, <2>7 DEF Syncing
  <2>9. g[0] = a
    BY <1>3 DEF a
  <2>10. QED
    BY <2>8, <2>9
<1>5. ASSUME NEW n \in Nat, n \in S PROVE n + 1 \in S
  <2> SUFFICES ASSUME n + 1 <= N PROVE Syncing(g[n + 1], seen, table, n + 1)
    OBVIOUS
  <2>1. n <= N /\ n + 1 \in 1..N /\ n + 1 \in Slots /\ (n + 1) - 1 = n
    BY <1>1 DEF Slots
  <2>2. Syncing(g[n], seen, table, n)
    BY <1>5, <2>1
  <2> DEFINE k == n + 1
  <2>3. k \in Slots /\ k \in 1..N /\ k - 1 = n
    BY <2>1
  <2> HIDE DEF k
  <2>4. Syncing(g[k - 1], seen, table, k - 1)
    BY <2>2, <2>3
  <2>5. Syncing(SyncSlot(g[k - 1], k, seen, table), seen, table, k)
    BY <1>2, <2>3, <2>4, SlotKeepsIt
  <2>6. Syncing(g[k], seen, table, k)
    BY <1>3, <2>3, <2>5
  <2>7. QED
    BY <2>6 DEF k
<1>6. Syncing(end, seen, table, N)
  <2> HIDE DEF S
  <2>1. N \in S
    BY <1>1, <1>4, <1>5, AllOfNat
  <2>2. Syncing(g[N], seen, table, N)
    BY <1>1, <2>1 DEF S
  <2>3. QED
    BY <1>3, <2>2
<1> HIDE DEF S
<1>7. \A i \in Slots : end.on[i] => seen[i].act /\ table[i] = seen[i]
  BY <1>1, <1>6 DEF Syncing
<1>8. ASSUME NEW h \in Gpios
      PROVE  end.level[h] = "high" <=>
               \E i \in Slots : table[i] = [act |-> TRUE, gpio |-> h] /\ end.on[i]
  <2>1. ASSUME end.level[h] = "high"
        PROVE  \E i \in Slots : table[i] = [act |-> TRUE, gpio |-> h] /\ end.on[i]
    <3>1. PICK i \in Slots : seen[i] = [act |-> TRUE, gpio |-> h] /\ end.on[i]
      BY <1>6, <2>1 DEF Syncing
    <3>2. QED
      BY <1>7, <3>1
  <2>2. ASSUME NEW i \in Slots, table[i] = [act |-> TRUE, gpio |-> h], end.on[i]
        PROVE  end.level[h] = "high"
    <3>1. table[i] = seen[i] /\ seen[i].gpio = h
      BY <1>7, <2>2
    <3>2. QED
      BY <1>6, <2>2, <3>1 DEF Syncing
  <2>3. QED
    BY <2>1, <2>2
<1>9. end \in [level : [Gpios -> {"float", "low", "high"}], on : [Slots -> BOOLEAN]]
  BY <1>6 DEF Syncing
<1>10. QED
  BY <1>7, <1>8, <1>9

-----------------------------------------------------------------------------
(* The supervisor's steps.                                                   *)

LEMMA PinsFrame ==
  ASSUME PinsAreRight, UNCHANGED <<seen, level, on, crossed>>
  PROVE  PinsAreRight'
BY DEF PinsAreRight, Driven, PinsShow

LEMMA TopKeepsIt ==
  ASSUME RequestsAssumption, IInv, Top
  PROVE  IInv'
<1> USE DEF IInv, Top, store, boxes
<1> DEFINE end == Synced(cfg.table)
<1>1. cfg.table \in Tables
  BY DEF TypeOK
<1>2. /\ end \in [level : [Gpios -> {"float", "low", "high"}], on : [Slots -> BOOLEAN]]
      /\ \A i \in Slots : cfg.table[i].act => end.level[cfg.table[i].gpio] # "float"
      /\ ~crossed => /\ \A g \in Gpios : end.level[g] = "high" <=>
                         \E i \in Slots : cfg.table[i] = [act |-> TRUE, gpio |-> g] /\ end.on[i]
                    /\ \A i \in Slots : end.on[i] => cfg.table[i].act
  BY <1>1, SyncDrives, SyncFacts DEF PinsAreRight
<1>3. level' = end.level /\ on' = end.on /\ seen' = cfg.table
  BY DEF SyncPins
<1> HIDE DEF end
<1>4. TypeOK'
  <2>1. dirty' \in BOOLEAN /\ dirty' = dirty
    BY DEF TypeOK
  <2>2. on' \in [Slots -> BOOLEAN] /\ level' \in [Gpios -> {"float", "low", "high"}]
    BY <1>2, <1>3
  <2>3. QED
    BY <1>1, <1>3, <2>1, <2>2 DEF TypeOK
<1>5. PinsAreRight'
  BY <1>2, <1>3 DEF PinsAreRight, PinsShow, Driven
<1>6. SetUpForCopy'
  BY <1>3 DEF SetUpForCopy
<1>7. BoxesAreTheClients'
  BY DEF BoxesAreTheClients
<1>8. QED
  BY <1>4, <1>5, <1>6, <1>7

\* The iteration goes on with the table written, if any.
LEMMA WorkKeepsIt ==
  ASSUME IInv, NEW l \in Modes, NEW b \in BOOLEAN, Work \/ PatchedWork(l) \/ Nap(b)
  PROVE  IInv'
<1> USE DEF IInv, outputs, boxes
<1>1. /\ UNCHANGED <<seen, level, on>> /\ UNCHANGED <<con, ping, infer, act, taken, crossed>>
      /\ cfg' \in [table : Tables, local : Modes] /\ cfg'.table = cfg.table
      /\ live' \in {cfg', live} /\ pc' \in {"nap", "infer"}
  BY DEF Work, PatchedWork, Nap, Refresh, TypeOK
<1>2. dirty' \in BOOLEAN
  BY DEF Work, PatchedWork, Nap, Refresh, TypeOK
<1>3. TypeOK'
  BY <1>1, <1>2 DEF TypeOK
<1>4. PinsAreRight'
  BY <1>1, PinsFrame
<1>5. SetUpForCopy'
  BY <1>1 DEF SetUpForCopy
<1>6. BoxesAreTheClients'
  BY <1>1 DEF BoxesAreTheClients
<1>7. QED
  BY <1>3, <1>4, <1>5, <1>6

LEMMA TakingKeepsIt ==
  ASSUME IInv, TakeInfer \/ TakePing \/ TakeAct
  PROVE  IInv'
<1> USE DEF IInv, outputs, store
<1>1. /\ UNCHANGED <<seen, level, on>> /\ UNCHANGED <<con, cfg, live, taken, crossed>>
      /\ infer' \in {infer, FALSE} /\ ping' \in {ping, None}
      /\ act' \in {act, [act EXCEPT !.who = None]}
      /\ \/ pc' \in {"ping", "act", "top"}
         \/ pc' = "port" /\ act.who # None
  BY DEF TakeInfer, TakePing, TakeAct
<1>2. UNCHANGED dirty
  BY DEF TakeInfer, TakePing, TakeAct
<1>3. act' \in [who : Clients \cup {None}, port : Slots, on : BOOLEAN]
  BY <1>1 DEF TypeOK
<1>4. act'.who \in {act.who, None}
  BY <1>1 DEF TypeOK
<1>5. TypeOK'
  <2>1. infer' \in BOOLEAN
    BY <1>1 DEF TypeOK
  <2>2. crossed' \in BOOLEAN /\ dirty' \in BOOLEAN
    BY <1>1, <1>2 DEF TypeOK
  <2>3. taken' \in [port : Slots \cup {0}, on : BOOLEAN] /\ (pc' \in {"on", "switch"} => taken'.port \in Slots)
    BY <1>1 DEF TypeOK
  <2> HIDE DEF TakeInfer, TakePing, TakeAct
  <2>4. QED
    BY <1>1, <1>3, <2>1, <2>2, <2>3 DEF TypeOK
<1>6. PinsAreRight'
  BY <1>1, PinsFrame
<1>7. SetUpForCopy'
  BY <1>1, <1>4 DEF SetUpForCopy
<1>8. BoxesAreTheClients'
  BY <1>1, <1>4 DEF BoxesAreTheClients
<1>9. QED
  BY <1>5, <1>6, <1>7, <1>8

LEMMA ReadingKeepsIt ==
  ASSUME IInv, ReadPort \/ ReadOn
  PROVE  IInv'
<1> USE DEF IInv, outputs, store, boxes
<1>1. /\ UNCHANGED <<seen, level, on>> /\ UNCHANGED <<con, cfg, live, ping, infer, act, crossed>>
      /\ \/ pc = "port" /\ pc' = "on" /\ taken' = [taken EXCEPT !.port = act.port]
         \/ pc = "on" /\ pc' = "switch" /\ taken' = [taken EXCEPT !.on = act.on]
  BY DEF ReadPort, ReadOn
<1>2. UNCHANGED dirty
  BY DEF ReadPort, ReadOn
<1>3. taken' \in [port : Slots \cup {0}, on : BOOLEAN] /\ taken'.port \in Slots
  <2>1. act.port \in Slots
    BY DEF TypeOK
  <2>2. act.on \in BOOLEAN
    BY DEF TypeOK
  <2>3. QED
    BY <1>1, <2>1, <2>2 DEF TypeOK
<1>4. TypeOK'
  BY <1>1, <1>2, <1>3 DEF TypeOK
<1>5. PinsAreRight'
  BY <1>1, PinsFrame
<1>6. SetUpForCopy'
  BY <1>1 DEF SetUpForCopy
<1>7. BoxesAreTheClients'
  BY <1>1 DEF BoxesAreTheClients
<1>8. QED
  BY <1>4, <1>5, <1>6, <1>7

\* The pin driven is the slot's in the table the pins were set up for, or the
\* switch has crossed.
LEMMA SwitchKeepsIt ==
  ASSUME RequestsAssumption, IInv, Switch
  PROVE  IInv'
<1> USE DEF IInv, store, boxes
<1> DEFINE i == taken.port
           slot == live.table[i]
           g == slot.gpio
           to == IF taken.on THEN "high" ELSE "low"
<1>1. live.table \in Tables /\ seen \in Tables /\ i \in Slots
  BY DEF Switch, TypeOK
<1>2. taken.on \in BOOLEAN
  BY DEF TypeOK
<1>3. /\ UNCHANGED <<seen, con, cfg, live, ping, infer, act>>
      /\ pc' = "top" /\ taken' = [port |-> 0, on |-> FALSE]
  BY DEF Switch, NothingTaken
<1>4. UNCHANGED dirty
  BY DEF Switch
<1>5. SetUpForCopy' /\ BoxesAreTheClients'
  BY <1>3 DEF SetUpForCopy, BoxesAreTheClients
<1>6. taken' \in [port : Slots \cup {0}, on : BOOLEAN]
  BY <1>3
<1>7. crossed' = (crossed \/ (slot.act /\ slot # seen[i])) /\ crossed' \in BOOLEAN
  BY DEF Switch
<1>8. CASE ~slot.act
  <2>1. UNCHANGED <<seen, level, on>>
    BY <1>3, <1>8 DEF Switch
  <2>2. TypeOK'
    BY <1>3, <1>4, <1>6, <1>7, <2>1 DEF TypeOK
  <2>3. PinsAreRight'
    BY <1>7, <1>8, <2>1 DEF PinsAreRight, Driven, PinsShow
  <2>4. QED
    BY <1>5, <2>2, <2>3
<1>9. CASE slot.act
  <2>1. level' = [level EXCEPT ![g] = to] /\ on' = [on EXCEPT ![i] = taken.on]
    BY <1>9 DEF Switch
  <2>2. g \in Gpios /\ slot = [act |-> TRUE, gpio |-> g]
    <3>1. slot.act \in BOOLEAN /\ slot = [act |-> slot.act, gpio |-> g] /\ g \in Gpios
      BY <1>1, TableFacts
    <3>2. slot.act = TRUE
      BY <1>9, <3>1
    <3>3. QED
      BY <3>1, <3>2
  <2> HIDE DEF g, slot
  <2>3. \A h \in Gpios : level'[h] = IF h = g THEN to ELSE level[h]
    BY <2>1 DEF TypeOK
  <2>4. \A j \in Slots : j # i => on'[j] = on[j]
    BY <2>1 DEF TypeOK
  <2>5. on'[i] = taken.on
    BY <1>1, <2>1 DEF TypeOK
  <2>6. on' \in [Slots -> BOOLEAN]
    BY <1>1, <1>2, <2>1 DEF TypeOK
  <2>7. level' \in [Gpios -> {"float", "low", "high"}]
    BY <2>1 DEF TypeOK
  <2>8. TypeOK'
    BY <1>3, <1>4, <1>6, <1>7, <2>6, <2>7 DEF TypeOK
  <2>9. Driven(seen)'
    <3>1. \A j \in Slots : seen[j].act => level'[seen[j].gpio] # "float"
      BY <1>1, <2>3, TableFacts DEF PinsAreRight, Driven
    <3>2. QED
      BY <1>3, <3>1 DEF Driven
  <2>10. ASSUME ~crossed' PROVE PinsShow(seen, on)'
    <3>1. ~crossed /\ seen[i] = slot
      BY <1>7, <1>9, <2>10
    <3>2. \A j \in Slots : j # i => seen[j].gpio # g
      BY <1>1, <3>1, TableFacts DEF g
    <3>3. PinsShow(seen, on)
      BY <3>1 DEF PinsAreRight
    <3>4. ASSUME NEW h \in Gpios
          PROVE  level'[h] = "high" <=>
                   \E j \in Slots : seen[j] = [act |-> TRUE, gpio |-> h] /\ on'[j]
      <4>1. CASE h = g
        <5>1. level'[h] = "high" <=> taken.on
          BY <2>3, <4>1
        <5>2. \A j \in Slots : seen[j] = [act |-> TRUE, gpio |-> h] => j = i
          BY <3>2, <4>1
        <5>3. QED
          BY <1>1, <2>2, <2>5, <3>1, <4>1, <5>1, <5>2
      <4>2. CASE h # g
        <5>1. level'[h] = level[h]
          BY <2>3, <4>2
        <5>2. \A j \in Slots : seen[j] = [act |-> TRUE, gpio |-> h] => j # i
          BY <2>2, <3>1, <4>2
        <5>3. level[h] = "high" <=> \E j \in Slots : seen[j] = [act |-> TRUE, gpio |-> h] /\ on[j]
          BY <3>3 DEF PinsShow
        <5>4. QED
          BY <2>4, <5>1, <5>2, <5>3
      <4>3. QED
        BY <4>1, <4>2
    <3>5. \A j \in Slots : on'[j] => seen[j].act
      BY <1>9, <2>4, <3>1, <3>3 DEF PinsShow
    <3>6. QED
      BY <1>3, <3>4, <3>5 DEF PinsShow
  <2>11. PinsAreRight'
    BY <2>9, <2>10 DEF PinsAreRight
  <2>12. QED
    BY <1>5, <2>8, <2>11
<1>10. QED
  BY <1>8, <1>9

-----------------------------------------------------------------------------
(* The handlers and the boot.                                                *)

LEMMA ConnectionKeepsIt ==
  ASSUME IInv, (\E c \in Clients : Connect(c)) \/ Disconnect
  PROVE  IInv'
<1> USE DEF IInv, outputs, store, boxes
<1>1. /\ UNCHANGED <<seen, level, on>> /\ UNCHANGED <<pc, cfg, live, infer, taken, crossed>>
      /\ con' \in Clients \cup {None}
      /\ \/ con = None /\ ping' = ping /\ act' = act
         \/ ping' = None /\ act' = [act EXCEPT !.who = None]
  BY DEF Connect, Disconnect
<1>2. UNCHANGED dirty
  BY DEF Connect, Disconnect
<1>3. act' \in [who : Clients \cup {None}, port : Slots, on : BOOLEAN]
  BY <1>1 DEF TypeOK
<1>4. act'.who \in {act.who, None} /\ (act'.who # None => con = None)
  BY <1>1 DEF TypeOK
<1>5. TypeOK'
  BY <1>1, <1>2, <1>3 DEF TypeOK
<1>6. PinsAreRight'
  BY <1>1, PinsFrame
<1>7. SetUpForCopy'
  BY <1>1, <1>4 DEF SetUpForCopy
<1>8. BoxesAreTheClients'
  BY <1>1, <1>4 DEF BoxesAreTheClients
<1>9. QED
  BY <1>5, <1>6, <1>7, <1>8

\* The app may write at any time.
LEMMA ConfigWriteKeepsIt ==
  ASSUME IInv, NEW t \in Tables, NEW l \in Modes, ConfigWrite(t, l)
  PROVE  IInv'
<1> USE DEF IInv, ConfigWrite, outputs, boxes
<1>1. TypeOK'
  <2>1. dirty' \in BOOLEAN
    OBVIOUS
  <2>2. QED
    BY <2>1 DEF TypeOK
<1>2. PinsAreRight'
  BY PinsFrame
<1>3. SetUpForCopy'
  BY DEF SetUpForCopy
<1>4. BoxesAreTheClients'
  BY DEF BoxesAreTheClients
<1>5. QED
  BY <1>1, <1>2, <1>3, <1>4

LEMMA AskingKeepsIt ==
  ASSUME IInv, AskPing \/ AskInfer
  PROVE  IInv'
<1> USE DEF IInv, AskPing, AskInfer, store, outputs
<1>1. TypeOK'
  <2>1. UNCHANGED <<pc, cfg, live, dirty, seen, level, on, con, act, taken, crossed>>
    OBVIOUS
  <2>2. infer' \in BOOLEAN /\ ping' \in Clients \cup {None}
    BY DEF TypeOK
  <2> HIDE DEF AskPing, AskInfer
  <2>3. dirty' \in BOOLEAN /\ crossed' \in BOOLEAN
    BY <2>1 DEF TypeOK
  <2>4. QED
    BY <2>1, <2>2, <2>3 DEF TypeOK
<1>2. PinsAreRight'
  BY PinsFrame
<1>3. SetUpForCopy'
  BY DEF SetUpForCopy
<1>4. BoxesAreTheClients'
  BY DEF BoxesAreTheClients
<1>5. QED
  BY <1>1, <1>2, <1>3, <1>4

\* It may ask for a switch whether or not the table it wrote is in force.
LEMMA AskSwitchKeepsIt ==
  ASSUME IInv, NEW i \in Int, NEW b \in BOOLEAN, AskSwitch(i, b)
  PROVE  IInv'
<1> USE DEF IInv, AskSwitch, store, outputs
<1>1. UNCHANGED dirty /\ act' = [who |-> con, port |-> i, on |-> b] /\ i \in Slots
  OBVIOUS
<1>2. act' \in [who : Clients \cup {None}, port : Slots, on : BOOLEAN]
  BY <1>1 DEF TypeOK
<1>3. TypeOK'
  BY <1>1, <1>2 DEF TypeOK
<1>4. PinsAreRight'
  BY PinsFrame
<1>5. SetUpForCopy'
  BY DEF SetUpForCopy
<1>6. BoxesAreTheClients'
  BY DEF BoxesAreTheClients
<1>7. QED
  BY <1>3, <1>4, <1>5, <1>6

\* What a boot sets up.
LEMMA SetUpFacts ==
  ASSUME RequestsAssumption, cfg.table \in Tables
  PROVE  /\ SetUp \in [Gpios -> {"float", "low", "high"}]
         /\ \A g \in Gpios : SetUp[g] # "high"
         /\ \A i \in Slots : cfg.table[i].act => SetUp[cfg.table[i].gpio] # "float"
         /\ AllOff \in [Slots -> BOOLEAN]
         /\ \A i \in Slots : ~AllOff[i]
         /\ NoAct \in [who : Clients \cup {None}, port : Slots, on : BOOLEAN]
         /\ NoAct.who = None
         /\ NothingTaken \in [port : Slots \cup {0}, on : BOOLEAN]
<1>1. /\ SetUp \in [Gpios -> {"float", "low", "high"}]
      /\ \A g \in Gpios : SetUp[g] # "high"
  BY DEF SetUp
<1>2. ASSUME NEW i \in Slots, cfg.table[i].act
      PROVE  SetUp[cfg.table[i].gpio] # "float"
  <2>1. /\ cfg.table[i].act \in BOOLEAN /\ cfg.table[i].gpio \in Gpios
        /\ cfg.table[i] = [act |-> cfg.table[i].act, gpio |-> cfg.table[i].gpio]
    BY TableFacts
  <2>2. cfg.table[i] = [act |-> TRUE, gpio |-> cfg.table[i].gpio]
    <3>1. cfg.table[i].act = TRUE
      BY <1>2, <2>1
    <3>2. QED
      BY <2>1, <3>1
  <2>3. QED
    BY <2>1, <2>2 DEF SetUp
<1>3. AllOff \in [Slots -> BOOLEAN] /\ \A i \in Slots : ~AllOff[i]
  BY DEF AllOff
<1>4. 1 \in Slots
  BY DEF Slots, RequestsAssumption
<1>5. /\ NoAct \in [who : Clients \cup {None}, port : Slots, on : BOOLEAN]
      /\ NoAct.who = None
  BY <1>4 DEF NoAct
<1>6. NothingTaken \in [port : Slots \cup {0}, on : BOOLEAN]
  BY DEF NothingTaken
<1>7. QED
  BY <1>1, <1>2, <1>3, <1>5, <1>6

LEMMA InitHasIt ==
  ASSUME RequestsAssumption, Init
  PROVE  IInv
<1> USE DEF Init
<1>1. cfg.table \in Tables
  OBVIOUS
<1>2. TypeOK
  <2>1. dirty \in BOOLEAN
    OBVIOUS
  <2>2. QED
    BY <1>1, <2>1, SetUpFacts DEF TypeOK
<1>3. PinsAreRight
  BY <1>1, SetUpFacts DEF PinsAreRight, Driven, PinsShow
<1>4. SetUpForCopy
  BY <1>1, SetUpFacts DEF SetUpForCopy
<1>5. BoxesAreTheClients
  BY <1>1, SetUpFacts DEF BoxesAreTheClients
<1>6. QED
  BY <1>2, <1>3, <1>4, <1>5 DEF IInv

LEMMA PowerCycleKeepsIt ==
  ASSUME RequestsAssumption, IInv, PowerCycle
  PROVE  IInv'
<1> USE DEF PowerCycle, store
<1>1. cfg.table \in Tables
  BY DEF IInv, TypeOK
<1>2. TypeOK'
  <2>1. dirty' = dirty /\ dirty \in BOOLEAN
    BY DEF IInv, TypeOK
  <2>2. QED
    BY <1>1, <2>1, SetUpFacts DEF IInv, TypeOK
<1>3. PinsAreRight'
  BY <1>1, SetUpFacts DEF PinsAreRight, Driven, PinsShow
<1>4. SetUpForCopy'
  BY <1>1, SetUpFacts DEF SetUpForCopy
<1>5. BoxesAreTheClients'
  BY <1>1, SetUpFacts DEF BoxesAreTheClients
<1>6. QED
  BY <1>2, <1>3, <1>4, <1>5 DEF IInv

-----------------------------------------------------------------------------
\* AppRequests!IInv holds through every iteration, request, disconnection and power
\* cycle, for an app that writes and switches whenever it likes.
THEOREM RequestsInvariant ==
  ASSUME RequestsAssumption
  PROVE  Spec => []IInv
<1>1. Init => IInv
  BY InitHasIt
<1>2. IInv /\ [Next]_(vars) => IInv'
  <2> SUFFICES ASSUME IInv, [Next]_(vars) PROVE IInv'
    OBVIOUS
  <2>1. ASSUME Supervisor PROVE IInv'
    BY <2>1, TopKeepsIt, WorkKeepsIt, TakingKeepsIt, ReadingKeepsIt, SwitchKeepsIt DEF Supervisor
  <2>2. ASSUME Handlers PROVE IInv'
    <3>1. N \in Nat
      BY DEF RequestsAssumption
    <3>2. \A i \in 0..N + 1 : i \in Int
      BY <3>1
    <3>3. QED
      BY <2>2, <3>2, ConnectionKeepsIt, ConfigWriteKeepsIt, AskingKeepsIt, AskSwitchKeepsIt
         DEF Handlers
  <2>3. ASSUME PowerCycle PROVE IInv'
    BY <2>3, PowerCycleKeepsIt
  <2>4. ASSUME UNCHANGED vars PROVE IInv'
    <3>1. /\ UNCHANGED <<pc, cfg, dirty, live, seen, level, on>>
          /\ UNCHANGED <<con, ping, infer, act, taken, crossed>>
      BY <2>4 DEF vars, store, outputs, boxes
    <3>2. TypeOK' <=> TypeOK
      BY <3>1 DEF TypeOK
    <3>3. QED
      BY <3>1, <3>2 DEF IInv, PinsAreRight, Driven, PinsShow, SetUpForCopy, BoxesAreTheClients
  <2>5. QED
    BY <2>1, <2>2, <2>3, <2>4 DEF Next
<1>3. QED
  BY <1>1, <1>2, PTL DEF Spec

\* Once the supervisor has looked at the table, no actuator's pin floats, and a pin
\* is high exactly when it is the pin of an actuator that the app is told is on
\* (main.c, sync_output_pins), until a switch comes between a refresh of the copy
\* and the next look.
THEOREM PinsMatchSlots ==
  ASSUME RequestsAssumption
  PROVE  Spec => []OutputsMatchSlots
<1>1. IInv => OutputsMatchSlots
  BY DEF IInv, PinsAreRight, Driven, PinsShow, SetUpForCopy, OutputsMatchSlots
<1>2. QED
  BY <1>1, RequestsInvariant, PTL

\* No ping and no switch is taken on behalf of a client that has gone, for any
\* app, one that does not wait included (ble_gatt.c, the disconnection).
THEOREM NoOneElsesRequest ==
  Spec => RequestsDieWithClient
<1> DEFINE Boxed == BoxesAreTheClients /\ "who" \in DOMAIN act
<1>1. Init => Boxed
  BY DEF Init, NoAct, BoxesAreTheClients
<1>2. Boxed /\ [Next]_(vars) => Boxed'
  <2> SUFFICES ASSUME Boxed, [Next]_(vars) PROVE Boxed'
    OBVIOUS
  <2> USE DEF BoxesAreTheClients
  <2>1. CASE Supervisor
    <3>1. /\ con' = con /\ ping' \in {ping, None} /\ act' \in {act, [act EXCEPT !.who = None]}
      BY <2>1 DEF Supervisor, Top, Work, PatchedWork, Nap, TakeInfer,
           TakePing, TakeAct, ReadPort, ReadOn, Switch, boxes
    <3>2. QED
      BY <3>1
  <2>2. CASE (\E c \in Clients : Connect(c)) \/ Disconnect
    <3>1. \/ con = None /\ ping' = ping /\ act' = act
          \/ ping' = None /\ act' = [act EXCEPT !.who = None]
      BY <2>2 DEF Connect, Disconnect, boxes
    <3>2. QED
      BY <3>1
  <2>3. CASE \E t \in Tables, l \in Modes : ConfigWrite(t, l)
    <3>1. UNCHANGED <<con, ping, act>>
      BY <2>3 DEF ConfigWrite, boxes
    <3>2. QED
      BY <3>1
  <2>4. CASE AskPing \/ AskInfer
    BY <2>4 DEF AskPing, AskInfer
  <2>5. CASE \E i \in 0..N + 1, b \in BOOLEAN : AskSwitch(i, b)
    BY <2>5 DEF AskSwitch
  <2>6. CASE PowerCycle
    BY <2>6 DEF PowerCycle, NoAct
  <2>7. CASE UNCHANGED vars
    <3>1. UNCHANGED <<con, ping, act>>
      BY <2>7 DEF vars, boxes
    <3>2. QED
      BY <3>1
  <2>8. QED
    BY <2>1, <2>2, <2>3, <2>4, <2>5, <2>6, <2>7 DEF Next, Handlers
<1>3. Boxed /\ [Next]_(vars) =>
        [/\ pc = "ping" /\ pc' = "act" /\ ping # None => ping = con
         /\ pc = "act" /\ pc' = "port" => act.who = con]_(vars)
  <2> SUFFICES ASSUME Boxed, Next
               PROVE  /\ pc = "ping" /\ pc' = "act" /\ ping # None => ping = con
                      /\ pc = "act" /\ pc' = "port" => act.who = con
    OBVIOUS
  <2>1. pc = "act" /\ pc' = "port" => act.who # None
    BY DEF Next, Supervisor, Top, Work, PatchedWork, Nap, TakeInfer,
       TakePing, TakeAct, ReadPort, ReadOn, Switch, Handlers, Connect,
       Disconnect, ConfigWrite, AskPing, AskInfer, AskSwitch, PowerCycle
  <2>2. QED
    BY <2>1 DEF BoxesAreTheClients
<1>4. QED
  BY <1>1, <1>2, <1>3, PTL DEF Spec, RequestsDieWithClient
=============================================================================
