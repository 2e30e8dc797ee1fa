---------------------------- MODULE BleConfig_proofs ----------------------------
(***************************************************************************)
(* Proofs about what the app does to the station over BLE.                 *)
(*                                                                         *)
(* BleLink, for any keys, response lengths and updates, and any number of  *)
(* connections, requests and writes: the lock opens only to a proof of     *)
(* this connection, what a client puts together is one response from its   *)
(* first frame on, and no update is made of two.                           *)
(*                                                                         *)
(* StationConfig, for every board, table size and set of patches.  The     *)
(* inductive invariant says of the record in flash what it says of the     *)
(* configuration in RAM: a boot turns one into the other without checking  *)
(* it.                                                                     *)
(***************************************************************************)
EXTENDS BleLink, StationConfig, SequenceTheorems, TLAPS

-----------------------------------------------------------------------------
(* The link.                                                               *)

LEMMA LinkFacts ==
  /\ NoKey \notin Keys /\ NoKey \notin Weathers
  /\ \A t \in Totals : t \in Nat /\ t > 0
  /\ MaxConnections \in Nat /\ MaxRequests \in Nat /\ MaxWrites \in Nat
BY LinkAssumption

LEMMA InitIsGood == Init => IInv
<1> SUFFICES ASSUME Init PROVE IInv
  OBVIOUS
<1> USE LinkFacts DEF Init
<1>1. TypeOK
  BY DEF TypeOK
<1>2. rx \in Seq(Frames) /\ Len(rx) = 0
  BY EmptySeq
<1>3. AuthedMeansProof /\ WeatherIsOneUpdate
  BY DEF AuthedMeansProof, WeatherIsOneUpdate
<1>4. ResponseIsWhole /\ ResponseUnderWay
  BY <1>2 DEF ResponseIsWhole, ResponseUnderWay
<1>5. LongWriteUnderWay
  BY DEF LongWriteUnderWay
<1>6. QED
  BY <1>1, <1>2, <1>3, <1>4, <1>5 DEF IInv

\* What the steps of a long write do to its length and its flag.
LEMMA LongTypes ==
  ASSUME len \in 0..2, prep \in BOOLEAN,
         CancelLong \/ Execute \/ (\E w \in Weathers, k \in {0, 1} : Chunk(w, k))
  PROVE  len' \in 0..2 /\ prep' \in BOOLEAN
<1>1. CASE CancelLong
  <2>1. len' \in 0..2
    BY <1>1 DEF CancelLong
  <2>2. prep' \in BOOLEAN
    BY <1>1 DEF CancelLong
  <2>3. QED
    BY <2>1, <2>2
<1>2. CASE Execute
  <2>1. len' \in 0..2
    BY <1>2 DEF Execute
  <2>2. prep' \in BOOLEAN
    BY <1>2 DEF Execute
  <2>3. QED
    BY <2>1, <2>2
<1>3. ASSUME NEW w \in Weathers, NEW k \in {0, 1}, Chunk(w, k)
      PROVE  len' \in 0..2 /\ prep' \in BOOLEAN
  <2>1. len' \in 0..2
    BY <1>3 DEF Chunk, Store
  <2>2. prep' \in BOOLEAN
    BY <1>3 DEF Chunk, Store
  <2>3. QED
    BY <2>1, <2>2
<1>4. QED
  BY <1>1, <1>2, <1>3

LEMMA BufferTypes ==
  ASSUME NEW w \in Weathers, NEW k \in {0, 1}, Chunk(w, k),
         buf \in [{0, 1} -> Weathers \cup {NoKey}]
  PROVE  buf' \in [{0, 1} -> Weathers \cup {NoKey}]
BY DEF Chunk, Store

\* What the sends do to the number of the next chunk and to the request for room.
LEMMA SendTypes ==
  ASSUME total \in Nat, seq \in 0..total, SendAck \/ SendChunk
  PROVE  seq' \in 0..total /\ canSend' \in BOOLEAN
<1>1. CASE SendAck
  <2>1. canSend' = (seq < total) /\ seq' = seq
    BY <1>1 DEF SendAck, response
  <2>2. QED
    BY <2>1
<1>2. CASE SendChunk
  <2>1. CASE seq < total
    BY <1>2, <2>1 DEF SendChunk
  <2>2. CASE ~(seq < total)
    BY <1>2, <2>2 DEF SendChunk
  <2>3. QED
    BY <2>1, <2>2
<1>3. QED
  BY <1>1, <1>2

\* Every action keeps the types.
LEMMA TypeStep == ASSUME TypeOK, [Next]_vars PROVE TypeOK'
<1> USE LinkFacts DEF TypeOK
<1>1. CASE Connect
  <2>1. con' = count + 1 /\ count' = count + 1 /\ count < MaxConnections
    BY <1>1 DEF Connect
  <2>2. con' \in {0, count'} /\ count' \in 0..MaxConnections
    BY <2>1
  <2>3. con' # 0
    BY <2>1
  <2>4. UNCHANGED <<key, notify, ack, result, writes, id, total, seq, canSend>>
        /\ UNCHANGED <<prep, buf, len, weather, sending, owed>>
        /\ authed' \in BOOLEAN /\ proved' \in BOOLEAN
    BY <1>1 DEF Connect, response, long
  <2>5. QED
    BY <2>2, <2>3, <2>4
<1>2. CASE Disconnect
  <2>1. len' \in 0..2 /\ prep' \in BOOLEAN
    BY <1>2, LongTypes DEF Disconnect
  <2>2. sending' = NoKey /\ buf' = buf
    BY <1>2 DEF Disconnect, CancelLong
  <2>3. con' = 0 /\ count' = count /\ seq' = 0 /\ total' = 0 /\ writes' = writes /\ id' = id
    BY <1>2 DEF Disconnect
  <2>4. ~notify' /\ ~ack' /\ ~canSend' /\ notify' \in BOOLEAN /\ ack' \in BOOLEAN
        /\ canSend' \in BOOLEAN /\ owed' \subseteq 1..MaxWrites /\ result' = result
    BY <1>2 DEF Disconnect
  <2>5. key' = key /\ authed' = authed /\ proved' = proved
    BY <1>2 DEF Disconnect, auth
  <2>6. QED
    BY <2>1, <2>2, <2>3, <2>4, <2>5
<1>3. CASE Auth
  <2>1. PICK new \in Keys \cup {NoKey} :
          \/ SetPassword(new)
          \/ \E k \in Keys, n \in {con, con - 1} : Authenticate(k, n) \/ ChangePassword(k, n, new)
    BY <1>3 DEF Auth
  <2>2. CASE SetPassword(new)
    BY <2>2 DEF SetPassword, response, long
  <2>3. ASSUME NEW k \in Keys, NEW n \in {con, con - 1}, Authenticate(k, n) PROVE TypeOK'
    BY <2>3 DEF Authenticate, Proves, response, long
  <2>4. ASSUME NEW k \in Keys, NEW n \in {con, con - 1}, ChangePassword(k, n, new) PROVE TypeOK'
    BY <2>4 DEF ChangePassword, Proves, response, long
  <2>5. QED
    BY <2>1, <2>2, <2>3, <2>4
<1>4. ASSUME NEW t \in Totals, DataRequest(t) PROVE TypeOK'
  BY <1>4 DEF DataRequest, auth, long
<1>5. ASSUME NEW b \in BOOLEAN, Subscribe(b) PROVE TypeOK'
  BY <1>5 DEF Subscribe, auth, response, long
<1>6. CASE ConfigWrite
  <2>1. writes' = writes + 1 /\ writes < MaxWrites /\ result' = writes'
        /\ owed' = owed \cup {w \in {writes'} : notify}
    BY <1>6 DEF ConfigWrite
  <2>2. writes' \in 1..MaxWrites
    BY <2>1
  <2>3. result' \in 0..MaxWrites /\ writes' \in 0..MaxWrites /\ owed' \subseteq 1..MaxWrites
    <3>1. owed' \subseteq owed \cup {writes'}
      BY <2>1
    <3>2. owed' \subseteq 1..MaxWrites
      BY <2>2, <3>1
    <3>3. writes' \in 0..MaxWrites
      BY <2>2
    <3>4. QED
      BY <2>1, <3>2, <3>3
  <2>4. ack' \in BOOLEAN
    BY <1>6 DEF ConfigWrite
  <2>5. canSend' \in BOOLEAN
    BY <1>6 DEF ConfigWrite
  <2>6. con # 0
    BY <1>6 DEF ConfigWrite
  <2>7. UNCHANGED <<con, count, key, authed, proved, notify, id, total, seq>>
        /\ UNCHANGED <<prep, buf, len, weather, sending>>
    BY <1>6 DEF ConfigWrite, auth, response, long
  <2>8. QED
    BY <2>3, <2>4, <2>5, <2>6, <2>7
<1>7. CASE SendAck
  <2>1. canSend' \in BOOLEAN
    BY <1>7, SendTypes
  <2>2. QED
    BY <1>7, <2>1 DEF SendAck, auth, response, long
<1>8. CASE SendChunk
  <2>1. seq' \in 0..total /\ canSend' \in BOOLEAN
    BY <1>8, SendTypes
  <2>2. QED
    BY <1>8, <2>1 DEF SendChunk, auth, long
<1>9. ASSUME NEW w \in Weathers, WeatherWrite(w) PROVE TypeOK'
  BY <1>9 DEF WeatherWrite, auth, response
<1>10. ASSUME NEW w \in Weathers, NEW k \in {0, 1}, Chunk(w, k) PROVE TypeOK'
  <2>0. \E ww \in Weathers, kk \in {0, 1} : Chunk(ww, kk)
    BY <1>10
  <2>1. len' \in 0..2 /\ prep' \in BOOLEAN
    BY <2>0, LongTypes
  <2>2. buf' \in [{0, 1} -> Weathers \cup {NoKey}]
    BY <1>10, BufferTypes
  <2>3. QED
    BY <1>10, <2>1, <2>2 DEF Chunk, auth, response
<1>11. CASE Execute
  <2>1. len' \in 0..2 /\ prep' \in BOOLEAN
    BY <1>11, LongTypes
  <2>2. QED
    BY <1>11, <2>1 DEF Execute, auth, response
<1>12. CASE Cancel
  <2>1. len' \in 0..2 /\ prep' \in BOOLEAN
    BY <1>12, LongTypes DEF Cancel
  <2>2. sending' = NoKey /\ buf' = buf
    BY <1>12 DEF Cancel, CancelLong
  <2>3. QED
    BY <1>12, <2>1, <2>2 DEF Cancel, auth, response
<1>13. CASE UNCHANGED vars
  BY <1>13 DEF vars, auth, response, long
<1>14. QED
  BY <1>1, <1>2, <1>3, <1>4, <1>5, <1>6, <1>7, <1>8, <1>9, <1>10, <1>11, <1>12, <1>13 DEF Next

-----------------------------------------------------------------------------
(* The lock *)

LEMMA LockStep ==
  ASSUME TypeOK, AuthedMeansProof, [Next]_vars
  PROVE  AuthedMeansProof'
<1> USE DEF AuthedMeansProof
<1>1. CASE Connect
  BY <1>1 DEF Connect
<1>2. CASE Disconnect
  BY <1>2 DEF Disconnect
<1>3. CASE Auth
  <2>1. PICK new \in Keys \cup {NoKey} :
          \/ SetPassword(new)
          \/ \E k \in Keys, n \in {con, con - 1} : Authenticate(k, n) \/ ChangePassword(k, n, new)
    BY <1>3 DEF Auth
  <2>2. CASE SetPassword(new)
    BY <2>2 DEF SetPassword
  <2>3. ASSUME NEW k \in Keys, NEW n \in {con, con - 1}, Authenticate(k, n)
        PROVE  AuthedMeansProof'
    BY <2>3 DEF Authenticate
  <2>4. ASSUME NEW k \in Keys, NEW n \in {con, con - 1}, ChangePassword(k, n, new)
        PROVE  AuthedMeansProof'
    BY <2>4 DEF ChangePassword
  <2>5. QED
    BY <2>1, <2>2, <2>3, <2>4
<1>4. CASE UNCHANGED <<con, key, authed, proved>>
  BY <1>4
<1>5. QED
  BY <1>1, <1>2, <1>3, <1>4
     DEF Next, vars, auth, DataRequest, Subscribe, ConfigWrite, SendAck, SendChunk, WeatherWrite,
         Chunk, Execute, Cancel

-----------------------------------------------------------------------------
(* The response *)

\* A frame that is appended leaves those before it in their places.
LEMMA FrameAdded ==
  ASSUME NEW r \in Seq(Frames), NEW f \in Frames
  PROVE  /\ r \o <<f>> \in Seq(Frames) /\ Len(r \o <<f>>) = Len(r) + 1
         /\ \A i \in 1..Len(r) : (r \o <<f>>)[i] = r[i]
         /\ (r \o <<f>>)[Len(r) + 1] = f
OBVIOUS

\* What the client has received, and what of it is the response under way.
Received == rx \in Seq(Frames) /\ ResponseIsWhole /\ ResponseUnderWay

\* A chunk goes behind those of its response, the first one in the place of
\* whatever was there.
LEMMA ChunkReceived ==
  ASSUME TypeOK, Received, SendChunk, seq < total
  PROVE  Received'
<1> DEFINE f == [id |-> id, s |-> seq, t |-> total]
<1>1. seq \in Nat /\ total \in Totals /\ id \in 0..MaxRequests /\ f \in Frames
  BY LinkFacts DEF TypeOK, Frames
<1>2. seq' = seq + 1 /\ id' = id /\ total' = total
  BY DEF SendChunk
<1>3. CASE seq = 0
  <2>1. rx' = <<>> \o <<f>>
    BY <1>3 DEF SendChunk
  <2>2. <<>> \in Seq(Frames) /\ Len(<<>>) = 0
    BY EmptySeq
  <2>3. rx' \in Seq(Frames) /\ Len(rx') = 1 /\ rx'[1] = f
    <3> HIDE DEF f
    <3>1. QED
      BY <1>1, <2>1, <2>2, FrameAdded
  <2>4. DOMAIN rx' = 1..1
    BY <2>3
  <2>5. ResponseIsWhole'
    BY <1>3, <2>3, <2>4 DEF ResponseIsWhole
  <2>6. rx' # <<>>
    BY <2>3, EmptySeq
  <2>7. ResponseUnderWay'
    BY <1>2, <1>3, <2>3, <2>6 DEF ResponseUnderWay
  <2>8. QED
    BY <2>3, <2>5, <2>7 DEF Received
<1>4. CASE seq # 0
  <2>1. rx' = rx \o <<f>> /\ rx \in Seq(Frames)
    BY <1>4 DEF SendChunk, Received
  <2>2. rx # <<>> /\ rx[1].id = id /\ rx[1].t = total /\ Len(rx) = seq
    BY <1>1, <1>4 DEF Received, ResponseUnderWay
  <2>3. /\ rx' \in Seq(Frames) /\ Len(rx') = seq + 1
        /\ \A i \in 1..seq : rx'[i] = rx[i]
        /\ rx'[seq + 1] = f
    <3> HIDE DEF f
    <3>1. QED
      BY <1>1, <2>1, <2>2, FrameAdded
  <2>4. DOMAIN rx' = 1..(seq + 1) /\ DOMAIN rx = 1..seq
    BY <2>1, <2>2, <2>3
  <2>5. rx'[1] = rx[1]
    BY <1>1, <1>4, <2>3
  <2>6. ASSUME NEW i \in 1..(seq + 1)
        PROVE  rx'[i] = [id |-> rx'[1].id, s |-> i - 1, t |-> rx'[1].t]
    <3>1. CASE i \in 1..seq
      BY <2>3, <2>4, <2>5, <3>1 DEF Received, ResponseIsWhole
    <3>2. CASE i = seq + 1
      BY <1>1, <2>2, <2>3, <2>5, <3>2
    <3>3. QED
      BY <1>1, <3>1, <3>2
  <2>7. ResponseIsWhole'
    BY <2>4, <2>6 DEF ResponseIsWhole
  <2>8. rx' # <<>>
    BY <1>1, <2>3
  <2>9. ResponseUnderWay'
    BY <1>2, <2>2, <2>3, <2>5, <2>8 DEF ResponseUnderWay
  <2>10. QED
    BY <2>3, <2>7, <2>9 DEF Received
<1>5. QED
  BY <1>3, <1>4

LEMMA ReceiveStep ==
  ASSUME TypeOK, Received, [Next]_vars
  PROVE  Received'
<1>1. CASE Connect
  <2>1. con = 0 /\ rx' = <<>> /\ seq' = seq
    BY <1>1 DEF Connect, response
  <2>2. seq' = 0
    BY <2>1 DEF TypeOK
  <2>3. rx' \in Seq(Frames) /\ DOMAIN rx' = {}
    BY <2>1, EmptySeq
  <2>4. QED
    BY <2>2, <2>3 DEF Received, ResponseIsWhole, ResponseUnderWay
<1>2. CASE Disconnect \/ (\E t \in Totals : DataRequest(t))
  <2>1. rx' = rx /\ seq' = 0
    BY <1>2 DEF Disconnect, DataRequest
  <2>2. QED
    BY <2>1 DEF Received, ResponseIsWhole, ResponseUnderWay
<1>3. CASE SendChunk
  <2>1. CASE seq < total
    BY <1>3, <2>1, ChunkReceived
  <2>2. CASE ~(seq < total)
    BY <1>3, <2>2 DEF SendChunk, Received, ResponseIsWhole, ResponseUnderWay
  <2>3. QED
    BY <2>1, <2>2
<1>4. CASE UNCHANGED <<response, rx>>
  BY <1>4 DEF response, Received, ResponseIsWhole, ResponseUnderWay
<1>5. QED
  BY <1>1, <1>2, <1>3, <1>4
     DEF Next, vars, Auth, SetPassword, Authenticate, ChangePassword, Subscribe, ConfigWrite,
         SendAck, WeatherWrite, Chunk, Execute, Cancel

-----------------------------------------------------------------------------
(* The weather *)

LongWrite == WeatherIsOneUpdate /\ LongWriteUnderWay

\* The lock moves by Auth and Connect alone, and no write is under way then.
LEMMA LockMoves ==
  ASSUME TypeOK, LongWrite, Auth \/ Connect
  PROVE  sending = NoKey /\ UNCHANGED long
<1>1. CASE Connect
  BY <1>1 DEF Connect, LongWrite, LongWriteUnderWay
<1>2. CASE Auth
  BY <1>2 DEF Auth, SetPassword, Authenticate, ChangePassword
<1>3. QED
  BY <1>1, <1>2

\* The chunk lands behind those of its own update.
LEMMA ChunkStored ==
  ASSUME TypeOK, LongWrite, NEW w \in Weathers, NEW k \in {0, 1}, Chunk(w, k)
  PROVE  LongWrite'
<1>1. /\ sending' = w /\ w # NoKey /\ con' = con /\ con # 0 /\ weather' = weather
      /\ key' = key /\ authed' = authed /\ (Locked' <=> Locked)
  BY LinkFacts DEF Chunk, auth, Locked
<1>2. CASE Locked
  BY <1>1, <1>2 DEF Chunk, LongWrite, LongWriteUnderWay, WeatherIsOneUpdate
<1>3. CASE ~Locked /\ k = 0
  <2>1. len' = 1 /\ buf' = [buf EXCEPT ![0] = w]
    BY <1>3 DEF Chunk, Store
  <2>2. buf'[0] = w
    BY <2>1 DEF TypeOK
  <2>3. prep'
    BY <1>3 DEF Chunk, Store
  <2>4. QED
    BY <1>1, <1>3, <2>1, <2>2, <2>3 DEF LongWrite, LongWriteUnderWay, WeatherIsOneUpdate
<1>4. CASE ~Locked /\ k = 1
  <2>1. sending = w
    BY <1>4 DEF Chunk
  <2>2. prep /\ len > 0 /\ buf[0] = w
    BY <1>1, <1>4, <2>1 DEF LongWrite, LongWriteUnderWay
  <2>3. buf' = [buf EXCEPT ![1] = w] /\ len' = IF 2 > len THEN 2 ELSE len
    BY <1>4 DEF Chunk, Store
  <2>4. prep' = TRUE
    BY <1>4, <2>2 DEF Chunk, Store
  <2>5. buf'[0] = w /\ buf'[1] = w
    BY <2>2, <2>3 DEF TypeOK
  <2>6. len' > 0
    BY <2>2, <2>3 DEF TypeOK
  <2>7. QED
    BY <1>1, <1>4, <2>4, <2>5, <2>6 DEF LongWrite, LongWriteUnderWay, WeatherIsOneUpdate
<1>5. QED
  BY <1>2, <1>3, <1>4

\* A write that is committed is one update, for nothing came between its chunks.
LEMMA CommitIsOne ==
  ASSUME TypeOK, LongWrite, Execute
  PROVE  LongWrite'
<1>1. /\ sending' = NoKey /\ con' = con /\ con # 0
      /\ (Locked' <=> Locked)
  BY DEF Execute, auth, Locked
<1>2. CASE Locked
  BY <1>1, <1>2 DEF Execute, LongWrite, LongWriteUnderWay, WeatherIsOneUpdate
<1>3. CASE ~Locked
  <2>1. len' = 0 /\ prep' = FALSE
    BY <1>3 DEF Execute
  <2>2. LongWriteUnderWay'
    BY <1>1, <2>1 DEF LongWriteUnderWay
  <2>3. CASE prep /\ len = 2
    <3>1. buf[0] = buf[1]
      BY <1>3, <2>3 DEF LongWrite, LongWriteUnderWay
    <3>2. weather' = {buf[0], buf[1]}
      BY <1>3, <2>3 DEF Execute, Commit
    <3>3. QED
      BY <2>2, <3>1, <3>2 DEF LongWrite, WeatherIsOneUpdate
  <2>4. CASE ~(prep /\ len = 2)
    <3>1. weather' = weather
      BY <1>3, <2>4 DEF Execute, Commit
    <3>2. QED
      BY <2>2, <3>1 DEF LongWrite, WeatherIsOneUpdate
  <2>5. QED
    BY <2>3, <2>4
<1>4. QED
  BY <1>2, <1>3

\* A write that is cancelled leaves an empty buffer: it was empty if the lock
\* keeps the cancellation out.
LEMMA CancelledIsEmpty ==
  ASSUME LongWrite, Disconnect \/ Cancel
  PROVE  LongWrite'
<1>1. CancelLong /\ (con' = 0 \/ con' = con) /\ (Locked' <=> Locked)
  BY DEF Disconnect, Cancel, auth, Locked
<1>2. sending' = NoKey /\ weather' = weather /\ ~prep' /\ len' = 0
  BY <1>1 DEF CancelLong, LongWrite, LongWriteUnderWay
<1>3. QED
  BY <1>2 DEF LongWrite, LongWriteUnderWay, WeatherIsOneUpdate

LEMMA LongStep ==
  ASSUME TypeOK, LongWrite, [Next]_vars
  PROVE  LongWrite'
<1>1. CASE Auth \/ Connect
  <2>1. sending = NoKey /\ UNCHANGED long
    BY <1>1, LockMoves
  <2>2. QED
    BY <2>1 DEF long, LongWrite, LongWriteUnderWay, WeatherIsOneUpdate
<1>2. CASE Disconnect \/ Cancel
  BY <1>2, CancelledIsEmpty
<1>3. ASSUME NEW w \in Weathers, NEW k \in {0, 1}, Chunk(w, k) PROVE LongWrite'
  BY <1>3, ChunkStored
<1>4. CASE Execute
  BY <1>4, CommitIsOne
<1>5. ASSUME NEW w \in Weathers, WeatherWrite(w) PROVE LongWrite'
  BY <1>5 DEF WeatherWrite, auth, Locked, LongWrite, LongWriteUnderWay, WeatherIsOneUpdate
<1>6. CASE UNCHANGED <<con, auth, long>>
  BY <1>6 DEF auth, long, Locked, LongWrite, LongWriteUnderWay, WeatherIsOneUpdate
<1>7. QED
  BY <1>1, <1>2, <1>3, <1>4, <1>5, <1>6
     DEF Next, vars, DataRequest, Subscribe, ConfigWrite, SendAck, SendChunk

-----------------------------------------------------------------------------
(* The theorems *)

\* The types, and what a client, the lock and the buffer of long writes know of
\* each other, hold in every state: the induction the theorems below rest on.
THEOREM InductiveInvariant == Spec => []IInv
<1>1. Init => IInv
  BY InitIsGood
<1>2. IInv /\ [Next]_vars => IInv'
  <2> SUFFICES ASSUME IInv, [Next]_vars PROVE IInv'
    OBVIOUS
  <2>1. TypeOK /\ AuthedMeansProof /\ Received /\ LongWrite
    BY DEF IInv, Received, LongWrite
  <2>2. TypeOK'
    BY <2>1, TypeStep
  <2>3. AuthedMeansProof'
    BY <2>1, LockStep
  <2>4. Received'
    BY <2>1, ReceiveStep
  <2>5. LongWrite'
    BY <2>1, LongStep
  <2>6. QED
    BY <2>2, <2>3, <2>4, <2>5 DEF IInv, Received, LongWrite
<1>3. QED
  BY <1>1, <1>2, PTL DEF Spec

\* The variables of the connection keep their types, and nothing is staged or
\* pending without one (gatt_on_disconnect).
THEOREM TypeCorrect == Spec => []TypeOK
<1>1. IInv => TypeOK
  BY DEF IInv
<1>2. QED
  BY <1>1, InductiveInvariant, PTL

\* Whatever passwords are set, proved and changed on however many connections,
\* a client that the lock lets through proved the password on this one.
THEOREM AuthedIsProved == Spec => []AuthedMeansProof
<1>1. IInv => AuthedMeansProof
  BY DEF IInv
<1>2. QED
  BY <1>1, InductiveInvariant, PTL

\* However requests, acknowledgements and disconnections overtake a response of
\* any length, what a client puts together is one response from its first frame.
THEOREM ResponsesAreWhole == Spec => []ResponseIsWhole
<1>1. IInv => ResponseIsWhole
  BY DEF IInv
<1>2. QED
  BY <1>1, InductiveInvariant, PTL

\* However long writes are begun, broken off, cancelled behind the lock and
\* executed, the weather that is taken is that of one update.
THEOREM WeatherIsWhole == Spec => []WeatherIsOneUpdate
<1>1. IInv => WeatherIsOneUpdate
  BY DEF IInv
<1>2. QED
  BY <1>1, InductiveInvariant, PTL

-----------------------------------------------------------------------------
(* The configuration.                                                      *)

\* What every configuration the station keeps satisfies.
LoraSound(c) == c.on => UartPairFits(c.table, c.tx, c.rx)
Sound(c) == c \in Config /\ SensorsApart(c.table) /\ LoraSound(c)

ConfigInv ==
    /\ power \in {"on", "off"} /\ {onDevice, dirty, unsaved} \subseteq BOOLEAN
    /\ Sound(cfg)
    /\ flash = Absent \/ Sound(flash)
    /\ LocalNeedsModel

-----------------------------------------------------------------------------
(* The checks of the pin inventory are enough.                             *)

\* A table that the checks accept keeps the sensors apart, and off LoRa's pins.
LEMMA TableFitsIsSound ==
    ASSUME NEW table \in Tables, NEW lora, TableFits(table, lora)
    PROVE  /\ SensorsApart(table)
           /\ SensorPins(table) \cap lora = {}
<1>1. \A i \in Slots: \A g \in SlotPins(table[i]):
        /\ table[i].type # "none"
        /\ Assignable(g) /\ g \notin lora
        /\ table[i].type = "analog" => g \in Adcs
        /\ \A j \in Slots \ {i}: g \notin SlotPins(table[j])
  BY DEF TableFits, SlotFits, SlotPins
<1>2. \A i, j \in Slots: i # j => SlotPins(table[i]) \cap SlotPins(table[j]) = {}
  BY <1>1
<1>3. \A i \in Slots: table[i].type = "analog" => table[i].gpio \in Adcs
  <2>1. \A i \in Slots: table[i].type = "analog" => table[i].gpio \in SlotPins(table[i])
    BY DEF SlotPins
  <2> QED BY <2>1, <1>1
<1>4. \A i \in Slots: table[i].type = "sonar" => table[i].gpio # table[i].gpio2
  BY DEF TableFits, SlotFits
<1>5. SensorPins(table) \cap lora = {} /\ \A g \in SensorPins(table): Assignable(g)
  BY <1>1 DEF SensorPins
<1> QED BY <1>2, <1>3, <1>4, <1>5 DEF SensorsApart

\* An empty table uses no pin.
LEMMA DefaultsSound == Sound(Defaults) /\ (Defaults.mode = "local" => onDevice)
<1> DEFINE T == [i \in Slots |-> Free]
<1>1. Free \in [type: Types, gpio: Gpios \cup {NoPin}, gpio2: Gpios \cup {NoPin}]
  BY DEF Free, Types
<1>2. T \in Tables
  BY <1>1 DEF Tables
<1>3. \A i \in Slots: T[i].type = "none" /\ SlotPins(T[i]) = {}
  BY DEF Free, SlotPins
<1>4. SensorPins(T) = {}
  BY <1>3 DEF SensorPins
<1>5. SensorsApart(T)
  BY <1>3, <1>4 DEF SensorsApart
<1>6. (CHOOSE v \in Periods: TRUE) \in Periods
  BY ConfigAssumption
<1>7. /\ Defaults \in Config /\ Defaults.table = T /\ Defaults.on = FALSE
      /\ Defaults.mode = "local" => onDevice
  BY <1>2, <1>6 DEF Defaults, Config, Modes
<1> QED BY <1>5, <1>7 DEF Sound, LoraSound

-----------------------------------------------------------------------------
(* The steps.                                                              *)

\* Taking the staged patch of the app keeps the configuration sound.
LEMMA StagedSound ==
    ASSUME ConfigInv, NEW p \in Patches, Accepted(p)
    PROVE  Sound(Staged(p))
<1> DEFINE c == Staged(p)
<1>0. Sound(cfg) /\ cfg \in Config
  BY DEF ConfigInv, Sound
<1>1. /\ c.on \in BOOLEAN /\ c.tx \in Gpios \cup {NoPin} /\ c.rx \in Gpios \cup {NoPin}
      /\ c.table \in Tables /\ c.period \in Periods /\ c.mode \in Modes
  BY <1>0, ConfigAssumption DEF Staged, Given, Accepted, Config
<1>2. c.coords \in BOOLEAN
  BY <1>0 DEF Staged, Config, Nulled, Paired
<1>3. c.lat \in Degrees \cup {Unset} /\ c.lon \in Degrees \cup {Unset}
  BY <1>0, ConfigAssumption DEF Staged, Config, Nulled, Paired
<1>4. c \in Config
  BY <1>1, <1>2, <1>3 DEF Staged, Config
<1>5. CASE p.table = Absent
  <2>1. c.table = cfg.table
    BY <1>5 DEF Staged, Given
  <2>2. CASE MovesLora(p)
    BY <2>1, <2>2, <1>0, <1>4 DEF Sound, LoraSound, Accepted, LoraFits
  <2>3. CASE ~MovesLora(p)
    <3>1. c.on = cfg.on /\ c.tx = cfg.tx /\ c.rx = cfg.rx
      BY <2>3 DEF MovesLora, Staged, Given
    <3> QED BY <3>1, <2>1, <1>0, <1>4 DEF Sound, LoraSound
  <2> QED BY <2>2, <2>3
<1>6. CASE p.table # Absent
  <2>1. c.table = p.table /\ TableFits(c.table, {c.tx, c.rx})
    BY <1>6 DEF Accepted, Staged, Given
  <2>2. SensorsApart(c.table) /\ SensorPins(c.table) \cap {c.tx, c.rx} = {}
    BY <2>1, <1>1, TableFitsIsSound
  <2>3. c.on => IsUartPair(c.tx, c.rx) /\ \A g \in {c.tx, c.rx}: Assignable(g)
    <3>1. CASE MovesLora(p)
      BY <3>1 DEF Accepted, LoraFits, UartPairFits
    <3>2. CASE ~MovesLora(p)
      <4>1. c.on = cfg.on /\ c.tx = cfg.tx /\ c.rx = cfg.rx
        BY <3>2 DEF MovesLora, Staged, Given
      <4> QED BY <4>1, <1>0 DEF Sound, LoraSound, UartPairFits
    <3> QED BY <3>1, <3>2
  <2> QED BY <2>2, <2>3, <1>4 DEF Sound, LoraSound, UartPairFits
<1> QED BY <1>5, <1>6

\* Neither does a patch of the network disturb it.
LEMMA AppliedSound ==
    ASSUME ConfigInv, NEW t \in Tlvs
    PROVE  /\ Sound(Applied(t))
           /\ Applied(t).mode = "local" => onDevice
<1> DEFINE c == Applied(t)
<1>0. Sound(cfg) /\ cfg \in Config
  BY DEF ConfigInv, Sound
<1>1. TlvPeriod(t) \in Periods
  BY <1>0 DEF TlvPeriod, Config
<1>2. TlvMode(t) \in Modes /\ (TlvMode(t) = "local" => onDevice)
  BY <1>0, ConfigAssumption DEF TlvMode, Given, Modes, Config
<1>3. /\ Given(t.lat, cfg.lat) \in Degrees \cup {Unset}
      /\ Given(t.lon, cfg.lon) \in Degrees \cup {Unset}
  BY <1>0, ConfigAssumption DEF Given, Config
<1>4. /\ c.on = cfg.on /\ c.tx = cfg.tx /\ c.rx = cfg.rx /\ c.table = cfg.table
      /\ c.mode = TlvMode(t)
  BY <1>0 DEF Applied, Config
<1>5. c \in Config
  BY <1>0, <1>1, <1>2, <1>3 DEF Applied, Config
<1> QED BY <1>0, <1>2, <1>4, <1>5 DEF Sound, LoraSound

\* A record of either build makes a sound configuration of this one.
LEMMA ModelledSound ==
    ASSUME NEW c, Sound(c), onDevice \in BOOLEAN
    PROVE  Sound(Modelled(c)) /\ (Modelled(c).mode = "local" => onDevice)
<1> DEFINE d == Modelled(c)
<1>1. c \in Config
  BY DEF Sound
<1>2. d \in Config /\ (d.mode = "local" => onDevice)
  BY <1>1 DEF Modelled, Config, Modes
<1>3. d.on = c.on /\ d.tx = c.tx /\ d.rx = c.rx /\ d.table = c.table
  BY <1>1 DEF Modelled, Config
<1> QED BY <1>2, <1>3 DEF Sound, LoraSound

\* A save, finished, refused or cut, leaves in flash what it was given or less.
LEMMA SaveSound ==
    ASSUME NEW c, Sound(c), ConfigInv, Save(c)
    PROVE  /\ flash' = Absent \/ Sound(flash')
           /\ power' \in {"on", "off"} /\ unsaved' \in BOOLEAN
           /\ power' = "on" => power = "on"
BY DEF ConfigInv, Save, Saved, Refused, CutMidway

LEMMA ConfigInitSound == ConfigInit => ConfigInv
BY DefaultsSound DEF ConfigInit, ConfigInv, LocalNeedsModel

LEMMA ConfigStepSound == ConfigInv /\ [ConfigNext]_configVars => ConfigInv'
<1> SUFFICES ASSUME ConfigInv, [ConfigNext]_configVars PROVE ConfigInv'
  OBVIOUS
<1>s. Sound(cfg) /\ (flash = Absent \/ Sound(flash))
  BY DEF ConfigInv
<1>t. onDevice \in BOOLEAN /\ dirty \in BOOLEAN /\ unsaved \in BOOLEAN /\ power \in {"on", "off"}
  BY DEF ConfigInv
<1>1. ASSUME NEW p \in Patches, BleWrite(p) PROVE ConfigInv'
  <2>1. Sound(Staged(p))
    BY <1>1, StagedSound DEF BleWrite
  <2>2. Staged(p).mode = "local" => onDevice
    BY <1>1 DEF BleWrite, Accepted, Staged, Given, ConfigInv, LocalNeedsModel
  <2>3. Sound(cfg') /\ (cfg'.mode = "local" => onDevice)
    BY <1>1, <2>1, <2>2 DEF BleWrite
  <2> QED BY <1>1, <1>s, <1>t, <2>3 DEF BleWrite, ConfigInv, LocalNeedsModel, Sound, LoraSound
<1>2. ASSUME NEW t \in Tlvs, TlvPatch(t) PROVE ConfigInv'
  <2>1. Sound(Applied(t)) /\ (Applied(t).mode = "local" => onDevice)
    BY AppliedSound
  <2>2. /\ flash' = Absent \/ Sound(flash')
        /\ power' \in {"on", "off"} /\ unsaved' \in BOOLEAN
    BY <1>2, <2>1, SaveSound DEF TlvPatch
  <2>3. Sound(cfg') /\ (cfg'.mode = "local" => onDevice)
    BY <1>2, <2>1 DEF TlvPatch
  <2> QED BY <1>2, <1>t, <2>2, <2>3 DEF TlvPatch, ConfigInv, LocalNeedsModel, Sound, LoraSound
<1>3. ASSUME Persist PROVE ConfigInv'
  <2>1. /\ flash' = Absent \/ Sound(flash')
        /\ power' \in {"on", "off"} /\ unsaved' \in BOOLEAN
        /\ power' = "on" => power = "on"
    BY <1>3, <1>s, SaveSound DEF Persist
  <2> QED BY <1>3, <1>s, <1>t, <2>1 DEF Persist, ConfigInv, LocalNeedsModel, Sound, LoraSound
<1>4. ASSUME Boot PROVE ConfigInv'
  <2>1. Sound(Loaded)
    BY <1>s, DefaultsSound DEF Loaded
  <2>2. Sound(cfg') /\ (cfg'.mode = "local" => onDevice)
    BY <1>4, <1>t, <2>1, ModelledSound DEF Boot
  <2> QED BY <1>4, <1>s, <1>t, <2>2 DEF Boot, ConfigInv, LocalNeedsModel, Sound, LoraSound
<1>5. ASSUME FactoryReset PROVE ConfigInv'
  BY <1>5, <1>s, <1>t, DefaultsSound DEF FactoryReset, ConfigInv, LocalNeedsModel, Sound, LoraSound
<1>6. ASSUME PowerCut PROVE ConfigInv'
  BY <1>6, <1>s, <1>t, DefaultsSound DEF PowerCut, ConfigInv, LocalNeedsModel, Sound, LoraSound
<1>7. ASSUME Reflash PROVE ConfigInv'
  BY <1>7, <1>s, <1>t DEF Reflash, ConfigInv, LocalNeedsModel, Sound, LoraSound
<1>8. ASSUME UNCHANGED configVars PROVE ConfigInv'
  BY <1>8, <1>s, <1>t DEF configVars, ConfigInv, LocalNeedsModel, Sound, LoraSound
<1> QED BY <1>1, <1>2, <1>3, <1>4, <1>5, <1>6, <1>7, <1>8 DEF ConfigNext

-----------------------------------------------------------------------------
(* The theorems.                                                           *)

\* The invariant holds in every reachable state.
THEOREM ConfigInvariant == ConfigSpec => []ConfigInv
BY ConfigInitSound, ConfigStepSound, PTL DEF ConfigSpec

\* Every field stays in the range that both writers promise to hold it to.
THEOREM ConfigTypeCorrect == ConfigSpec => []ConfigTyped
<1>1. ConfigInv => ConfigTyped
  BY DEF ConfigInv, ConfigTyped, Sound
<1> QED BY <1>1, ConfigInvariant, PTL

\* No sequence of patches, saves, cuts and boots puts two sensors on a pin or
\* one where it cannot work.
THEOREM SensorsSound == ConfigSpec => []SensorPinsSound
<1>1. ConfigInv => SensorPinsSound
  BY DEF ConfigInv, SensorPinsSound, Sound
<1> QED BY <1>1, ConfigInvariant, PTL

\* While LoRa is enabled its pins are a UART pair that no sensor shares.
THEOREM LoraModuleSound == ConfigSpec => []LoraPinsSound
<1>1. ConfigInv => LoraPinsSound
  BY DEF ConfigInv, LoraPinsSound, Sound, LoraSound
<1> QED BY <1>1, ConfigInvariant, PTL

\* A running station is never in the mode its build cannot serve.
THEOREM ModeSound == ConfigSpec => []LocalNeedsModel
<1>1. ConfigInv => LocalNeedsModel
  BY DEF ConfigInv
<1> QED BY <1>1, ConfigInvariant, PTL
=============================================================================
