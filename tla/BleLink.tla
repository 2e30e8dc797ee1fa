------------------------------- MODULE BleLink -------------------------------
(***************************************************************************)
(* The connection with the app (ble_gatt.c): the lock that only a proof of *)
(* the password opens, the responses sent in chunks as the radio has room, *)
(* the acknowledgement of configuration writes that shares the radio with  *)
(* them, and the weather sent as a long write.                             *)
(*                                                                         *)
(* BTstack is external: it delivers writes, one CAN_SEND_NOW event per     *)
(* request while the connection lasts, and the cancellation of a prepared  *)
(* write when it ends.  The handlers do not interrupt each other.          *)
(***************************************************************************)
EXTENDS Integers, SequencesExt

CONSTANTS
    Keys, NoKey,        \* passwords' keys, and none set
    Totals,             \* frames a response may take: 1 at the least
    Weathers,           \* weather updates, of two chunks each
    MaxConnections,     \* bounds
    MaxRequests,
    MaxWrites

ASSUME LinkAssumption ==
    /\ NoKey \notin Keys \cup Weathers
    /\ Totals \subseteq Nat \ {0}
    /\ MaxConnections \in Nat /\ MaxRequests \in Nat /\ MaxWrites \in Nat

VARIABLES
    con,        \* number of the connection, which stands for its nonce; 0: none
    count,      \* connections so far
    key,        \* auth_key
    authed,     \* g_authed
    notify,     \* g_config_notify_on
    ack,        \* g_cfg_ack_pending
    result,     \* g_cfg_ack: the result of the write with this number
    writes,     \* configuration writes so far
    id,         \* the response staged, by the number of its request
    total,      \* g_resp_total
    seq,        \* g_resp_seq
    canSend,    \* a CAN_SEND_NOW event is asked for
    prep,       \* weather_prep
    buf, len,   \* weather_buf: the update each chunk came from; weather_len
    weather,    \* what the last commit took its chunks from
    sending,    \* client: the update it is writing in chunks, or NoKey
    rx,         \* client: the frames of the response it is receiving
    proved,     \* history: the current key was proved, or set, on this connection
    owed        \* history: writes of a subscriber whose result it has not been sent

auth == <<key, authed, proved>>
response == <<id, total, seq>>
long == <<prep, buf, len, weather, sending>>
vars == <<con, count, auth, notify, ack, result, writes, response, canSend, long, rx, owed>>

Locked == key # NoKey /\ ~authed

-----------------------------------------------------------------------------
(* The connection.                                                         *)

\* Mutant: the last client's proof still counts.
ConnectAsBefore ==
    /\ con = 0 /\ count < MaxConnections
    /\ con' = count + 1 /\ count' = count + 1
    /\ proved' = FALSE /\ rx' = <<>>
    /\ UNCHANGED <<key, authed, notify, ack, result, writes, response, canSend, long, owed>>

Connect ==
    /\ con = 0 /\ count < MaxConnections
    /\ con' = count + 1 /\ count' = count + 1
    /\ authed' = FALSE
    /\ proved' = FALSE /\ rx' = <<>>
    /\ UNCHANGED <<key, notify, ack, result, writes, response, canSend, long, owed>>

\* A write of another handle: while the station is locked only the auth
\* characteristic takes writes, the cancellation of a long write included.
CancelLong ==
    /\ IF Locked THEN UNCHANGED <<len, prep>> ELSE len' = 0 /\ prep' = FALSE
    /\ sending' = NoKey
    /\ UNCHANGED <<buf, weather>>

Disconnect ==
    /\ con # 0 /\ con' = 0
    /\ notify' = FALSE /\ ack' = FALSE /\ canSend' = FALSE
    /\ seq' = 0 /\ total' = 0
    /\ owed' = {}
    /\ CancelLong
    /\ UNCHANGED <<count, auth, result, writes, id, rx>>

-----------------------------------------------------------------------------
(* The lock.                                                               *)

SetPassword(k) ==
    /\ con # 0 /\ key = NoKey
    /\ key' = k /\ authed' = TRUE /\ proved' = TRUE
    /\ UNCHANGED <<con, count, notify, ack, result, writes, response, canSend, long, rx, owed>>

\* A proof is a hash of a key and of a nonce, the present one or an old one.
Proves(k, nonce) == k = key /\ nonce = con

Authenticate(k, nonce) ==
    /\ con # 0 /\ key # NoKey
    /\ authed' = Proves(k, nonce)
    /\ proved' = (proved \/ Proves(k, nonce))
    /\ UNCHANGED <<con, count, key, notify, ack, result, writes, response, canSend, long, rx, owed>>

ChangePassword(k, nonce, new) ==
    /\ con # 0 /\ key # NoKey
    /\ authed' = Proves(k, nonce)
    /\ IF Proves(k, nonce) THEN key' = new /\ proved' = TRUE ELSE UNCHANGED <<key, proved>>
    /\ UNCHANGED <<con, count, notify, ack, result, writes, response, canSend, long, rx, owed>>

\* A key of zeros is no key.
Auth ==
    /\ sending = NoKey
    /\ \E new \in Keys \cup {NoKey}:
        \/ SetPassword(new)
        \/ \E k \in Keys, n \in {con, con - 1}: Authenticate(k, n) \/ ChangePassword(k, n, new)

-----------------------------------------------------------------------------
(* Responses and acknowledgements.                                         *)

\* Mutant: the new response goes on from the chunk the old one was at.
DataRequestOnTop(t) ==
    /\ con # 0 /\ ~Locked /\ id < MaxRequests
    /\ id' = id + 1 /\ total' = t
    /\ canSend' = TRUE
    /\ UNCHANGED <<con, count, auth, notify, ack, result, writes, seq, long, rx, owed>>

\* A request stages its response in the place of the one being sent.
DataRequest(t) ==
    /\ con # 0 /\ ~Locked /\ id < MaxRequests
    /\ id' = id + 1 /\ total' = t /\ seq' = 0
    /\ canSend' = TRUE
    /\ UNCHANGED <<con, count, auth, notify, ack, result, writes, long, rx, owed>>

Subscribe(b) ==
    /\ con # 0 /\ ~Locked
    /\ notify' = b
    /\ UNCHANGED <<con, count, auth, ack, result, writes, response, canSend, long, rx, owed>>

\* Mutant: a write refused by the lock is dropped in silence.
ConfigWriteUnlocked ==
    /\ con # 0 /\ writes < MaxWrites
    /\ writes' = writes + 1
    /\ result' = IF Locked THEN result ELSE writes'
    /\ ack' = (ack \/ (notify /\ ~Locked)) /\ canSend' = (canSend \/ (notify /\ ~Locked))
    /\ owed' = owed \cup {w \in {writes'} : notify}
    /\ UNCHANGED <<con, count, auth, notify, response, long, rx>>

\* Applied, refused or locked out, a write leaves its result in the one slot,
\* over that of an earlier write, and a subscriber is to be sent what it holds.
ConfigWrite ==
    /\ con # 0 /\ writes < MaxWrites
    /\ writes' = writes + 1 /\ result' = writes'
    /\ ack' = (ack \/ notify) /\ canSend' = (canSend \/ notify)
    /\ owed' = owed \cup {w \in {writes'} : notify}
    /\ UNCHANGED <<con, count, auth, notify, response, long, rx>>

\* Mutant: the chunks that wait behind the acknowledgement are forgotten.
SendAckOnly ==
    /\ con # 0 /\ canSend /\ ack
    /\ ack' = FALSE /\ owed' = owed \ {result}
    /\ canSend' = FALSE
    /\ UNCHANGED <<con, count, auth, notify, result, writes, response, long, rx>>

\* CAN_SEND_NOW: the acknowledgement goes first.
SendAck ==
    /\ con # 0 /\ canSend /\ ack
    /\ ack' = FALSE /\ owed' = owed \ {result}
    /\ canSend' = (seq < total)
    /\ UNCHANGED <<con, count, auth, notify, result, writes, response, long, rx>>

\* send_next_chunk; the client starts over at a frame numbered 0.
SendChunk ==
    /\ con # 0 /\ canSend /\ ~ack
    /\ IF seq < total
       THEN /\ seq' = seq + 1
            /\ canSend' = (seq + 1 < total)
            /\ rx' = (IF seq = 0 THEN <<>> ELSE rx) \o <<[id |-> id, s |-> seq, t |-> total]>>
       ELSE canSend' = FALSE /\ UNCHANGED <<seq, rx>>
    /\ UNCHANGED <<con, count, auth, notify, ack, result, writes, id, total, long, owed>>

-----------------------------------------------------------------------------
(* Weather.                                                                *)

\* Mutant: the whole buffer is parsed, whatever was written of it.
CommitBuffer(from) == weather' = {buf[0], buf[1]}

\* ble_parse_weather takes what has the length of an update.
Commit(from) == weather' = IF from = 2 THEN {buf[0], buf[1]} ELSE weather

Store(w, k) ==
    /\ prep' = (prep \/ k = 0)
    /\ buf' = [buf EXCEPT ![k] = w]
    /\ len' = IF k = 0 \/ k + 1 > len THEN k + 1 ELSE len

\* A client sends the chunks of one update in order and nothing in between;
\* the write may end after any of them.
Chunk(w, k) ==
    /\ con # 0 /\ sending = (IF k = 0 THEN NoKey ELSE w)
    /\ sending' = w
    /\ IF Locked THEN UNCHANGED <<prep, buf, len>> ELSE Store(w, k)
    /\ UNCHANGED <<con, count, auth, notify, ack, result, writes, response, canSend, weather, rx, owed>>

Execute ==
    /\ con # 0 /\ sending' = NoKey
    /\ IF Locked THEN UNCHANGED <<prep, len, weather>>
       ELSE /\ IF prep THEN Commit(len) ELSE UNCHANGED weather
            /\ len' = 0 /\ prep' = FALSE
    /\ UNCHANGED <<con, count, auth, notify, ack, result, writes, response, canSend, buf, rx, owed>>

Cancel ==
    /\ con # 0 /\ CancelLong
    /\ UNCHANGED <<con, count, auth, notify, ack, result, writes, response, canSend, rx, owed>>

\* An update that fits one write leaves the buffer alone.
WeatherWrite(w) ==
    /\ con # 0 /\ ~Locked /\ sending = NoKey
    /\ weather' = {w}
    /\ UNCHANGED <<con, count, auth, notify, ack, result, writes, response, canSend, prep, buf, len, sending,
                   rx, owed>>

-----------------------------------------------------------------------------
Init ==
    /\ con = 0 /\ count = 0
    /\ key \in Keys \cup {NoKey} /\ authed = FALSE /\ proved = FALSE
    /\ notify = FALSE /\ ack = FALSE /\ result = 0 /\ owed = {} /\ writes = 0
    /\ id = 0 /\ total = 0 /\ seq = 0 /\ canSend = FALSE /\ rx = <<>>
    /\ prep = FALSE /\ buf = [k \in {0, 1} |-> NoKey] /\ len = 0 /\ weather = {}
    /\ sending = NoKey

Next ==
    \/ Connect \/ Disconnect \/ Auth
    \/ \E t \in Totals: DataRequest(t)
    \/ (\E b \in BOOLEAN: Subscribe(b)) \/ ConfigWrite
    \/ SendAck \/ SendChunk
    \/ \E w \in Weathers: WeatherWrite(w) \/ \E k \in {0, 1}: Chunk(w, k)
    \/ Execute \/ Cancel

Spec == Init /\ [][Next]_vars

\* While the connection lasts the radio gets room again.  The writes of the
\* configuration are bounded: their acknowledgements go first, and a client
\* that never paused would have none of its response.
FairSpec == Spec /\ WF_vars(SendAck \/ SendChunk)

-----------------------------------------------------------------------------
(* Properties.                                                             *)

\* Nothing is staged, pending or asked for without a connection.
TypeOK ==
    /\ con \in {0, count} /\ count \in 0..MaxConnections
    /\ key \in Keys \cup {NoKey}
    /\ authed \in BOOLEAN /\ proved \in BOOLEAN /\ notify \in BOOLEAN /\ ack \in BOOLEAN
    /\ canSend \in BOOLEAN /\ prep \in BOOLEAN /\ owed \subseteq 1..MaxWrites
    /\ result \in 0..MaxWrites
    /\ writes \in 0..MaxWrites /\ id \in 0..MaxRequests /\ total \in Totals \cup {0} /\ seq \in 0..total
    /\ buf \in [{0, 1} -> Weathers \cup {NoKey}] /\ len \in 0..2
    /\ sending \in Weathers \cup {NoKey}
    /\ con = 0 => ~notify /\ ~ack /\ ~canSend /\ total = 0

\* ble_gatt.c: "authed cleared on connect": a station that has a password takes
\* writes only from a client that proved it knows it, on this very connection.
AuthedMeansProof == con # 0 /\ key # NoKey /\ authed => proved

\* The frames that a client puts together are those of one response, all of
\* them from the first, however its requests and writes overtook them.
ResponseIsWhole ==
    \A i \in DOMAIN rx: rx[i] = [id |-> rx[1].id, s |-> i - 1, t |-> rx[1].t]

\* docs/BLE_Weather_Fixes.md: the handler commits "the fully assembled payload":
\* no update is put together from the chunks of two.
WeatherIsOneUpdate == \A v, w \in weather: v = w

\* What the invariants above rest on.  While a response is under way the frames
\* received are the first seq of it.
ResponseUnderWay ==
    /\ seq > 0 => rx # <<>> /\ rx[1].id = id /\ rx[1].t = total /\ Len(rx) = seq

\* While a long write is under way and let through, the buffer holds what was
\* sent of it; otherwise it is empty, and the lock does not move under a write.
LongWriteUnderWay ==
    /\ con = 0 => sending = NoKey
    /\ sending = NoKey \/ Locked => ~prep /\ len = 0
    /\ sending # NoKey /\ ~Locked =>
         prep /\ len > 0 /\ buf[0] = sending /\ (len = 2 => buf[1] = sending)

Frames == [id: 0..MaxRequests, s: Nat, t: Totals]

\* The inductive invariant of BleConfig_proofs.
IInv ==
    /\ TypeOK
    /\ rx \in Seq(Frames)
    /\ AuthedMeansProof
    /\ ResponseIsWhole /\ ResponseUnderWay
    /\ WeatherIsOneUpdate /\ LongWriteUnderWay

\* A response is sent to its last frame, unless the client goes or asks for
\* another; an acknowledgement that goes first does not strand it.
ResponseFinishes ==
    \A r \in 1..MaxRequests: con # 0 /\ id = r ~> (con = 0 \/ id # r \/ seq = total)

\* A subscriber is in the end sent the result of its last write, be it applied or
\* refused by the lock, and whatever responses are under way; a write that
\* overtakes the result takes its place.
LastWriteIsAnswered ==
    \A w \in 1..MaxWrites: (w \in owed /\ writes = w) ~> (w \notin owed \/ writes # w)

\* Violated.  ble_gatt.c: "EVERY path that swallows a config write must call this: an
\* unanswered write leaves the app unable to tell "applied" from "refused"": the
\* slot is one, and the result of a write that is followed at once by another is lost.
EveryWriteIsAnswered ==
    \A w \in 1..MaxWrites: w \in owed ~> w \notin owed
=============================================================================
