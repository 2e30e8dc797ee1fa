------------------------------- MODULE Console -------------------------------
(***************************************************************************)
(* The app's two consoles, the AT terminal of the LoRa module              *)
(* (lora_wioe5.c) and the raw SDI-12 commands to a probe                   *)
(* (sensor_sdi12.c).  They are one design: a mailbox of one command that   *)
(* the BLE handler fills and the supervisor takes, and one result that the *)
(* supervisor writes in place, numbered, and the handler copies out at any *)
(* moment.  The app takes an answer for its own when the number has moved  *)
(* since it asked.                                                         *)
(***************************************************************************)
EXTENDS Integers

CONSTANTS
    Commands,   \* what the app may ask: a command and the pin of the probe
    None,
    Patient,    \* the app waits for each answer before it asks again or goes
    MaxSeq      \* bound on the commands executed

ConsoleAssumption ==
    /\ \A c \in Commands: c = [text |-> c.text, pin |-> c.pin]
    /\ None \notin Commands /\ None \notin {c.text: c \in Commands} \cup {c.pin: c \in Commands}
    /\ Patient \in BOOLEAN /\ MaxSeq \in Nat

VARIABLES
    pc,         \* the supervisor: where it is in taking and running a command
    pending,    \* g_sdi12_pending, g_at_pending
    box,        \* the command in the mailbox
    taken,      \* what the supervisor has copied of it
    seq,        \* the result: its number,
    cmd,        \*   the command it names,
    reply,      \*   and the command its lines answer, or None
    want,       \* client: the command it awaits the answer of, or None
    base,       \* client: the number it saw when it asked
    got         \* client: the last answer it accepted, with what it wanted

mailbox == <<pending, box>>
result == <<seq, cmd, reply>>
client == <<want, base, got>>
vars == <<pc, mailbox, taken, result, client>>

NoCommand == [text |-> None, pin |-> None]

-----------------------------------------------------------------------------
(* The supervisor.                                                         *)

\* ble_take_sdi12: the flag comes down first; the command and its pin are
\* copied after it, one and then the other.
Take ==
    /\ pc = "idle" /\ pending /\ pc' = "text"
    /\ pending' = FALSE
    /\ UNCHANGED <<box, taken, result, client>>

CopyText ==
    /\ pc = "text" /\ pc' = "pin"
    /\ taken' = [taken EXCEPT !.text = box.text]
    /\ UNCHANGED <<mailbox, result, client>>

CopyPin ==
    /\ pc = "pin" /\ pc' = "run"
    /\ taken' = [taken EXCEPT !.pin = box.pin]
    /\ UNCHANGED <<mailbox, result, client>>

\* The result names the command from here on; the exchange takes seconds.  The
\* terminal clears the old reply first, the probe's console leaves it there.
Run ==
    /\ pc = "run" /\ pc' = "exchange"
    /\ cmd' = taken.text
    /\ reply' \in {None, reply}
    /\ UNCHANGED <<mailbox, taken, seq, client>>

\* Mutant: the number is the first thing written.
ReplyNumberedFirst ==
    /\ pc = "exchange" /\ seq < MaxSeq /\ pc' = "publish"
    /\ seq' = seq + 1
    /\ UNCHANGED <<mailbox, taken, cmd, reply, client>>

\* The lines, or the words for no answer.
Reply ==
    /\ pc = "exchange" /\ seq < MaxSeq /\ pc' = "publish"
    /\ reply' = taken
    /\ UNCHANGED <<mailbox, taken, seq, cmd, client>>

\* Mutant: a reply is not numbered.
PublishSilently ==
    /\ pc = "publish" /\ pc' = "idle"
    /\ UNCHANGED <<mailbox, taken, result, client>>

Publish ==
    /\ pc = "publish" /\ pc' = "idle"
    /\ seq' = seq + 1
    /\ UNCHANGED <<mailbox, taken, cmd, reply, client>>

Supervisor == Take \/ CopyText \/ CopyPin \/ Run \/ Reply \/ Publish

-----------------------------------------------------------------------------
(* The BLE handler and the client it answers.                              *)

\* Mutant: the client takes the next number for the last.
AskAhead(c) ==
    /\ Patient => want = None
    /\ pending' = TRUE /\ box' = c
    /\ want' = c /\ base' = seq + 1
    /\ UNCHANGED <<pc, taken, result, got>>

\* The answer to the request that queues a command is the last result.
Ask(c) ==
    /\ Patient => want = None
    /\ pending' = TRUE /\ box' = c
    /\ want' = c /\ base' = seq
    /\ UNCHANGED <<pc, taken, result, got>>

\* A request without a command; the client's gate is the number.
Poll ==
    /\ want # None /\ seq # base
    /\ got' = [want |-> want, cmd |-> cmd, reply |-> reply, whole |-> pc # "exchange"]
    /\ want' = None
    /\ UNCHANGED <<pc, mailbox, taken, result, base>>

Disconnect ==
    /\ Patient => want = None
    /\ pending' = FALSE /\ want' = None
    /\ UNCHANGED <<pc, box, taken, result, base, got>>

Init ==
    /\ pc = "idle" /\ pending = FALSE /\ box = NoCommand /\ taken = NoCommand
    /\ seq = 0 /\ cmd = None /\ reply = None
    /\ want = None /\ base = 0
    /\ got = [want |-> None, cmd |-> None, reply |-> None, whole |-> TRUE]

Next == Supervisor \/ (\E c \in Commands: Ask(c)) \/ Poll \/ Disconnect

Spec == Init /\ [][Next]_vars

-----------------------------------------------------------------------------
(* Properties.                                                             *)

TypeOK ==
    /\ pc \in {"idle", "text", "pin", "run", "exchange", "publish"}
    /\ pending \in BOOLEAN /\ box \in Commands \cup {NoCommand}
    /\ seq \in 0..MaxSeq /\ base \in 0..seq
    /\ want \in Commands \cup {None}

\* lora_wioe5.c: the number comes last "so the app's seq-gate only accepts a
\* fully-written result": what the client takes for its answer names one
\* command and carries the reply to that command.  Violated when the client
\* asks again before it has the answer.
AcceptedIsWhole ==
    got.want # None => got.whole /\ got.reply # None /\ got.reply.text = got.cmd

\* A client that waits for its answers gets those of its own commands.
AcceptedIsOwn == got.want # None => got.reply = got.want

(* Why they hold for a client that is patient.                             *)

\* A command in the mailbox, or under way, is the one the client awaits, and
\* the number is still the one it saw when it asked.
OneAtATime ==
    /\ pending => pc = "idle"
    /\ pending \/ pc # "idle" => want # None /\ box = want /\ seq = base

\* The supervisor's copy is that command as far as it has got.
TakenSoFar ==
    /\ taken = [text |-> taken.text, pin |-> taken.pin]
    /\ pc \in {"pin", "run", "exchange", "publish"} => taken.text = want.text
    /\ pc \in {"run", "exchange", "publish"} => taken.pin = want.pin
    /\ pc \in {"exchange", "publish"} => cmd = taken.text
    /\ pc = "publish" => reply = taken /\ seq < MaxSeq

\* Once the number has moved the result is that command's, until it is read.
AnswerWaits == want # None /\ seq # base => reply = want /\ cmd = want.text

IInv == TypeOK /\ OneAtATime /\ TakenSoFar /\ AnswerWaits /\ AcceptedIsWhole /\ AcceptedIsOwn

\* Violated.  ble.h: "take the queued raw probe command + its data GPIO": what
\* is run is what was asked, never one request's command on another's pin.
RunsWhatWasAsked == pc = "run" => taken \in Commands
=============================================================================
