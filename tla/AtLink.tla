------------------------------- MODULE AtLink -------------------------------
(***************************************************************************)
(* The station's side of the serial line to the Wio-E5 module              *)
(* (src/src/drivers/lora_wioe5.c): a command is sent, then lines are read  *)
(* until one holds a word the command waits for, or until its time is up.  *)
(* What lies unread on the line is not thrown away before the next         *)
(* command.  A join and an uplink are answered in two bursts, some lines   *)
(* at once and the verdict with its tail seconds later; the time limits of *)
(* these two outlast the second burst, those of the others need not.       *)
(*                                                                         *)
(* The module itself is external: it answers as the words the code waits   *)
(* for say it may.  A line is one of a few kinds; "info" is one that holds *)
(* no such word.  The pins are assigned.  Bound: Attempts (calls of the    *)
(* driver after boot).                                                     *)
(***************************************************************************)
EXTENDS Naturals, SequencesExt

CONSTANT Attempts

VARIABLES
  goal,     \* the call under way: "init", "cycle", "ping", "at", or "none"
  todo,     \* the commands it has still to run, the first one next
  sent,     \* the first of them was sent and its reply is being read
  verdict,  \* lora_at has read a verdict and reads on
  ready, joined,   \* s_ready, s_joined
  wire,     \* lines that have arrived and are not read
  late,     \* the second burst of an answer, still to come
  granted,  \* history: the network has let the module in
  attempts  \* bound

vars == <<goal, todo, sent, verdict, ready, joined, wire, late, granted, attempts>>

Slow == {"join", "msg", "rawJoin", "rawMsg"}
Raw == {"rawFast", "rawJoin", "rawMsg"}

\* lora_open: a throw-away AT, then lora_configure; do_uplink's two commands.
OpenScript == <<"warm", "at", "ver", "mode", "deveui", "appeui", "appkey", "dr">>
UplinkScript == <<"port", "msg">>

Lines == {"ok", "error", "info", "joined", "already", "joinFailed", "joinDone",
          "done", "notJoined"}

\* The words that end the reading of a reply well, and badly.  "+JOIN: Done"
\* holds the "Done" an uplink waits for.
Until(c) ==
  CASE c = "join" -> {"joined", "already", "joinDone"}
    [] c = "msg"  -> {"done", "joinDone"}
    [] c \in Raw  -> {"ok", "error", "done", "joinDone", "notJoined"}
                       \cup (IF c \in Slow THEN {} ELSE {"joined", "joinFailed"})
    [] OTHER      -> {"ok"}

Fail(c) ==
  CASE c = "join" -> {"joinFailed"}
    [] c = "msg"  -> {"error", "notJoined"}
    [] c \in Raw  -> {}
    [] OTHER      -> {"error"}

(* The module.  An answer is what it says at once and what it says later.    *)
At(once) == [now |-> once, later |-> <<>>]
Silence == At(<<>>)

Joining == {[now |-> <<"info">>, later |-> <<"joined", "info", "joinDone">>],
            [now |-> <<"info">>, later |-> <<"joinFailed", "joinDone">>]}
Sending == {[now |-> <<"info">>, later |-> <<"done">>],
            [now |-> <<"info">>, later |-> <<"info", "done">>]}

Answers(c) ==
  {Silence} \cup
  CASE late # <<>> -> {At(<<"info">>)}  \* busy with the command before
    [] c \in {"join", "rawJoin"} -> IF granted THEN Joining \cup {At(<<"already">>)} ELSE Joining
    [] c \in {"msg", "rawMsg"} ->
         {At(<<"error">>), At(<<"notJoined">>)} \cup (IF granted THEN Sending ELSE {})
    [] OTHER -> {At(<<"ok">>), At(<<"info">>), At(<<"info", "ok">>), At(<<"error">>)}

\* The second burst arrives.  Nobody reads between two calls, and what the
\* receive FIFO has no room for then is lost.
Speak ==
  /\ late # <<>>
  /\ granted' = (granted \/ Contains(late, "joined"))
  /\ \E n \in 0..Len(late) :
       /\ goal # "none" => n = Len(late)
       /\ wire' = wire \o SubSeq(late, 1, n)
  /\ late' = <<>>
  /\ UNCHANGED <<goal, todo, sent, verdict, ready, joined, attempts>>

-----------------------------------------------------------------------------
Init ==
  /\ \/ goal = "init" /\ todo = OpenScript   \* lora_init
     \/ goal = "none" /\ todo = <<>>         \* LoRa is off at boot
  /\ sent = FALSE /\ verdict = FALSE /\ ready = FALSE /\ joined = FALSE
  /\ wire = <<>> /\ late = <<>>
  /\ granted = FALSE /\ attempts = 0

\* What a call starts with once the module is open.
Opened(g, in) ==
  CASE g = "at" -> {<<c>> : c \in Raw}
    [] g = "init" -> {<<"join">>}
    [] OTHER -> {IF in THEN UplinkScript ELSE <<"join">>}

\* lora_cycle, lora_ping and lora_at: the module is opened again when it was
\* silent or its pins have moved, and uart_init empties the line.
Begin(g, moved) ==
  /\ goal = "none" /\ attempts < Attempts
  /\ attempts' = attempts + 1 /\ goal' = g
  /\ IF ~ready \/ moved
       THEN todo' = OpenScript /\ wire' = <<>>
       ELSE todo' \in Opened(g, joined) /\ wire' = wire
  /\ late' = IF moved THEN <<>> ELSE late
  /\ UNCHANGED <<sent, verdict, ready, joined, granted>>

\* The start of at_exec, at_query and lora_at: the command goes out.
Send ==
  /\ todo # <<>> /\ ~sent
  /\ \E a \in Answers(Head(todo)) :
       /\ wire' = wire \o a.now
       /\ late' = IF late = <<>> THEN a.later ELSE late
  /\ sent' = TRUE
  /\ UNCHANGED <<goal, todo, verdict, ready, joined, granted, attempts>>

Return == goal' = "none" /\ todo' = <<>>
GoOn == goal' = goal /\ todo' = Tail(todo)

\* What the caller does with a reply: "ok", "fail" or "timeout".
Use(c, how) ==
  \/ /\ c = "at" /\ how = "timeout"          \* lora_configure gives up
     /\ ready' = FALSE /\ joined' = (goal # "init" /\ joined)
     /\ Return
  \/ /\ c \in Range(OpenScript) \ {"dr"}
     /\ ~(c = "at" /\ how = "timeout")
     /\ GoOn /\ UNCHANGED <<ready, joined>>
  \/ /\ c = "dr"
     /\ ready' = TRUE
     /\ joined' = (goal = "at" /\ joined)    \* a new UART session: join again
     /\ goal' = goal /\ todo' \in Opened(goal, FALSE)
  \/ /\ c = "join"
     /\ joined' = (how = "ok") /\ ready' = ready
     /\ IF joined' /\ goal # "init"
          THEN todo' = UplinkScript /\ goal' = goal
          ELSE Return
  \/ c = "port" /\ GoOn /\ UNCHANGED <<ready, joined>>
  \/ /\ c = "msg"
     /\ joined' = (how # "fail") /\ ready' = ready
     /\ Return
  \/ c \in Raw /\ Return /\ UNCHANGED <<ready, joined>>

Settle(how) ==
  /\ Use(Head(todo), how)
  /\ sent' = FALSE /\ verdict' = FALSE
  /\ UNCHANGED <<late, granted, attempts>>

\* read_line: one line is taken from the line.
ReadLine ==
  /\ sent /\ wire # <<>>
  /\ wire' = Tail(wire)
  /\ LET c == Head(todo)
         line == Head(wire)
     IN \/ line \in Fail(c) /\ Settle("fail")
        \/ line \in Until(c) /\ Settle("ok")
        \/ /\ line \notin Fail(c) \cup Until(c)
           /\ verdict' = (verdict \/ (c \in Raw /\ line \in {"joined", "joinFailed"}))
           /\ UNCHANGED <<goal, todo, sent, ready, joined, late, granted, attempts>>

\* The time of the command is up; lora_at waits short after a verdict.
TimeUp ==
  /\ sent /\ wire = <<>>
  /\ Head(todo) \in Slow /\ ~verdict => late = <<>>
  /\ Settle("timeout") /\ wire' = wire

Call == \E g \in {"cycle", "ping", "at"}, moved \in BOOLEAN : Begin(g, moved)

Next == Call \/ Send \/ ReadLine \/ TimeUp \/ Speak

Spec == Init /\ [][Next]_vars

-----------------------------------------------------------------------------
TypeOK ==
  /\ goal \in {"init", "cycle", "ping", "at", "none"}
  /\ todo \in Seq(Range(OpenScript) \cup {"join", "port", "msg"} \cup Raw)
  /\ {sent, verdict, ready, joined, granted} \subseteq BOOLEAN
  /\ wire \in Seq(Lines) /\ late \in Seq(Lines)
  /\ attempts \in 0..Attempts
  /\ goal = "none" <=> todo = <<>>

(* Violated.  lora.h:13, "`joined` already proves a gateway relayed the       *)
(* OTAA handshake both ways": the driver believes in a session only if the    *)
(* network has let the module in.  A refused join is left at its verdict; the *)
(* "+JOIN: Done" behind it is read as the success of the next one.            *)
JoinedIsProof == joined => granted

=============================================================================
