----------------------------- MODULE SensorBench -----------------------------
(***************************************************************************)
(* The supervisor's one thread between the measurements it owes            *)
(* (src/src/main.c, capture_slots) and the commands of the app's consoles  *)
(* (the end of the loop): Sdi12 and Console share it and the wire, and     *)
(* neither begins before the other is through.  The app's side of the      *)
(* console goes on all the while.                                          *)
(***************************************************************************)
EXTENDS Integers

CONSTANTS Address, Probes, MaxValues, MayBeSilent, AnyBit, MaxBad,  \* of Sdi12
          Commands, NoText, Waits, MaxSeq                           \* of Console

VARIABLES
  turn,    \* what the loop has come to: "capture" or "requests"
  probe, step, d, attempt, bad, silent, nvals, vals,
  at, pending, box, copied, seq, cmd, reply, want, base, got

Probe == INSTANCE Sdi12
App == INSTANCE Console WITH pc <- at, taken <- copied, None <- NoText, Patient <- Waits

ASSUME BenchAssumption == Probe!Sdi12Constants /\ App!ConsoleAssumption

probeVars == <<probe, step, d, attempt, bad, silent, nvals, vals>>
appVars == <<at, pending, box, copied, seq, cmd, reply, want, base, got>>
benchVars == <<turn, probeVars, appVars>>

BenchInit == Probe!Init /\ App!Init /\ turn = "capture"

\* capture_slots: a slot is due and is measured to the end, or none is.
BeginCapture == turn = "capture" /\ Probe!Measure /\ UNCHANGED <<turn, appVars>>

Capturing ==
  /\ turn = "capture" /\ Probe!Exchange
  /\ turn' = IF step' = "idle" THEN "requests" ELSE turn
  /\ UNCHANGED appVars

NothingDue ==
  /\ turn = "capture" /\ step = "idle" /\ turn' = "requests"
  /\ UNCHANGED <<probeVars, appVars>>

\* The mailbox is looked at once an iteration, and a command in it is run.
ServeRequest ==
  /\ turn = "requests" /\ App!Supervisor
  /\ turn' = IF at' = "idle" THEN "capture" ELSE turn
  /\ UNCHANGED probeVars

NoRequest ==
  /\ turn = "requests" /\ at = "idle" /\ ~pending /\ turn' = "capture"
  /\ UNCHANGED <<probeVars, appVars>>

ClientPolls == App!Poll /\ UNCHANGED <<turn, probeVars>>

Handler ==
  \/ ((\E c \in Commands : App!Ask(c)) \/ App!Disconnect) /\ UNCHANGED <<turn, probeVars>>
  \/ ClientPolls

Loop == BeginCapture \/ Capturing \/ NothingDue \/ ServeRequest \/ NoRequest

BenchNext == Loop \/ Handler

\* The loop goes on, as every exchange has a time limit (a step of it is always
\* enabled, up to the bound on the commands), and a client that waits polls.
LoopSteps == <<turn, step, d, attempt, at>>' # <<turn, step, d, attempt, at>>

BenchSpec ==
  /\ BenchInit /\ [][BenchNext]_benchVars
  /\ []<>(seq = MaxSeq) \/ []<><<LoopSteps>>_benchVars
  /\ WF_benchVars(ClientPolls)

-----------------------------------------------------------------------------
\* Sdi12's and Console's properties, with each with the other in between.
ValuesAreTheProbes == Probe!ValuesAreTheProbes
AcceptedIsWhole == App!AcceptedIsWhole
AcceptedIsOwn == App!AcceptedIsOwn

\* A command asked for is answered, however many measurements are due before
\* it and however they fail (src/src/main.c:488), the bound on their number
\* apart.
CommandIsAnswered == want # NoText ~> (want = NoText \/ seq = MaxSeq)
=============================================================================
