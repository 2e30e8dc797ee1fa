----------------------------- MODULE ReadingLog -----------------------------
(***************************************************************************)
(* What the station's ring of readings promises (src/include/savia/        *)
(* storage.h): the last Cap readings in the order they were taken, of      *)
(* which a deleted sensor's can be dropped, and which a reset brings back. *)
(***************************************************************************)
EXTENDS Integers, FiniteSets, Sequences

CONSTANTS Cap, Readings
VARIABLE log

Init == log = <<>>

\* Readings come in one after the other, in one step here: what is there is the
\* end of what was and the readings that came in, and it is full if any went.
Extend ==
  /\ log' \in Seq(Readings) /\ Len(log') <= Cap
  /\ \E kept \in 0..Len(log) :
       /\ kept < Len(log')
       /\ kept < Len(log) => Len(log') = Cap
       /\ \A i \in 1..kept : log'[i] = log[Len(log) - kept + i]

\* The readings of the other ports stay, in their order.
DropPort ==
  \E p \in {log[i].port : i \in DOMAIN log} :
    LET others == {i \in DOMAIN log : log[i].port # p}
    IN /\ log' \in Seq(Readings) /\ Len(log') = Cardinality(others)
       /\ \A i \in others : log'[Cardinality(others \cap 1..i)] = log[i]

Wipe == log' = <<>>

Next == Extend \/ DropPort \/ Wipe

Spec == Init /\ [][Next]_log
=============================================================================
