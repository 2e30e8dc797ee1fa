-------------------------------- MODULE Sdi12 --------------------------------
(***************************************************************************)
(* One measurement of an SDI-12 probe (src/src/drivers/sensor_sdi12.c with *)
(* src/src/codec/sdi12_parse.c): M!, whose reply says how many values to   *)
(* expect, then D0!, D1!, ... until they are there.  A reply comes in as   *)
(* the bits of a line, is decoded character by character, a character that *)
(* fails its parity or its stop bit as "?", and a reply with a "?" is      *)
(* asked for once more.  Noise flips one bit of a reply.  Characters are   *)
(* their ASCII codes; a number is the characters it is written with.  The  *)
(* line is sampled eight times a bit, at the middle of each bit: one bit   *)
(* is one element here, TRUE when the line is high.                        *)
(***************************************************************************)
EXTENDS Integers, FiniteSets, FiniteSetsExt, SequencesExt

CONSTANTS
  Address,     \* the character of the probe
  Probes,      \* what a probe can answer: for each D command, its values
  MaxValues,   \* room for values
  MayBeSilent, \* TRUE: the probe may leave a command unanswered
  AnyBit,      \* TRUE: noise strikes anywhere, not only where a check looks
  MaxBad       \* attempts of one command that noise may strike

Sdi12Constants ==
  /\ Address \in 33..126 /\ MaxValues \in Nat \ {0} /\ MaxBad \in Nat
  /\ MayBeSilent \in BOOLEAN /\ AnyBit \in BOOLEAN
  /\ \A p \in Probes : Len(p) \in 1..10 /\ Len(FlattenSeq(p)) \in 0..9

VARIABLES
  probe,   \* the probe of the slot that is measured
  step,    \* "idle", or the command under way, "M" or "D"
  d,       \* the number of the D command
  attempt, \* of sdi12_transact_clean
  bad,     \* (ghost) attempts of the command struck so far
  silent,  \* (ghost) a command was left unanswered
  nvals,   \* values announced
  vals     \* values parsed so far, or by the last measurement

vars == <<probe, step, d, attempt, bad, silent, nvals, vals>>

-----------------------------------------------------------------------------
Digits == 48..57
Plus == 43
Minus == 45
Point == 46
Query == 63
CR == 13
LF == 10


Numbers == FlattenSeq(probe)

(* The line.  A character is a high start bit, seven data bits low for a one, *)
(* the parity that makes the ones even and a low stop bit.                    *)
Ones(c) == {k \in 0..6 : (c \div 2^k) % 2 = 1}
Odd(n) == n % 2 = 1
Frame(c) == <<TRUE>> \o [k \in 1..7 |-> (k - 1) \notin Ones(c)]
                     \o <<~Odd(Cardinality(Ones(c))), FALSE>>
Idle == [k \in 1..12 |-> FALSE]
Line(chars) == Idle \o FlattenSeq([i \in DOMAIN chars |-> Frame(chars[i])]) \o Idle

Flip(line, k) == [line EXCEPT ![k] = ~@]

\* Where a single flip can strike: every bit, or those of a character that
\* are summed or checked.
Exposed(line) ==
  {k \in DOMAIN line : AnyBit \/ (k - 12 \in 1..(Len(line) - 24) /\ (k - 13) % 10 # 0)}

\* Mutant: neither parity nor stop bit is looked at.
SeenUnchecked(line, s) ==
  LET ones == {k \in 0..6 : ~line[s + 1 + k]}
  IN MapThenSumSet(LAMBDA k : 2^k, ones)

\* The character whose start bit is at s.
Seen(line, s) ==
  LET ones == {k \in 0..6 : ~line[s + 1 + k]}
      even == Odd(Cardinality(ones)) <=> ~line[s + 8]
  IN IF even /\ ~line[s + 9] THEN MapThenSumSet(LAMBDA k : 2^k, ones) ELSE Query

\* sdi_decode: skip high, skip low, and there is the next start; the scan goes
\* on in the stop bit, and a character the window cuts is dropped.
Decode(line) ==
  LET First(i, high) == Min({j \in i..Len(line) : line[j] = high} \cup {Len(line) + 1})
      from[i \in 1..(Len(line) + 1)] ==
        LET s == First(First(i, FALSE), TRUE)
            c == Seen(line, s)
        IN IF s + 9 > Len(line) THEN <<>>
           ELSE (IF c \in {CR, LF} THEN <<>> ELSE <<c>>) \o from[s + 9]
  IN from[1]

(* The parser, a character at a time: the numbers so far and the one that is *)
(* being read, empty when none is.                                           *)
Whole(t) == \E i \in DOMAIN t : t[i] \in Digits
Closed(p) == IF Whole(p.open) THEN Append(p.nums, p.open) ELSE p.nums

Read(p, c) ==
  IF c \in {Plus, Minus} THEN [nums |-> Closed(p), open |-> <<c>>]
  ELSE IF p.open # <<>> /\ (c \in Digits \/ (c = Point /\ ~Contains(p.open, Point)))
  THEN [p EXCEPT !.open = Append(@, c)]
  ELSE [nums |-> Closed(p), open |-> <<>>]

\* sdi12_parse_values, after the address: got grows to room at most.
ParseValues(reply, got, room) ==
  LET p == FoldLeft(Read, [nums |-> got, open |-> <<>>], Tail(reply))
      all == Closed(p)
  IN SubSeq(all, 1, IF Len(all) < room THEN Len(all) ELSE room)

\* sdi12_parse_measure_hdr: address, three digits of seconds, one of values.
GoodHeader(reply) == Len(reply) >= 5 /\ \A i \in 2..5 : reply[i] \in Digits
Announced(reply) == LET n == reply[5] - 48 IN IF n < MaxValues THEN n ELSE MaxValues

-----------------------------------------------------------------------------
\* What probe p says to its command c: M! is command -1.
Says(p, c) ==
  IF c = -1 THEN <<Address, 48, 48, 49, 48 + Len(FlattenSeq(p)), CR, LF>>
  ELSE <<Address>> \o (IF c + 1 \in DOMAIN p THEN FlattenSeq(p[c + 1]) ELSE <<>>) \o <<CR, LF>>

\* sdi12_transact: what comes in of it, as it is and struck.
Clean  == [p \in Probes, c \in -1..9 |-> Decode(Line(Says(p, c)))]
Struck == [p \in Probes, c \in -1..9 |->
             LET line == Line(Says(p, c)) IN {Decode(Flip(line, k)) : k \in Exposed(line)}]

Heard ==
  LET c == IF step = "M" THEN -1 ELSE d
      got(reply, struck) == [reply |-> reply, struck |-> struck]
  IN {got(Clean[probe, c], 0)}
     \cup (IF bad < MaxBad THEN {got(reply, 1) : reply \in Struck[probe, c]} ELSE {})
     \cup (IF MayBeSilent THEN {got(<<>>, 0)} ELSE {})

Corrupt(reply) == Contains(reply, Query)

\* The command is done and the next one, or the end, is up.
Command(cmd, k) == step' = cmd /\ d' = k /\ attempt' = 1 /\ bad' = 0
End == step' = "idle" /\ d' = 0 /\ attempt' = 1 /\ bad' = 0

\* Mutant: a reply is taken as it comes.
RetryNever(reply) == FALSE

\* sdi12_transact_clean asks again once.
RetryDue(reply) == Corrupt(reply) /\ attempt = 1

Init ==
  /\ probe \in Probes
  /\ step = "idle" /\ d = 0 /\ attempt = 1 /\ bad = 0 /\ silent = FALSE
  /\ nvals = 0 /\ vals = <<>>

Measure ==
  /\ step = "idle" /\ Command("M", 0) /\ probe' \in Probes
  /\ silent' = FALSE /\ nvals' = 0 /\ vals' = <<>>

AskAgain(h) ==
  /\ RetryDue(h.reply) /\ attempt' = 2 /\ bad' = bad + h.struck
  /\ UNCHANGED <<step, d, nvals, vals>>

Header(reply) ==
  /\ step = "M" /\ ~RetryDue(reply)
  /\ IF GoodHeader(reply) /\ Announced(reply) > 0
     THEN nvals' = Announced(reply) /\ Command("D", 0)
     ELSE End /\ UNCHANGED nvals
  /\ UNCHANGED vals

\* An empty reply ends the measurement, and so does one without a number.
Data(reply) ==
  /\ step = "D" /\ ~RetryDue(reply)
  /\ vals' = IF Len(reply) <= 1 THEN vals ELSE ParseValues(reply, vals, nvals)
  /\ IF Len(vals') = nvals \/ vals' = vals \/ d = 9 THEN End ELSE Command("D", d + 1)
  /\ UNCHANGED nvals

Exchange ==
  /\ step # "idle" /\ UNCHANGED probe
  /\ \E h \in Heard :
       /\ silent' = (silent \/ h.reply = <<>>)
       /\ AskAgain(h) \/ Header(h.reply) \/ Data(h.reply)

Next == Measure \/ Exchange

Spec == Init /\ [][Next]_vars

-----------------------------------------------------------------------------
TypeOK ==
  /\ step \in {"idle", "M", "D"} /\ d \in 0..9 /\ attempt \in 1..2
  /\ probe \in Probes /\ bad \in 0..MaxBad /\ silent \in BOOLEAN
  /\ nvals \in 0..MaxValues /\ Len(vals) <= nvals

\* A value is stored under its index, which is its depth: whatever bit of a
\* reply the line gets wrong, once for each command, the values are the
\* probe's, each at its index, and all of them unless the probe fell silent.
\* A "?" is "never mistaken for a number" (src/src/drivers/sensor_sdi12.c:20).
\* Violated when both attempts of a command are struck, or a start bit is.
ValuesAreTheProbes ==
  /\ IsPrefix(vals, Numbers)
  /\ step = "idle" /\ ~silent /\ attempt = 1 /\ nvals > 0 => Len(vals) = Min({Len(Numbers), MaxValues})
=============================================================================
