--------------------------- MODULE SoilWindow_proofs ---------------------------
(***************************************************************************)
(* Proofs about SoilWindow: for a ring of any size, any readers' room and  *)
(* any stations.  The ring is the log that ReadingLog promises, whatever   *)
(* happens to it (RingOfALog); the forecast rests on real hours            *)
(* (ForecastRests); and, under hypotheses that name what each needs of the *)
(* stations and of the room, a fresh sample is seen (FreshSamples) and an  *)
(* hour the cursor has passed is whole (PassedHours).                      *)
(*                                                                         *)
(* The loops of the source are recursive functions, and what a loop leaves *)
(* is proved by induction over the set of the steps that keep its          *)
(* invariant (Throughout, LoopRuns): IsAppending, IsCapturing and the like *)
(* say that a function is the loop's, and the ...Runs lemmas that it is.   *)
(***************************************************************************)
EXTENDS SoilWindow, FiniteSetTheorems, WellFoundedInduction, TLAPS

-----------------------------------------------------------------------------
(* Loops.                                                                    *)

\* Induction over the numbers of a set.
LEMMA AllOfNat ==
  ASSUME NEW S, 0 \in S, \A n \in Nat : n \in S => n + 1 \in S
  PROVE  \A n \in Nat : n \in S
<1> SUFFICES ASSUME NEW m \in Nat, m \notin S PROVE FALSE
  OBVIOUS
<1> DEFINE Out == {n \in Nat : n \notin S}
<1>1. m \in Out
  OBVIOUS
<1>2. PICK x \in Out : \A y \in Nat : <<y, x>> \in OpToRel(<, Nat) => y \notin Out
  BY <1>1, NatLessThanWellFounded, WFMin
<1>3. x \in Nat /\ x # 0 /\ x \notin S
  BY <1>2
<1>4. x - 1 \in Nat /\ x - 1 < x
  BY <1>3
<1>5. <<x - 1, x>> \in OpToRel(<, Nat)
  BY <1>3, <1>4 DEF OpToRel
<1>6. x - 1 \in S
  BY <1>2, <1>4, <1>5
<1>7. x \in S
  BY <1>3, <1>4, <1>6
<1>8. QED
  BY <1>3, <1>7

\* What holds before a loop of n steps, and after a step if before it, holds
\* throughout.
LEMMA Throughout ==
  ASSUME NEW n \in Nat, NEW S, 0 \in S, \A k \in 1..n : k - 1 \in S => k \in S
  PROVE  \A k \in 0..n : k \in S
<1> DEFINE T == {m \in Nat : m <= n => m \in S}
<1>1. 0 \in T
  OBVIOUS
<1>2. ASSUME NEW m \in Nat, m \in T PROVE m + 1 \in T
  <2>1. CASE m + 1 <= n
    <3>1. m \in S /\ m + 1 \in 1..n /\ (m + 1) - 1 = m
      BY <1>2, <2>1
    <3>2. m + 1 \in S
      BY <3>1
    <3>3. QED
      BY <3>2
  <2>2. CASE ~(m + 1 <= n)
    BY <2>2
  <2>3. QED
    BY <2>1, <2>2
<1>3. \A m \in Nat : m \in T
  <2> HIDE DEF T
  <2>1. QED
    BY <1>1, <1>2, AllOfNat
<1>4. QED
  BY <1>3

\* A loop that starts and stays in X can be run.
Runs(g, n, s, F) ==
  g[0] = s /\ \A k \in 1..n : g[k] = F[k][g[k - 1]]

LEMMA LoopRuns ==
  ASSUME NEW X, NEW n \in Nat, NEW s \in X, NEW F \in [1..n -> [X -> X]]
  PROVE  \E g \in [0..n -> X] : Runs(g, n, s, F)
<1> DEFINE S == {m \in 0..n : \E g \in [0..m -> X] : Runs(g, m, s, F)}
<1>1. 0 \in S
  <2> DEFINE g == [k \in 0..0 |-> s]
  <2>1. g \in [0..0 -> X] /\ Runs(g, 0, s, F)
    BY DEF Runs
  <2> HIDE DEF g
  <2>2. QED
    BY <2>1
<1>2. ASSUME NEW k \in 1..n, k - 1 \in S PROVE k \in S
  <2>1. PICK g \in [0..(k - 1) -> X] : Runs(g, k - 1, s, F)
    BY <1>2
  <2> DEFINE x == F[k][g[k - 1]]
             h == [i \in 0..k |-> IF i \in 0..(k - 1) THEN g[i] ELSE x]
  <2>2. k - 1 \in 0..(k - 1) /\ k \in 0..k /\ k \notin 0..(k - 1) /\ 0 \in 0..(k - 1) /\ 0 \in 0..k
    OBVIOUS
  <2>3. x \in X
    BY <2>2
  <2>4. h \in [0..k -> X] /\ h[0] = g[0] /\ h[k] = x
    BY <2>2, <2>3
  <2>5. ASSUME NEW i \in 1..k PROVE h[i] = F[i][h[i - 1]]
    <3>1. i - 1 \in 0..(k - 1) /\ i - 1 \in 0..k
      OBVIOUS
    <3>2. h[i - 1] = g[i - 1]
      BY <3>1
    <3>3. CASE i = k
      BY <2>4, <3>2, <3>3
    <3>4. CASE i # k
      <4>1. i \in 1..(k - 1) /\ i \in 0..(k - 1) /\ i \in 0..k
        BY <3>4
      <4>2. h[i] = g[i] /\ g[i] = F[i][g[i - 1]]
        BY <2>1, <4>1 DEF Runs
      <4>3. QED
        BY <3>2, <4>2
    <3>5. QED
      BY <3>3, <3>4
  <2>6. Runs(h, k, s, F)
    <3> HIDE DEF h, x
    <3>1. QED
      BY <2>1, <2>4, <2>5 DEF Runs
  <2> HIDE DEF h, x
  <2>7. QED
    BY <2>4, <2>6
<1>3. n \in S
  <2> HIDE DEF S
  <2>1. \A k \in 0..n : k \in S
    BY <1>1, <1>2, Throughout
  <2>2. QED
    BY <2>1
<1>4. QED
  BY <1>3
-----------------------------------------------------------------------------
(* The ring.                                                                 *)

LEMMA Sizes ==
  /\ Cap \in Nat /\ Cap > 0 /\ Hour \in Nat /\ Hour > 0 /\ Lookback \in Nat /\ RecsMax \in Nat /\ RecsMax > 0
  /\ UplinkAggs \in Nat /\ UplinkAggs > 0 /\ WindowAggs \in Nat /\ WindowAggs > 0
  /\ Past \in Nat /\ Past > 0 /\ MinReal \in Nat /\ MinReal > 0 /\ MinReal <= Past /\ MaxGap \in Nat
BY SoilWindowConstants

\* An index that passes the end of the ring once.
LEMMA Wraps ==
  ASSUME NEW n \in 0..(2 * Cap - 1)
  PROVE  n % Cap = IF n < Cap THEN n ELSE n - Cap
BY Sizes

Indices == 0..(Cap - 1)
Rings == [rd : [Indices -> Reading], head : Indices, count : 0..Cap]
Good(q) == q \in Rings /\ (q.count < Cap => q.head = q.count)

\* Where the i-th oldest reading is.
Place(q, i) == (Start(q.count, q.head) + i - 1) % Cap

LEMMA PlaceFacts ==
  ASSUME NEW q, Good(q), NEW i \in 1..q.count
  PROVE  /\ Place(q, i) \in Indices
         /\ q.count < Cap => Place(q, i) = i - 1
         /\ q.count = Cap => Place(q, i) = IF q.head + i - 1 < Cap THEN q.head + i - 1
                                           ELSE q.head + i - 1 - Cap
<1>1. q.count \in 0..Cap /\ q.head \in 0..(Cap - 1)
  BY DEF Good, Rings, Indices
<1>2. CASE q.count < Cap
  <2>1. Start(q.count, q.head) + i - 1 = i - 1 /\ i - 1 \in 0..(2 * Cap - 1) /\ i - 1 < Cap
    BY <1>1, <1>2, Sizes DEF Start
  <2>2. Place(q, i) = i - 1
    BY <2>1, Wraps DEF Place
  <2>3. QED
    BY <2>1, <2>2, <1>2, Sizes DEF Indices
<1>3. CASE q.count = Cap
  <2> DEFINE n == q.head + i - 1
  <2>1. Start(q.count, q.head) = q.head /\ n \in 0..(2 * Cap - 1)
    BY <1>1, <1>3, Sizes DEF Start
  <2>a. Place(q, i) = n % Cap
    BY <2>1 DEF Place
  <2>b. n % Cap = IF n < Cap THEN n ELSE n - Cap
    <3> HIDE DEF n
    <3>1. QED
      BY <2>1, Wraps
  <2>c. Place(q, i) = IF n < Cap THEN n ELSE n - Cap
    <3> HIDE DEF n
    <3>1. QED
      BY <2>a, <2>b
  <2>2. Place(q, i) = IF q.head + i - 1 < Cap THEN q.head + i - 1 ELSE q.head + i - 1 - Cap
    BY <2>c, <1>1, <1>3, Sizes
  <2>3. QED
    BY <2>2, <1>1, <1>3, Sizes DEF Indices
<1>4. QED
  BY <1>1, <1>2, <1>3, Sizes

LEMMA OrderFacts ==
  ASSUME NEW q, Good(q)
  PROVE  /\ OrderOf(q) \in Seq(Reading) /\ Len(OrderOf(q)) = q.count
         /\ \A i \in 1..q.count : OrderOf(q)[i] = q.rd[Place(q, i)]
<1>1. q.count \in Nat /\ q.rd \in [Indices -> Reading]
  BY Sizes DEF Good, Rings
<1>2. \A i \in 1..q.count : q.rd[Place(q, i)] \in Reading
  BY <1>1, PlaceFacts
<1>3. OrderOf(q) = [i \in 1..q.count |-> q.rd[Place(q, i)]]
  BY DEF OrderOf, Place
<1>4. QED
  BY <1>1, <1>2, <1>3

\* b is what a ring keeps of s.
IsTail(b, s) ==
  /\ Len(b) = IF Len(s) < Cap THEN Len(s) ELSE Cap
  /\ \A i \in 1..Len(b) : b[i] = s[Len(s) - Len(b) + i]

\* So it is when a reading more is appended to both.
LEMMA TailKept ==
  ASSUME NEW q, Good(q), NEW s \in Seq(Reading), NEW r \in Reading, IsTail(OrderOf(q), s)
  PROVE  Good(AppendTo(q, r)) /\ IsTail(OrderOf(AppendTo(q, r)), Append(s, r))
<1> DEFINE p == AppendTo(q, r)
           b == OrderOf(q)
<1>1. /\ q.count \in 0..Cap /\ q.head \in 0..(Cap - 1) /\ q.rd \in [Indices -> Reading]
      /\ q.count < Cap => q.head = q.count
  BY DEF Good, Rings, Indices
<1>2. /\ p.rd = [q.rd EXCEPT ![q.head] = r] /\ p.head = (q.head + 1) % Cap
      /\ p.count = IF q.count < Cap THEN q.count + 1 ELSE Cap
      /\ p = [rd |-> p.rd, head |-> p.head, count |-> p.count]
  BY DEF AppendTo
<1>3. p.head = IF q.head + 1 < Cap THEN q.head + 1 ELSE 0
  <2> DEFINE n == q.head + 1
  <2>1. n \in 0..(2 * Cap - 1)
    BY <1>1, Sizes
  <2>2. n % Cap = IF n < Cap THEN n ELSE n - Cap
    <3> HIDE DEF n
    <3>1. QED
      BY <2>1, Wraps
  <2>3. n < Cap \/ n = Cap
    BY <1>1, Sizes
  <2>4. p.head = n % Cap
    BY <1>2
  <2>5. QED
    <3> HIDE DEF p
    <3>1. QED
      BY <2>2, <2>3, <2>4, Sizes
<1>4. p.rd \in [Indices -> Reading] /\ p.head \in Indices /\ p.count \in 0..Cap
  <2>1. p.rd \in [Indices -> Reading]
    BY <1>1, <1>2
  <2>2. p.head \in Indices
    <3> HIDE DEF p
    <3>1. QED
      BY <1>1, <1>3, Sizes DEF Indices
  <2>a. p.count \in 0..Cap
    <3>1. p.count = IF q.count < Cap THEN q.count + 1 ELSE Cap
      BY <1>2
    <3> HIDE DEF p
    <3>2. QED
      BY <1>1, <3>1, Sizes
  <2>3. QED
    BY <2>1, <2>2, <2>a
<1>5. Good(p)
  <2>1. p \in Rings
    BY <1>2, <1>4 DEF Rings
  <2>2. p.count < Cap => p.head = p.count
    <3>1. p.count = IF q.count < Cap THEN q.count + 1 ELSE Cap
      BY <1>2
    <3> HIDE DEF p
    <3>2. QED
      BY <1>1, <1>3, <3>1, Sizes
  <2>3. QED
    BY <2>1, <2>2 DEF Good
<1>6. /\ Len(b) = q.count /\ \A i \in 1..q.count : b[i] = q.rd[Place(q, i)]
  BY OrderFacts
<1>7. Len(OrderOf(p)) = p.count /\ \A i \in 1..p.count : OrderOf(p)[i] = p.rd[Place(p, i)]
  BY <1>5, OrderFacts
<1>8. /\ Len(s) \in Nat /\ Len(Append(s, r)) = Len(s) + 1
      /\ \A i \in 1..Len(s) : Append(s, r)[i] = s[i]
      /\ Append(s, r)[Len(s) + 1] = r
  OBVIOUS
<1>9. q.count = (IF Len(s) < Cap THEN Len(s) ELSE Cap) /\ \A i \in 1..q.count : b[i] = s[Len(s) - q.count + i]
  BY <1>6 DEF IsTail
<1>10. p.count = IF Len(s) + 1 < Cap THEN Len(s) + 1 ELSE Cap
  BY <1>1, <1>2, <1>8, <1>9, Sizes
<1> HIDE DEF p, b
<1>11. ASSUME NEW i \in 1..p.count
       PROVE  p.rd[Place(p, i)] = Append(s, r)[Len(s) + 1 - p.count + i]
  <2>1. CASE q.count < Cap
    <3>1. p.count = q.count + 1 /\ q.head = q.count /\ Len(s) = q.count
      BY <1>1, <1>2, <1>8, <1>9, <2>1
    <3>2. Place(p, i) = i - 1
      <4>1. CASE p.count < Cap
        BY <1>5, <4>1, PlaceFacts
      <4>2. CASE p.count = Cap
        <5>1. p.head = 0
          BY <1>3, <3>1, <4>2
        <5>2. Place(p, i) = IF p.head + i - 1 < Cap THEN p.head + i - 1 ELSE p.head + i - 1 - Cap
          BY <1>5, <4>2, PlaceFacts
        <5>3. QED
          BY <5>1, <5>2, <4>2, Sizes
      <4>3. QED
        BY <4>1, <4>2, <1>4, Sizes
    <3>3. CASE i = p.count
      <4>1. Place(p, i) = q.head /\ Len(s) + 1 - p.count + i = Len(s) + 1
        BY <3>1, <3>2, <3>3, <1>1, <1>8
      <4>2. p.rd[q.head] = r
        BY <1>1, <1>2 DEF Indices
      <4>3. QED
        BY <4>1, <4>2, <1>8
    <3>4. CASE i # p.count
      <4>1. /\ i \in 1..q.count /\ Len(s) - q.count + i = i /\ i \in 1..Len(s)
            /\ Len(s) + 1 - p.count + i = i /\ i - 1 # q.head /\ i - 1 \in Indices
        BY <3>1, <3>4, <1>1, <1>8, Sizes DEF Indices
      <4>2. Place(q, i) = i - 1
        BY <4>1, <2>1, PlaceFacts
      <4>3. p.rd[i - 1] = q.rd[i - 1]
        BY <4>1, <1>1, <1>2
      <4>4. b[i] = s[i] /\ b[i] = q.rd[i - 1]
        BY <4>1, <4>2, <1>6, <1>9
      <4>5. Append(s, r)[i] = s[i]
        BY <4>1, <1>8
      <4>6. QED
        BY <3>2, <4>1, <4>3, <4>4, <4>5
    <3>5. QED
      BY <3>3, <3>4
  <2>2. CASE q.count = Cap
    <3>1. p.count = Cap /\ Len(s) >= Cap
      BY <1>1, <1>2, <1>8, <1>9, <2>2, Sizes
    <3>2. Place(p, i) = IF p.head + i - 1 < Cap THEN p.head + i - 1 ELSE p.head + i - 1 - Cap
      BY <1>5, <3>1, PlaceFacts
    <3>3. CASE i = Cap
      <4>1. Place(p, i) = q.head
        BY <1>1, <1>3, <3>2, <3>3, Sizes
      <4>2. p.rd[q.head] = r
        BY <1>1, <1>2 DEF Indices
      <4>3. Len(s) + 1 - p.count + i = Len(s) + 1
        BY <3>1, <3>3, <1>8, Sizes
      <4>4. QED
        BY <4>1, <4>2, <4>3, <1>8
    <3>4. CASE i # Cap
      <4>1. /\ i + 1 \in 1..q.count /\ Len(s) + 1 - p.count + i = Len(s) - q.count + (i + 1)
            /\ Len(s) - q.count + (i + 1) \in 1..Len(s)
        BY <2>2, <3>1, <3>4, <1>8, Sizes
      <4>2. Place(q, i + 1) = IF q.head + (i + 1) - 1 < Cap THEN q.head + (i + 1) - 1
                              ELSE q.head + (i + 1) - 1 - Cap
        BY <2>2, <4>1, PlaceFacts
      <4>3. Place(p, i) = Place(q, i + 1) /\ Place(p, i) # q.head
        <5>1. i \in 1..(Cap - 1) /\ q.head \in 0..(Cap - 1)
          BY <3>1, <3>4, <1>1, Sizes
        <5>2. CASE q.head + 1 < Cap
          <6>1. p.head = q.head + 1
            BY <5>2, <1>3
          <6>2. QED
            BY <5>1, <6>1, <3>2, <4>2, Sizes
        <5>3. CASE q.head + 1 = Cap
          <6>1. p.head = 0
            BY <5>3, <1>3, Sizes
          <6>2. QED
            BY <5>1, <5>3, <6>1, <3>2, <4>2, Sizes
        <5>4. QED
          BY <5>1, <5>2, <5>3, Sizes
      <4>4. Place(q, i + 1) \in Indices
        BY <4>1, PlaceFacts
      <4>5. p.rd[Place(p, i)] = q.rd[Place(q, i + 1)]
        BY <4>3, <4>4, <1>1, <1>2
      <4>6. b[i + 1] = q.rd[Place(q, i + 1)] /\ b[i + 1] = s[Len(s) - q.count + (i + 1)]
        BY <4>1, <1>6, <1>9
      <4>7. Append(s, r)[Len(s) - q.count + (i + 1)] = s[Len(s) - q.count + (i + 1)]
        BY <4>1, <1>8
      <4>8. QED
        BY <4>1, <4>5, <4>6, <4>7
    <3>5. QED
      BY <3>3, <3>4
  <2>3. q.count < Cap \/ q.count = Cap
    BY <1>1, Sizes
  <2>4. QED
    BY <2>1, <2>2, <2>3
<1>12. IsTail(OrderOf(p), Append(s, r))
  BY <1>7, <1>8, <1>10, <1>11 DEF IsTail
<1>13. QED
  BY <1>5, <1>12 DEF p
-----------------------------------------------------------------------------
(* Readings come in.                                                         *)

LEMMA TailOfItself ==
  ASSUME NEW q, Good(q)
  PROVE  OrderOf(q) \in Seq(Reading) /\ IsTail(OrderOf(q), OrderOf(q))
<1>1. OrderOf(q) \in Seq(Reading) /\ Len(OrderOf(q)) \in 0..Cap
  BY OrderFacts DEF Good, Rings
<1> DEFINE b == OrderOf(q)
<1> HIDE DEF b
<1>2. Len(b) = IF Len(b) < Cap THEN Len(b) ELSE Cap
  BY <1>1, Sizes DEF b
<1>3. \A i \in 1..Len(b) : Len(b) - Len(b) + i = i
  BY <1>1, Sizes DEF b
<1>4. IsTail(b, b)
  BY <1>2, <1>3 DEF IsTail
<1>5. QED
  BY <1>1, <1>4 DEF b

\* s, and the first k of r after it.
Joined(s, r, k) == [i \in 1..(Len(s) + k) |-> IF i <= Len(s) THEN s[i] ELSE r[i - Len(s)]]

LEMMA JoinedFacts ==
  ASSUME NEW s \in Seq(Reading), NEW r \in Seq(Reading), NEW k \in 0..Len(r)
  PROVE  /\ Joined(s, r, k) \in Seq(Reading) /\ Len(Joined(s, r, k)) = Len(s) + k
         /\ \A i \in 1..Len(s) : Joined(s, r, k)[i] = s[i]
         /\ \A i \in 1..k : Joined(s, r, k)[Len(s) + i] = r[i]
         /\ k = 0 => Joined(s, r, k) = s
         /\ k > 0 => Joined(s, r, k) = Append(Joined(s, r, k - 1), r[k])
<1>1. Len(s) \in Nat /\ Len(r) \in Nat /\ Len(s) + k \in Nat
  OBVIOUS
<1>2. \A i \in 1..(Len(s) + k) : (IF i <= Len(s) THEN s[i] ELSE r[i - Len(s)]) \in Reading
  <2> SUFFICES ASSUME NEW i \in 1..(Len(s) + k)
               PROVE (IF i <= Len(s) THEN s[i] ELSE r[i - Len(s)]) \in Reading
    OBVIOUS
  <2>1. CASE i <= Len(s)
    <3>1. i \in 1..Len(s)
      BY <2>1, <1>1
    <3>2. QED
      BY <2>1, <3>1
  <2>2. CASE ~(i <= Len(s))
    <3>1. i - Len(s) \in 1..Len(r)
      BY <2>2, <1>1
    <3>2. r[i - Len(s)] \in Reading
      BY <3>1
    <3>3. QED
      BY <2>2, <3>2
  <2>3. QED
    BY <2>1, <2>2
<1>3. Joined(s, r, k) \in Seq(Reading) /\ Len(Joined(s, r, k)) = Len(s) + k
  BY <1>1, <1>2 DEF Joined
<1>4. \A i \in 1..Len(s) : Joined(s, r, k)[i] = s[i]
  BY <1>1 DEF Joined
<1>5. \A i \in 1..k : Joined(s, r, k)[Len(s) + i] = r[i]
  <2> SUFFICES ASSUME NEW i \in 1..k PROVE Joined(s, r, k)[Len(s) + i] = r[i]
    OBVIOUS
  <2>1. Len(s) + i \in 1..(Len(s) + k) /\ ~(Len(s) + i <= Len(s)) /\ (Len(s) + i) - Len(s) = i
    BY <1>1
  <2>2. QED
    BY <2>1 DEF Joined
<1>6. ASSUME k = 0 PROVE Joined(s, r, k) = s
  <2>1. Len(s) + k = Len(s)
    BY <1>1, <1>6
  <2>2. Joined(s, r, k) = [i \in 1..Len(s) |-> s[i]]
    BY <2>1, <1>1 DEF Joined
  <2>3. QED
    BY <2>2
<1>7. ASSUME k > 0 PROVE Joined(s, r, k) = Append(Joined(s, r, k - 1), r[k])
  <2> DEFINE a == Joined(s, r, k - 1)
             b == Joined(s, r, k)
  <2>1. k - 1 \in 0..Len(r) /\ Len(s) + (k - 1) \in Nat /\ k \in 1..Len(r)
    BY <1>1, <1>7
  <2>2. \A i \in 1..(Len(s) + (k - 1)) : (IF i <= Len(s) THEN s[i] ELSE r[i - Len(s)]) \in Reading
    <3>1. \A i \in 1..(Len(s) + (k - 1)) : i \in 1..(Len(s) + k)
      BY <1>1
    <3>2. QED
      BY <1>2, <3>1
  <2>3. a \in Seq(Reading) /\ Len(a) = Len(s) + (k - 1)
    BY <2>1, <2>2 DEF Joined
  <2>4. \A i \in 1..(Len(s) + (k - 1)) : a[i] = b[i]
    <3>1. \A i \in 1..(Len(s) + (k - 1)) : i \in 1..(Len(s) + k)
      BY <1>1
    <3>2. QED
      BY <3>1 DEF Joined
  <2>5. b[Len(s) + k] = r[k] /\ r[k] \in Reading /\ Len(s) + k = Len(a) + 1
    <3>1. k \in 1..k /\ r[k] \in Reading
      BY <1>7, <2>1
    <3>2. b[Len(s) + k] = r[k]
      BY <1>5, <3>1
    <3> HIDE DEF a, b
    <3>3. Len(s) + k = Len(a) + 1
      BY <1>1, <2>3, <2>1
    <3>4. QED
      BY <3>1, <3>2, <3>3
  <2> HIDE DEF a, b
  <2>6. b \in Seq(Reading) /\ Len(b) = Len(a) + 1
    BY <1>3, <2>5 DEF b
  <2>7. \A i \in 1..Len(b) : b[i] = Append(a, r[k])[i]
    BY <2>3, <2>4, <2>5, <2>6, <1>1
  <2>8. Append(a, r[k]) \in Seq(Reading) /\ Len(Append(a, r[k])) = Len(b)
    BY <2>3, <2>5, <2>6
  <2>9. b = Append(a, r[k])
    BY <2>6, <2>7, <2>8
  <2>10. QED
    BY <2>9 DEF a, b
<1>8. QED
  BY <1>3, <1>4, <1>5, <1>6, <1>7

\* The loop over the readings of s, with all it has been through.
IsAppending(g, q, s) ==
  g = [i \in 0..Len(s) |-> IF i = 0 THEN q ELSE AppendTo(g[i - 1], s[i])]

LEMMA AppendingRuns ==
  ASSUME NEW q, Good(q), NEW s \in Seq(Reading)
  PROVE  \E g : /\ Appended(q, s) = g[Len(s)] /\ g[0] = q
                /\ \A i \in 1..Len(s) : g[i] = AppendTo(g[i - 1], s[i])
<1> DEFINE X == {x \in Rings : Good(x)}
           n == Len(s)
           F == [i \in 1..n |-> [x \in X |-> AppendTo(x, s[i])]]
           loop == CHOOSE g : IsAppending(g, q, s)
<1>1. n \in Nat /\ q \in X
  BY DEF Good
<1>2. \A i \in 1..n, x \in X : AppendTo(x, s[i]) \in X
  <2> SUFFICES ASSUME NEW i \in 1..n, NEW x \in X PROVE AppendTo(x, s[i]) \in X
    OBVIOUS
  <2>1. Good(x) /\ s[i] \in Reading
    OBVIOUS
  <2>2. Good(AppendTo(x, s[i]))
    BY <2>1, TailOfItself, TailKept
  <2>3. QED
    BY <2>2 DEF Good
<1>3. F \in [1..n -> [X -> X]]
  BY <1>2
<1>4. \E g : IsAppending(g, q, s)
  <2>1. PICK g \in [0..n -> X] : Runs(g, n, q, F)
    <3> HIDE DEF F, X, n
    <3>1. QED
      BY <1>1, <1>3, LoopRuns
  <2>2. ASSUME NEW i \in 0..n PROVE g[i] = IF i = 0 THEN q ELSE AppendTo(g[i - 1], s[i])
    <3>1. CASE i = 0
      BY <2>1, <3>1 DEF Runs
    <3>2. CASE i # 0
      <4>1. i \in 1..n /\ i - 1 \in 0..n
        BY <3>2, <1>1
      <4>2. g[i] = F[i][g[i - 1]] /\ g[i - 1] \in X
        BY <2>1, <4>1 DEF Runs
      <4>3. F[i][g[i - 1]] = AppendTo(g[i - 1], s[i])
        BY <4>1, <4>2
      <4>4. QED
        BY <3>2, <4>2, <4>3
    <3>3. QED
      BY <3>1, <3>2
  <2>3. g = [i \in 0..n |-> IF i = 0 THEN q ELSE AppendTo(g[i - 1], s[i])]
    BY <2>1, <2>2
  <2>4. QED
    BY <2>3 DEF IsAppending
<1>5. IsAppending(loop, q, s)
  BY <1>4
<1>6. Appended(q, s) = loop[Len(s)]
  BY DEF Appended, IsAppending
<1> HIDE DEF loop
<1>7. loop[0] = q
  BY <1>1, <1>5 DEF IsAppending
<1>8. \A i \in 1..Len(s) : loop[i] = AppendTo(loop[i - 1], s[i])
  <2>1. \A i \in 1..Len(s) : i \in 0..Len(s) /\ i # 0
    BY <1>1
  <2>2. QED
    BY <1>5, <2>1 DEF IsAppending
<1>9. QED
  BY <1>6, <1>7, <1>8

\* Whatever is appended, what the ring keeps is the end of it all.
LEMMA AppendedFacts ==
  ASSUME NEW q, Good(q), NEW s \in Seq(Reading), NEW r \in Seq(Reading), IsTail(OrderOf(q), s)
  PROVE  /\ Good(Appended(q, r))
         /\ IsTail(OrderOf(Appended(q, r)), Joined(s, r, Len(r)))
<1>1. PICK g : /\ Appended(q, r) = g[Len(r)] /\ g[0] = q
               /\ \A i \in 1..Len(r) : g[i] = AppendTo(g[i - 1], r[i])
  BY AppendingRuns
<1> DEFINE S == {k \in 0..Len(r) : Good(g[k]) /\ IsTail(OrderOf(g[k]), Joined(s, r, k))}
<1>2. Len(r) \in Nat
  OBVIOUS
<1>3. 0 \in S
  <2>1. 0 \in 0..Len(r) /\ Joined(s, r, 0) = s
    BY <1>2, JoinedFacts
  <2>2. QED
    BY <1>1, <2>1
<1>4. ASSUME NEW k \in 1..Len(r), k - 1 \in S PROVE k \in S
  <2>1. k \in 0..Len(r) /\ k - 1 \in 0..Len(r) /\ k > 0 /\ r[k] \in Reading
    BY <1>2
  <2>2. Good(g[k - 1]) /\ IsTail(OrderOf(g[k - 1]), Joined(s, r, k - 1))
    BY <1>4
  <2>3. /\ Joined(s, r, k - 1) \in Seq(Reading)
        /\ Joined(s, r, k) = Append(Joined(s, r, k - 1), r[k])
    BY <2>1, JoinedFacts
  <2>4. /\ Good(AppendTo(g[k - 1], r[k]))
        /\ IsTail(OrderOf(AppendTo(g[k - 1], r[k])), Append(Joined(s, r, k - 1), r[k]))
    BY <2>1, <2>2, <2>3, TailKept
  <2>5. g[k] = AppendTo(g[k - 1], r[k])
    BY <1>1
  <2>6. QED
    BY <2>1, <2>3, <2>4, <2>5
<1>5. Len(r) \in S
  <2> HIDE DEF S
  <2>1. \A k \in 0..Len(r) : k \in S
    BY <1>2, <1>3, <1>4, Throughout
  <2>2. QED
    BY <1>2, <2>1
<1>6. QED
  BY <1>1, <1>5
-----------------------------------------------------------------------------
(* A capture.                                                                *)

LEMMA StationFacts ==
  ASSUME TypeOK
  PROVE  /\ station \in Stations /\ Len(station.ports) \in Nat
         /\ DOMAIN station.ports = 1..Len(station.ports)
         /\ \A p \in DOMAIN station.ports : station.ports[p] \in Seq(Nat)
         /\ now \in Nat /\ now >= Hour
<1>1. station \in Stations /\ station.ports \in Seq(Seq(Nat)) /\ station.last \in Nat
  BY SoilWindowConstants DEF TypeOK
<1>2. now \in Hour..station.last
  BY DEF TypeOK
<1>3. now \in Nat /\ now >= Hour
  BY <1>1, <1>2, Sizes
<1>4. QED
  BY <1>1, <1>3

LEMMA SampledFacts ==
  ASSUME TypeOK, NEW p \in DOMAIN station.ports
  PROVE  /\ Sampled(p) \in Seq(Reading) /\ Len(Sampled(p)) = Len(station.ports[p])
         /\ \A i \in 1..Len(station.ports[p]) :
              Sampled(p)[i] = [ts |-> now, port |-> p, depth |-> station.ports[p][i]]
<1>1. /\ p \in Nat /\ now \in Nat /\ station.ports[p] \in Seq(Nat) /\ Len(station.ports[p]) \in Nat
      /\ DOMAIN station.ports[p] = 1..Len(station.ports[p])
  BY StationFacts
<1>2. \A i \in 1..Len(station.ports[p]) : [ts |-> now, port |-> p, depth |-> station.ports[p][i]] \in Reading
  BY <1>1 DEF Reading
<1>3. QED
  BY <1>1, <1>2 DEF Sampled

\* t is what came before, and then what the ports asked, up to the p-th, answer.
Fresh(t, old, ports, p) ==
  /\ Len(t) >= Len(old) /\ \A i \in 1..Len(old) : t[i] = old[i]
  /\ \A i \in (Len(old) + 1)..Len(t) :
       /\ t[i].ts = now /\ t[i].port \in ports
       /\ t[i].depth \in Range(station.ports[t[i].port])
  /\ \A m \in ports : m <= p => \A d \in Range(station.ports[m]) :
       \E i \in (Len(old) + 1)..Len(t) : t[i] = [ts |-> now, port |-> m, depth |-> d]
  /\ \A k \in Nat : (\A m \in DOMAIN station.ports : Len(station.ports[m]) <= k) =>
       Len(t) <= Len(old) + p * k

\* So it stays when the next port answers too.
LEMMA FreshStep ==
  ASSUME TypeOK, NEW old \in Seq(Reading), NEW t \in Seq(Reading),
         NEW ports \in SUBSET DOMAIN station.ports, NEW p \in ports, Fresh(t, old, ports, p - 1)
  PROVE  Fresh(Joined(t, Sampled(p), Len(Sampled(p))), old, ports, p)
<1> DEFINE r == Sampled(p)
           u == Joined(t, r, Len(r))
<1>0. p \in DOMAIN station.ports
  OBVIOUS
<1>1. /\ r \in Seq(Reading) /\ Len(r) \in Nat /\ Len(r) = Len(station.ports[p])
      /\ \A i \in 1..Len(r) : r[i] = [ts |-> now, port |-> p, depth |-> station.ports[p][i]]
  <2>1. /\ r \in Seq(Reading) /\ Len(r) = Len(station.ports[p])
        /\ \A i \in 1..Len(station.ports[p]) :
              r[i] = [ts |-> now, port |-> p, depth |-> station.ports[p][i]]
    BY <1>0, SampledFacts
  <2> HIDE DEF r
  <2>2. QED
    BY <2>1
<1>2. Len(r) \in 0..Len(r)
  BY <1>1
<1> HIDE DEF r
<1>3. /\ u \in Seq(Reading) /\ Len(u) = Len(t) + Len(r)
      /\ \A i \in 1..Len(t) : u[i] = t[i]
      /\ \A i \in 1..Len(r) : u[Len(t) + i] = r[i]
  BY <1>1, <1>2, JoinedFacts
<1> HIDE DEF u
<1>4. /\ Len(t) \in Nat /\ Len(old) \in Nat /\ Len(u) \in Nat /\ Len(t) >= Len(old) /\ p \in Nat /\ p > 0
      /\ \A i \in 1..Len(old) : t[i] = old[i]
  <2>1. Len(t) >= Len(old) /\ \A i \in 1..Len(old) : t[i] = old[i]
    BY DEF Fresh
  <2>2. p \in Nat /\ p > 0
    BY StationFacts
  <2>3. QED
    BY <1>3, <2>1, <2>2
<1>5. Len(u) >= Len(old) /\ \A i \in 1..Len(old) : u[i] = old[i]
  <2>1. \A i \in 1..Len(old) : i \in 1..Len(t)
    BY <1>4
  <2>2. Len(u) >= Len(old)
    BY <1>1, <1>3, <1>4
  <2>3. QED
    BY <2>1, <2>2, <1>3, <1>4
<1>6. ASSUME NEW i \in (Len(old) + 1)..Len(u)
      PROVE  u[i].ts = now /\ u[i].port \in ports /\ u[i].depth \in Range(station.ports[u[i].port])
  <2>1. CASE i <= Len(t)
    <3>1. i \in (Len(old) + 1)..Len(t) /\ i \in 1..Len(t)
      BY <2>1, <1>4
    <3>2. t[i].ts = now /\ t[i].port \in ports /\ t[i].depth \in Range(station.ports[t[i].port])
      BY <3>1 DEF Fresh
    <3>3. QED
      BY <3>1, <3>2, <1>3
  <2>2. CASE ~(i <= Len(t))
    <3>1. i - Len(t) \in 1..Len(r) /\ Len(t) + (i - Len(t)) = i
      BY <2>2, <1>1, <1>3, <1>4
    <3>2. u[i] = r[i - Len(t)]
      BY <3>1, <1>3
    <3>3. u[i] = [ts |-> now, port |-> p, depth |-> station.ports[p][i - Len(t)]]
      BY <3>1, <3>2, <1>1
    <3>4. i - Len(t) \in DOMAIN station.ports[p]
      BY <3>1, <1>1, StationFacts
    <3>5. station.ports[p][i - Len(t)] \in Range(station.ports[p])
      BY <3>4 DEF Range
    <3>6. QED
      BY <3>3, <3>5
  <2>3. QED
    BY <2>1, <2>2
<1>7. ASSUME NEW m \in ports, m <= p, NEW d \in Range(station.ports[m])
      PROVE  \E i \in (Len(old) + 1)..Len(u) : u[i] = [ts |-> now, port |-> m, depth |-> d]
  <2>1. CASE m = p
    <3>1. PICK j \in DOMAIN station.ports[p] : station.ports[p][j] = d
      BY <2>1 DEF Range
    <3>2. j \in 1..Len(r)
      BY <1>1, StationFacts
    <3>3. Len(t) + j \in (Len(old) + 1)..Len(u)
      BY <3>2, <1>1, <1>3, <1>4
    <3>4. u[Len(t) + j] = [ts |-> now, port |-> m, depth |-> d]
      BY <3>1, <3>2, <2>1, <1>1, <1>3
    <3>5. QED
      BY <3>3, <3>4
  <2>2. CASE m <= p - 1
    <3>1. PICK i \in (Len(old) + 1)..Len(t) : t[i] = [ts |-> now, port |-> m, depth |-> d]
      BY <2>2 DEF Fresh
    <3>2. i \in 1..Len(t) /\ i \in (Len(old) + 1)..Len(u)
      BY <1>1, <1>3, <1>4
    <3>3. u[i] = t[i]
      BY <3>2, <1>3
    <3>4. QED
      BY <3>1, <3>2, <3>3
  <2>3. m \in Nat
    BY StationFacts
  <2>4. QED
    BY <1>7, <1>4, <2>1, <2>2, <2>3
<1>8. ASSUME NEW k \in Nat, \A m \in DOMAIN station.ports : Len(station.ports[m]) <= k
      PROVE  Len(u) <= Len(old) + p * k
  <2>1. Len(t) <= Len(old) + (p - 1) * k /\ Len(r) <= k
    BY <1>8, <1>1 DEF Fresh
  <2>2. (p - 1) * k + k = p * k /\ (p - 1) * k \in Int /\ p * k \in Int
    BY <1>4
  <2> DEFINE a == (p - 1) * k
             b == p * k
  <2>3. Len(t) <= Len(old) + a /\ a + k = b /\ a \in Int /\ b \in Int
    BY <2>1, <2>2
  <2> HIDE DEF a, b
  <2>4. Len(u) <= Len(old) + b
    BY <2>1, <2>3, <1>1, <1>3, <1>4
  <2>5. QED
    BY <2>4 DEF b
<1>9. Fresh(u, old, ports, p)
  BY <1>5, <1>6, <1>7, <1>8 DEF Fresh
<1>10. QED
  BY <1>9 DEF u, r
\* The loop over the ports.
IsCapturing(g, ports) ==
  g = [p \in 0..Len(station.ports) |->
         IF p = 0 THEN Ring
         ELSE IF p \in ports THEN Appended(g[p - 1], Sampled(p)) ELSE g[p - 1]]

LEMMA CapturingRuns ==
  ASSUME TypeOK, RingOK, NEW ports
  PROVE  \E g : /\ Captured(ports) = g[Len(station.ports)] /\ g[0] = Ring
                /\ \A p \in 1..Len(station.ports) :
                     g[p] = IF p \in ports THEN Appended(g[p - 1], Sampled(p)) ELSE g[p - 1]
<1> DEFINE X == {x \in Rings : Good(x)}
           n == Len(station.ports)
           Step(x, p) == IF p \in ports THEN Appended(x, Sampled(p)) ELSE x
           F == [p \in 1..n |-> [x \in X |-> Step(x, p)]]
           loop == CHOOSE g : IsCapturing(g, ports)
<1>1. n \in Nat /\ Ring \in X
  <2>1. Good(Ring)
    BY DEF Good, Rings, Ring, TypeOK, RingOK, Indices
  <2>2. QED
    BY <2>1, StationFacts DEF Good
<1>2. \A p \in 1..n, x \in X : Step(x, p) \in X
  <2> SUFFICES ASSUME NEW p \in 1..n, NEW x \in X PROVE Step(x, p) \in X
    OBVIOUS
  <2>1. Good(x) /\ Sampled(p) \in Seq(Reading)
    BY StationFacts, SampledFacts
  <2>2. Good(Appended(x, Sampled(p)))
    BY <2>1, TailOfItself, AppendedFacts
  <2>3. QED
    BY <2>2 DEF Good
<1>3. F \in [1..n -> [X -> X]]
  <2> HIDE DEF Step, X, n
  <2>1. QED
    BY <1>2
<1>4. \E g : IsCapturing(g, ports)
  <2>1. PICK g \in [0..n -> X] : Runs(g, n, Ring, F)
    <3> HIDE DEF F, X, n
    <3>1. QED
      BY <1>1, <1>3, LoopRuns
  <2>2. ASSUME NEW p \in 0..n PROVE g[p] = IF p = 0 THEN Ring ELSE Step(g[p - 1], p)
    <3> HIDE DEF Step
    <3>1. CASE p = 0
      BY <2>1, <3>1 DEF Runs
    <3>2. CASE p # 0
      <4>1. p \in 1..n /\ p - 1 \in 0..n
        BY <3>2, <1>1
      <4>2. g[p] = F[p][g[p - 1]] /\ g[p - 1] \in X
        BY <2>1, <4>1 DEF Runs
      <4>3. F[p][g[p - 1]] = Step(g[p - 1], p)
        BY <4>1, <4>2
      <4>4. QED
        BY <3>2, <4>2, <4>3
    <3>3. QED
      BY <3>1, <3>2
  <2>3. g = [p \in 0..n |-> IF p = 0 THEN Ring ELSE Step(g[p - 1], p)]
    <3> HIDE DEF Step
    <3>1. QED
      BY <2>1, <2>2
  <2>4. QED
    BY <2>3 DEF IsCapturing
<1>5. IsCapturing(loop, ports)
  BY <1>4
<1>6. Captured(ports) = loop[Len(station.ports)]
  BY DEF Captured, IsCapturing
<1> HIDE DEF loop
<1>7. loop[0] = Ring
  BY <1>1, <1>5 DEF IsCapturing
<1>8. \A p \in 1..Len(station.ports) : loop[p] = IF p \in ports THEN Appended(loop[p - 1], Sampled(p)) ELSE loop[p - 1]
  <2>1. \A p \in 1..Len(station.ports) : p \in 0..Len(station.ports) /\ p # 0
    BY <1>1
  <2>2. QED
    BY <1>5, <2>1 DEF IsCapturing
<1>9. QED
  BY <1>6, <1>7, <1>8

\* What the ring keeps is the end of what it held and what the ports answer.
LEMMA CapturedFacts ==
  ASSUME TypeOK, RingOK, NEW ports \in SUBSET DOMAIN station.ports
  PROVE  /\ Good(Captured(ports))
         /\ \E t \in Seq(Reading) : /\ IsTail(OrderOf(Captured(ports)), t)
                                    /\ Fresh(t, InOrder, ports, Len(station.ports))
<1> DEFINE n == Len(station.ports)
           Kept(q, p) == \E t \in Seq(Reading) : IsTail(OrderOf(q), t) /\ Fresh(t, InOrder, ports, p)
<1>1. PICK g : /\ Captured(ports) = g[n] /\ g[0] = Ring
               /\ \A p \in 1..n :
                     g[p] = IF p \in ports THEN Appended(g[p - 1], Sampled(p)) ELSE g[p - 1]
  BY CapturingRuns
<1> DEFINE S == {p \in 0..n : Good(g[p]) /\ Kept(g[p], p)}
<1>2. n \in Nat /\ DOMAIN station.ports = 1..n
  BY StationFacts
<1>3. 0 \in S
  <2>1. Good(Ring)
    BY DEF Good, Rings, Ring, TypeOK, RingOK, Indices
  <2>2. InOrder \in Seq(Reading) /\ IsTail(InOrder, InOrder)
    BY <2>1, TailOfItself DEF InOrder
  <2>3. Fresh(InOrder, InOrder, ports, 0)
    <3>1. Len(InOrder) \in Nat /\ \A i \in (Len(InOrder) + 1)..Len(InOrder) : FALSE
      BY <2>2
    <3>2. \A m \in ports : ~(m <= 0)
      BY <1>2
    <3>3. \A k \in Nat : Len(InOrder) <= Len(InOrder) + 0 * k
      BY <3>1
    <3>4. Len(InOrder) >= Len(InOrder)
      BY <3>1
    <3>5. QED
      BY <3>1, <3>2, <3>3, <3>4 DEF Fresh
  <2>4. Kept(Ring, 0)
    BY <2>2, <2>3 DEF InOrder
  <2>5. QED
    BY <1>1, <1>2, <2>1, <2>4
<1>4. ASSUME NEW p \in 1..n, p - 1 \in S PROVE p \in S
  <2>1. p \in 0..n
    BY <1>2
  <2>2. Good(g[p - 1]) /\ Kept(g[p - 1], p - 1)
    BY <1>4
  <2>3. PICK t \in Seq(Reading) : IsTail(OrderOf(g[p - 1]), t) /\ Fresh(t, InOrder, ports, p - 1)
    BY <2>2
  <2>o. InOrder \in Seq(Reading)
    <3>1. Good(Ring)
      BY DEF Good, Rings, Ring, TypeOK, RingOK, Indices
    <3>2. QED
      BY <3>1, TailOfItself DEF InOrder
  <2>4. CASE p \in ports
    <3> DEFINE r == Sampled(p)
               u == Joined(t, r, Len(r))
    <3>1. r \in Seq(Reading)
      BY <2>4, SampledFacts
    <3>2. Len(r) \in 0..Len(r)
      BY <3>1
    <3>3. u \in Seq(Reading)
      <4> HIDE DEF r
      <4>1. QED
        BY <3>1, <3>2, JoinedFacts
    <3>4. Good(Appended(g[p - 1], r)) /\ IsTail(OrderOf(Appended(g[p - 1], r)), u)
      <4> HIDE DEF r
      <4>1. QED
        BY <2>2, <2>3, <3>1, AppendedFacts
    <3>5. Fresh(u, InOrder, ports, p)
      BY <2>3, <2>4, <2>o, FreshStep
    <3>6. g[p] = Appended(g[p - 1], r)
      BY <1>1, <2>4
    <3> HIDE DEF u, r
    <3>7. Kept(g[p], p)
      BY <3>3, <3>4, <3>5, <3>6
    <3>8. QED
      BY <2>1, <3>4, <3>6, <3>7
  <2>5. CASE p \notin ports
    <3>1. g[p] = g[p - 1]
      BY <1>1, <2>5
    <3>2. Fresh(t, InOrder, ports, p)
      <4>1. \A m \in ports : m <= p => m <= p - 1
        BY <1>2, <2>5
      <4>2. \A k \in Nat : (p - 1) * k <= p * k
        <5> SUFFICES ASSUME NEW k \in Nat PROVE (p - 1) * k <= p * k
          OBVIOUS
        <5>1. (p - 1) * k = p * k - k /\ p * k \in Int
          BY <1>2
        <5>2. QED
          BY <5>1
      <4>3. ASSUME NEW k \in Nat, \A m \in DOMAIN station.ports : Len(station.ports[m]) <= k
            PROVE  Len(t) <= Len(InOrder) + p * k
        <5> DEFINE a == (p - 1) * k
                   b == p * k
        <5>1. Len(t) <= Len(InOrder) + a
          BY <2>3, <4>3 DEF Fresh
        <5>2. a <= b /\ a \in Int /\ b \in Int /\ Len(t) \in Nat /\ Len(InOrder) \in Nat
          BY <4>2, <1>2, <2>o
        <5> HIDE DEF a, b
        <5>3. Len(t) <= Len(InOrder) + b
          BY <5>1, <5>2
        <5>4. QED
          BY <5>3 DEF b
      <4>4. QED
        BY <2>3, <4>1, <4>3 DEF Fresh
    <3>3. QED
      BY <2>1, <2>2, <2>3, <3>1, <3>2
  <2>6. QED
    BY <2>4, <2>5
<1>5. n \in S
  <2> HIDE DEF S
  <2>1. \A p \in 0..n : p \in S
    BY <1>2, <1>3, <1>4, Throughout
  <2>2. QED
    BY <1>2, <2>1
<1>6. QED
  BY <1>1, <1>5
-----------------------------------------------------------------------------
(* Readings go.                                                              *)

\* Three reversals turn the ring so that what was at s comes first.
LEMMA Rotated ==
  ASSUME NEW f \in [Indices -> Reading], NEW s \in 1..(Cap - 1)
  PROVE  /\ Normalised(f, s) \in [Indices -> Reading]
         /\ \A i \in Indices : Normalised(f, s)[i] = f[IF s + i < Cap THEN s + i ELSE s + i - Cap]
<1> DEFINE f1 == Reversed(f, 0, s)
           f2 == Reversed(f1, s, Cap)
           f3 == Reversed(f2, 0, Cap)
<1>0. s \in Nat /\ s < Cap /\ s > 0
  BY Sizes
<1>1. f1 = [i \in Indices |-> IF i < s THEN f[s - 1 - i] ELSE f[i]]
  <2>1. DOMAIN f = Indices /\ \A i \in Indices : (i \in 0..(s - 1) <=> i < s) /\ 0 + s - 1 - i = s - 1 - i
    BY <1>0, Sizes DEF Indices
  <2>2. QED
    BY <2>1 DEF Reversed
<1>2. f2 = [i \in Indices |-> IF i < s THEN f[s - 1 - i] ELSE f[s + Cap - 1 - i]]
  <2>1. DOMAIN f1 = Indices
    BY <1>1
  <2>2. \A i \in Indices : IF i < s THEN i \notin s..(Cap - 1)
                           ELSE /\ i \in s..(Cap - 1) /\ s + Cap - 1 - i \in Indices
                                /\ ~(s + Cap - 1 - i < s)
    BY <1>0, Sizes DEF Indices
  <2>3. f2 = [i \in Indices |-> IF i \in s..(Cap - 1) THEN f1[s + Cap - 1 - i] ELSE f1[i]]
    BY <2>1 DEF Reversed
  <2> HIDE DEF f1, f2
  <2>4. \A i \in Indices : (IF i \in s..(Cap - 1) THEN f1[s + Cap - 1 - i] ELSE f1[i])
                           = (IF i < s THEN f[s - 1 - i] ELSE f[s + Cap - 1 - i])
    BY <1>1, <2>2
  <2>5. QED
    BY <2>3, <2>4
<1>3. f3 = [i \in Indices |-> f2[Cap - 1 - i]]
  <2>1. DOMAIN f2 = Indices /\ \A i \in Indices : i \in 0..(Cap - 1) /\ 0 + Cap - 1 - i = Cap - 1 - i
    BY <1>2, Sizes DEF Indices
  <2>2. QED
    BY <2>1 DEF Reversed
<1>4. \A i \in Indices : f2[Cap - 1 - i] = f[IF s + i < Cap THEN s + i ELSE s + i - Cap]
  <2> HIDE DEF f2
  <2> SUFFICES ASSUME NEW i \in Indices
               PROVE  f2[Cap - 1 - i] = f[IF s + i < Cap THEN s + i ELSE s + i - Cap]
    OBVIOUS
  <2>1. Cap - 1 - i \in Indices /\ i \in 0..(Cap - 1)
    BY Sizes DEF Indices
  <2>2. CASE s + i < Cap
    <3>1. ~(Cap - 1 - i < s) /\ s + Cap - 1 - (Cap - 1 - i) = s + i
      BY <2>1, <2>2, <1>0, Sizes
    <3>2. QED
      BY <1>2, <2>1, <2>2, <3>1
  <2>3. CASE ~(s + i < Cap)
    <3>1. Cap - 1 - i < s /\ s - 1 - (Cap - 1 - i) = s + i - Cap
      BY <2>1, <2>3, <1>0, Sizes
    <3>2. QED
      BY <1>2, <2>1, <2>3, <3>1
  <2>4. QED
    BY <2>2, <2>3
<1>5. f3 \in [Indices -> Reading]
  <2> HIDE DEF f2, f3
  <2>1. \A i \in Indices : (IF s + i < Cap THEN s + i ELSE s + i - Cap) \in Indices
    BY <1>0, Sizes DEF Indices
  <2>2. \A i \in Indices : f2[Cap - 1 - i] \in Reading
    BY <1>4, <2>1
  <2>3. QED
    BY <1>3, <2>2
<1>6. Normalised(f, s) = f3
  BY DEF Normalised
<1>7. QED
  <2> HIDE DEF f2, f3
  <2>1. QED
    BY <1>3, <1>4, <1>5, <1>6

\* How many of K there are up to i.
Rank(K, i) == Cardinality(K \cap 1..i)

LEMMA RankFacts ==
  ASSUME NEW K, NEW i \in Nat
  PROVE  /\ Rank(K, i) \in 0..i
         /\ i = 0 => Rank(K, i) = 0
         /\ i > 0 => Rank(K, i) = IF i \in K THEN Rank(K, i - 1) + 1 ELSE Rank(K, i - 1)
         /\ \A j \in 1..i : Rank(K, j) <= Rank(K, i)
<1> DEFINE A(j) == K \cap 1..j
<1>1. \A j \in Nat : IsFiniteSet(A(j)) /\ Cardinality(A(j)) \in 0..j
  <2> SUFFICES ASSUME NEW j \in Nat PROVE IsFiniteSet(A(j)) /\ Cardinality(A(j)) \in 0..j
    OBVIOUS
  <2>1. IsFiniteSet(1..j) /\ Cardinality(1..j) = j
    BY FS_Interval
  <2>2. A(j) \in SUBSET (1..j)
    OBVIOUS
  <2> HIDE DEF A
  <2>3. IsFiniteSet(A(j)) /\ Cardinality(A(j)) <= Cardinality(1..j)
    BY <2>1, <2>2, FS_Subset
  <2>4. Cardinality(A(j)) \in Nat
    BY <2>3, FS_CardinalityType
  <2>5. QED
    BY <2>1, <2>3, <2>4
<1>2. i = 0 => Cardinality(A(i)) = 0
  BY <1>1
<1>3. ASSUME i > 0
      PROVE  Cardinality(A(i)) = IF i \in K THEN Cardinality(A(i - 1)) + 1 ELSE Cardinality(A(i - 1))
  <2>1. i - 1 \in Nat /\ 1..i = 1..(i - 1) \cup {i} /\ i \notin 1..(i - 1)
    BY <1>3
  <2>2. A(i) = IF i \in K THEN A(i - 1) \cup {i} ELSE A(i - 1)
    BY <2>1
  <2>3. i \notin A(i - 1) /\ IsFiniteSet(A(i - 1))
    BY <2>1, <1>1
  <2> HIDE DEF A
  <2>4. Cardinality(A(i - 1) \cup {i}) = Cardinality(A(i - 1)) + 1
    BY <2>3, FS_AddElement
  <2>5. QED
    BY <2>2, <2>4
<1>4. ASSUME NEW j \in 1..i PROVE Cardinality(A(j)) <= Cardinality(A(i))
  <2>1. \A k \in 1..j : k \in 1..i
    OBVIOUS
  <2>2. A(j) \in SUBSET A(i) /\ IsFiniteSet(A(i))
    BY <2>1, <1>1
  <2> HIDE DEF A
  <2>3. QED
    BY <2>2, FS_Subset
<1>5. \A j : Rank(K, j) = Cardinality(A(j))
  BY DEF Rank
<1> HIDE DEF A
<1>6. QED
  BY <1>1, <1>2, <1>3, <1>4, <1>5

\* The loop that moves up what is kept.
IsCompacting(g, f, p) ==
  g = [i \in 0..count |-> IF i = 0 THEN [rd |-> f, kept |-> 0] ELSE KeepOthers(g[i - 1], i - 1, p)]

LEMMA CompactingRuns ==
  ASSUME count \in 0..Cap, NEW f \in [Indices -> Reading], NEW p
  PROVE  \E g : /\ Compacted(f, p) = g[count] /\ g[0] = [rd |-> f, kept |-> 0]
                /\ \A i \in 1..count : g[i] = KeepOthers(g[i - 1], i - 1, p)
<1> DEFINE X == [rd : [Indices -> Reading], kept : Nat]
           s == [rd |-> f, kept |-> 0]
           F == [i \in 1..count |-> [x \in X |-> KeepOthers(x, i - 1, p)]]
           loop == CHOOSE g : IsCompacting(g, f, p)
<1>1. count \in Nat /\ s \in X
  BY Sizes
<1>2. \A i \in 1..count, x \in X : KeepOthers(x, i - 1, p) \in X
  <2> SUFFICES ASSUME NEW i \in 1..count, NEW x \in X PROVE KeepOthers(x, i - 1, p) \in X
    OBVIOUS
  <2>1. i - 1 \in Indices
    BY Sizes DEF Indices
  <2>2. x.rd[i - 1] \in Reading /\ x.kept + 1 \in Nat
    BY <2>1
  <2>3. [x.rd EXCEPT ![x.kept] = x.rd[i - 1]] \in [Indices -> Reading]
    BY <2>2
  <2>4. QED
    BY <2>2, <2>3 DEF KeepOthers
<1>3. F \in [1..count -> [X -> X]]
  BY <1>2
<1>4. \E g : IsCompacting(g, f, p)
  <2>1. PICK g \in [0..count -> X] : Runs(g, count, s, F)
    <3> HIDE DEF F, X, s
    <3>1. QED
      BY <1>1, <1>3, LoopRuns
  <2>2. ASSUME NEW i \in 0..count PROVE g[i] = IF i = 0 THEN s ELSE KeepOthers(g[i - 1], i - 1, p)
    <3>1. CASE i = 0
      BY <2>1, <3>1 DEF Runs
    <3>2. CASE i # 0
      <4>1. i \in 1..count /\ i - 1 \in 0..count
        BY <3>2, <1>1
      <4> HIDE DEF s
      <4>2. g[i] = F[i][g[i - 1]] /\ g[i - 1] \in X
        BY <2>1, <4>1 DEF Runs
      <4>3. F[i][g[i - 1]] = KeepOthers(g[i - 1], i - 1, p)
        BY <4>1, <4>2
      <4>4. QED
        BY <3>2, <4>2, <4>3
    <3>3. QED
      BY <3>1, <3>2
  <2>3. g = [i \in 0..count |-> IF i = 0 THEN s ELSE KeepOthers(g[i - 1], i - 1, p)]
    BY <2>1, <2>2
  <2>4. QED
    BY <2>3 DEF IsCompacting
<1>5. IsCompacting(loop, f, p)
  BY <1>4
<1>6. Compacted(f, p) = loop[count]
  BY DEF Compacted, IsCompacting
<1> HIDE DEF loop
<1>7. loop[0] = [rd |-> f, kept |-> 0]
  BY <1>1, <1>5 DEF IsCompacting
<1>8. \A i \in 1..count : loop[i] = KeepOthers(loop[i - 1], i - 1, p)
  <2>1. \A i \in 1..count : i \in 0..count /\ i # 0
    BY <1>1
  <2>2. QED
    BY <1>5, <2>1 DEF IsCompacting
<1>9. QED
  BY <1>6, <1>7, <1>8
Others(f, p) == {i \in 1..count : f[i - 1].port # p}

\* What is kept has moved to its rank.
LEMMA CompactedFacts ==
  ASSUME count \in 0..Cap, NEW f \in [Indices -> Reading], NEW p
  PROVE  /\ Compacted(f, p).rd \in [Indices -> Reading]
         /\ Compacted(f, p).kept = Rank(Others(f, p), count)
         /\ \A i \in Others(f, p) : Compacted(f, p).rd[Rank(Others(f, p), i) - 1] = f[i - 1]
<1> DEFINE K == Others(f, p)
           Moved(q, k) ==
             /\ q.rd \in [Indices -> Reading] /\ q.kept = Rank(K, k)
             /\ \A i \in K : i <= k => q.rd[Rank(K, i) - 1] = f[i - 1]
             /\ \A j \in Indices : j >= k => q.rd[j] = f[j]
<1>1. PICK g : /\ Compacted(f, p) = g[count] /\ g[0] = [rd |-> f, kept |-> 0]
               /\ \A i \in 1..count : g[i] = KeepOthers(g[i - 1], i - 1, p)
  BY CompactingRuns
<1>2. count \in Nat /\ count <= Cap /\ K \subseteq 1..count
  BY Sizes DEF Others
<1>k. \A i \in 1..count : i \in K <=> f[i - 1].port # p
  BY DEF Others
<1> DEFINE S == {k \in 0..count : Moved(g[k], k)}
<1> HIDE DEF K
<1>3. 0 \in S
  <2>1. Rank(K, 0) = 0
    BY RankFacts
  <2>2. \A i \in K : ~(i <= 0)
    BY <1>2
  <2>3. QED
    BY <1>1, <1>2, <2>1, <2>2
<1>4. ASSUME NEW k \in 1..count, k - 1 \in S PROVE k \in S
  <2> DEFINE q == g[k - 1]
  <2>1. k \in 0..count /\ k - 1 \in Nat /\ k > 0 /\ k - 1 \in Indices
    BY <1>2, Sizes DEF Indices
  <2>2. Moved(q, k - 1)
    BY <1>4
  <2>3. g[k] = KeepOthers(q, k - 1, p)
    BY <1>1
  <2> HIDE DEF q
  <2>4. q.rd[k - 1] = f[k - 1]
    BY <2>1, <2>2
  <2>5. Rank(K, k) = IF k \in K THEN Rank(K, k - 1) + 1 ELSE Rank(K, k - 1)
    BY <2>1, RankFacts
  <2>6. Rank(K, k - 1) \in 0..(k - 1) /\ \A i \in 1..(k - 1) : Rank(K, i) <= Rank(K, k - 1)
    BY <2>1, RankFacts
  <2>7. CASE f[k - 1].port = p
    <3>1. k \notin K /\ g[k] = q /\ Rank(K, k) = Rank(K, k - 1)
      BY <1>k, <2>3, <2>4, <2>5, <2>7 DEF KeepOthers
    <3>2. \A i \in K : i <= k => i <= k - 1
      BY <1>2, <3>1
    <3>3. \A j \in Indices : j >= k => j >= k - 1
      BY <2>1, Sizes DEF Indices
    <3>4. Moved(g[k], k)
      BY <2>2, <3>1, <3>2, <3>3
    <3>5. QED
      BY <2>1, <3>4
  <2>8. CASE f[k - 1].port # p
    <3> DEFINE x == Rank(K, k - 1)
               h == [q.rd EXCEPT ![x] = f[k - 1]]
    <3>1. k \in K /\ Rank(K, k) = x + 1
      BY <1>k, <2>5, <2>8
    <3>2. g[k] = [rd |-> h, kept |-> x + 1]
      BY <2>2, <2>3, <2>4, <2>8 DEF KeepOthers
    <3>3. x \in Indices /\ x < k
      BY <2>1, <2>6, <1>2, Sizes DEF Indices
    <3>4. f[k - 1] \in Reading
      BY <2>1
    <3>5. h \in [Indices -> Reading] /\ h[x] = f[k - 1] /\ \A j \in Indices : j # x => h[j] = q.rd[j]
      BY <2>2, <3>3, <3>4
    <3>6. ASSUME NEW i \in K, i <= k PROVE h[Rank(K, i) - 1] = f[i - 1]
      <4>1. CASE i = k
        <5>1. Rank(K, i) - 1 = x
          BY <3>1, <3>3, <4>1, Sizes DEF Indices
        <5>2. QED
          BY <4>1, <5>1, <3>5
      <4>2. CASE i # k
        <5>1. i \in 1..(k - 1) /\ i \in Nat /\ i > 0
          BY <1>2, <3>6, <4>2
        <5>2. Rank(K, i) <= x /\ Rank(K, i) = Rank(K, i - 1) + 1 /\ Rank(K, i - 1) \in 0..(i - 1)
          BY <5>1, <2>6, RankFacts
        <5>3. Rank(K, i) - 1 \in Indices /\ Rank(K, i) - 1 # x
          BY <5>1, <5>2, <3>3, Sizes DEF Indices
        <5>4. q.rd[Rank(K, i) - 1] = f[i - 1]
          BY <2>2, <5>1
        <5>5. QED
          BY <3>5, <5>3, <5>4
      <4>3. QED
        BY <4>1, <4>2
    <3>7. ASSUME NEW j \in Indices, j >= k PROVE h[j] = f[j]
      <4>1. j # x /\ j >= k - 1
        BY <3>3, <3>7, <2>1, Sizes DEF Indices
      <4>2. QED
        BY <2>2, <3>5, <4>1
    <3>8. Moved(g[k], k)
      <4> HIDE DEF h, x
      <4>1. QED
        BY <3>1, <3>2, <3>5, <3>6, <3>7
    <3>9. QED
      BY <2>1, <3>8
  <2>9. QED
    BY <2>7, <2>8
<1>5. count \in S
  <2> HIDE DEF S
  <2>1. \A k \in 0..count : k \in S
    BY <1>2, <1>3, <1>4, Throughout
  <2>2. QED
    BY <1>2, <2>1
<1>6. \A i \in K : i <= count
  BY <1>2
<1>7. QED
  BY <1>1, <1>5, <1>6 DEF K

\* A ring that has been put at the start of the array.
LEMMA FromZero ==
  ASSUME NEW f \in [Indices -> Reading], NEW n \in 0..Cap
  PROVE  LET q == [rd |-> f, head |-> n % Cap, count |-> n]
         IN  /\ Good(q) /\ OrderOf(q) \in Seq(Reading) /\ Len(OrderOf(q)) = n
             /\ \A i \in 1..n : OrderOf(q)[i] = f[i - 1]
<1> DEFINE q == [rd |-> f, head |-> n % Cap, count |-> n]
<1>1. n % Cap = IF n < Cap THEN n ELSE 0
  <2>1. n \in 0..(2 * Cap - 1)
    BY Sizes
  <2>2. n < Cap \/ n - Cap = 0
    BY Sizes
  <2>3. QED
    BY <2>1, <2>2, Wraps
<1>2. q.rd = f /\ q.count = n /\ q.head = IF n < Cap THEN n ELSE 0
  BY <1>1
<1>3. n % Cap \in Indices
  <2>1. (IF n < Cap THEN n ELSE 0) \in Indices
    BY Sizes DEF Indices
  <2>2. QED
    BY <1>1, <2>1
<1>4. Good(q)
  BY <1>2, <1>3 DEF Good, Rings
<1> HIDE DEF q
<1>5. ASSUME NEW i \in 1..n PROVE Place(q, i) = i - 1
  <2>1. CASE n < Cap
    BY <1>2, <1>4, <2>1, PlaceFacts
  <2>2. CASE n = Cap
    <3>1. q.head = 0 /\ 0 + i - 1 = i - 1 /\ i - 1 < Cap
      BY <1>2, <2>2, Sizes
    <3>2. Place(q, i) = IF q.head + i - 1 < Cap THEN q.head + i - 1 ELSE q.head + i - 1 - Cap
      BY <1>2, <1>4, <2>2, PlaceFacts
    <3>3. QED
      BY <3>1, <3>2
  <2>3. QED
    BY <2>1, <2>2, Sizes
<1>6. OrderOf(q) \in Seq(Reading) /\ Len(OrderOf(q)) = n /\ \A i \in 1..n : OrderOf(q)[i] = f[i - 1]
  BY <1>2, <1>4, <1>5, OrderFacts
<1>7. QED
  BY <1>4, <1>6 DEF q

\* The state's own ring.
LEMMA OwnRing ==
  ASSUME TypeOK, RingOK
  PROVE  /\ Good(Ring) /\ InOrder \in Seq(Reading) /\ Len(InOrder) = count /\ count \in 0..Cap
         /\ \A i \in 1..count : InOrder[i] = rd[Place(Ring, i)]
         /\ rd \in [Indices -> Reading] /\ head \in Indices
<1>1. /\ Good(Ring) /\ Ring.count = count /\ count \in 0..Cap /\ Ring.rd = rd
      /\ rd \in [Indices -> Reading] /\ head \in Indices
  BY DEF Good, Rings, Ring, TypeOK, RingOK, Indices
<1>2. QED
  BY <1>1, OrderFacts DEF InOrder

\* A port's readings deleted, the others keep their order.
LEMMA WithoutPortFacts ==
  ASSUME TypeOK, RingOK, NEW p
  PROVE  LET K == {i \in 1..count : InOrder[i].port # p}
             q == WithoutPort(p)
         IN  /\ Good(q) /\ Len(OrderOf(q)) = Rank(K, count)
             /\ \A i \in K : OrderOf(q)[Rank(K, i)] = InOrder[i]
<1> DEFINE K == {i \in 1..count : InOrder[i].port # p}
           s == Start(count, head)
           f == IF s = 0 THEN rd ELSE Normalised(rd, s)
           c == Compacted(f, p)
<1>1. /\ count \in 0..Cap /\ head \in Indices /\ rd \in [Indices -> Reading] /\ Good(Ring)
      /\ \A i \in 1..count : InOrder[i] = rd[Place(Ring, i)]
      /\ Ring.count = count /\ Ring.head = head
  BY OwnRing DEF Ring
<1>2. s = IF count < Cap THEN 0 ELSE head
  BY DEF Start
<1>3. f \in [Indices -> Reading] /\ \A i \in 1..count : f[i - 1] = InOrder[i]
  <2>1. CASE s = 0
    <3>1. ASSUME NEW i \in 1..count PROVE Place(Ring, i) = i - 1
      <4>1. CASE count < Cap
        BY <4>1, <1>1, PlaceFacts
      <4>2. CASE count = Cap
        <5>1. Ring.head = 0 /\ 0 + i - 1 = i - 1 /\ i - 1 < Cap
          BY <1>1, <1>2, <2>1, <4>2, Sizes
        <5>2. Place(Ring, i) = IF Ring.head + i - 1 < Cap THEN Ring.head + i - 1
                               ELSE Ring.head + i - 1 - Cap
          BY <1>1, <4>2, PlaceFacts
        <5>3. QED
          BY <5>1, <5>2
      <4>3. QED
        BY <4>1, <4>2, <1>1, Sizes
    <3>2. f = rd
      BY <2>1
    <3>3. QED
      BY <1>1, <3>1, <3>2
  <2>2. CASE s # 0
    <3>1. count = Cap /\ s = head /\ head \in 1..(Cap - 1)
      BY <1>1, <1>2, <2>2, Sizes DEF Indices
    <3>2. f = Normalised(rd, head)
      BY <2>2, <3>1
    <3>3. /\ f \in [Indices -> Reading]
          /\ \A i \in Indices : f[i] = rd[IF head + i < Cap THEN head + i ELSE head + i - Cap]
      BY <1>1, <3>1, <3>2, Rotated
    <3> HIDE DEF f, s
    <3>4. ASSUME NEW i \in 1..count PROVE f[i - 1] = InOrder[i]
      <4>1. i - 1 \in Indices /\ head + (i - 1) = head + i - 1
        BY <3>1, Sizes DEF Indices
      <4>2. f[i - 1] = rd[IF head + (i - 1) < Cap THEN head + (i - 1) ELSE head + (i - 1) - Cap]
        BY <3>3, <4>1
      <4>3. Place(Ring, i) = IF head + i - 1 < Cap THEN head + i - 1 ELSE head + i - 1 - Cap
        BY <1>1, <3>1, PlaceFacts
      <4>4. QED
        BY <1>1, <4>1, <4>2, <4>3
    <3>5. QED
      BY <3>3, <3>4
  <2>3. QED
    BY <2>1, <2>2
<1> HIDE DEF f, s
<1>4. Others(f, p) = K
  BY <1>3 DEF Others
<1>5. /\ c.rd \in [Indices -> Reading] /\ c.kept = Rank(K, count)
      /\ \A i \in K : c.rd[Rank(K, i) - 1] = f[i - 1]
  <2> HIDE DEF K, c
  <2>1. /\ Compacted(f, p).rd \in [Indices -> Reading]
        /\ Compacted(f, p).kept = Rank(Others(f, p), count)
        /\ \A i \in Others(f, p) : Compacted(f, p).rd[Rank(Others(f, p), i) - 1] = f[i - 1]
    BY <1>1, <1>3, CompactedFacts
  <2>2. QED
    BY <1>4, <2>1 DEF c
<1>6. WithoutPort(p) = [rd |-> c.rd, head |-> c.kept % Cap, count |-> c.kept]
  BY DEF WithoutPort, f, s
<1> HIDE DEF c
<1>7. count \in Nat /\ K \subseteq 1..count
  BY <1>1, Sizes
<1>8. \A i \in K : InOrder[i] = f[i - 1]
  BY <1>3
<1> HIDE DEF K
<1>9. c.kept \in 0..Cap
  <2>1. Rank(K, count) \in 0..count
    BY <1>7, RankFacts
  <2>2. QED
    BY <1>1, <1>5, <2>1, Sizes
<1>10. /\ Good(WithoutPort(p)) /\ Len(OrderOf(WithoutPort(p))) = c.kept
       /\ \A i \in 1..c.kept : OrderOf(WithoutPort(p))[i] = c.rd[i - 1]
  BY <1>5, <1>6, <1>9, FromZero
<1>11. \A i \in K : Rank(K, i) \in 1..c.kept
  <2> SUFFICES ASSUME NEW i \in K PROVE Rank(K, i) \in 1..c.kept
    OBVIOUS
  <2>1. i \in 1..count /\ i \in Nat /\ i > 0 /\ i - 1 \in Nat
    BY <1>7
  <2>2. Rank(K, i) = Rank(K, i - 1) + 1 /\ Rank(K, i) <= Rank(K, count)
    BY <1>7, <2>1, RankFacts
  <2>3. Rank(K, i - 1) \in 0..(i - 1)
    BY <2>1, RankFacts
  <2>4. QED
    BY <1>5, <1>9, <2>2, <2>3, Sizes
<1>12. \A i \in K : OrderOf(WithoutPort(p))[Rank(K, i)] = InOrder[i]
  BY <1>5, <1>8, <1>10, <1>11
<1>13. QED
  BY <1>5, <1>10, <1>12 DEF K

\* What a reset brings back is what there was.
LEMMA RestoredFacts ==
  ASSUME TypeOK, RingOK
  PROVE  Good(Restored) /\ OrderOf(Restored) = InOrder
<1> DEFINE f == [i \in DOMAIN rd |-> IF i < count THEN InOrder[i + 1] ELSE NoReading]
<1>1. InOrder \in Seq(Reading) /\ Len(InOrder) = count /\ count \in 0..Cap /\ rd \in [Indices -> Reading]
  BY OwnRing
<1>2. DOMAIN rd = Indices /\ NoReading \in Reading
  BY <1>1 DEF NoReading, Reading
<1>3. f \in [Indices -> Reading]
  <2>1. \A i \in Indices : i < count => i + 1 \in 1..count
    BY <1>1, Sizes DEF Indices
  <2>2. \A i \in Indices : (IF i < count THEN InOrder[i + 1] ELSE NoReading) \in Reading
    BY <1>1, <1>2, <2>1
  <2>3. QED
    BY <1>2, <2>2
<1>4. \A i \in 1..count : f[i - 1] = InOrder[i]
  <2>1. \A i \in 1..count : i - 1 \in Indices /\ i - 1 < count /\ (i - 1) + 1 = i
    BY <1>1, Sizes DEF Indices
  <2>2. QED
    BY <1>2, <2>1
<1>5. Restored = [rd |-> f, head |-> count % Cap, count |-> count]
  BY DEF Restored
<1> HIDE DEF f
<1>6. /\ Good(Restored) /\ OrderOf(Restored) \in Seq(Reading) /\ Len(OrderOf(Restored)) = count
      /\ \A i \in 1..count : OrderOf(Restored)[i] = f[i - 1]
  BY <1>1, <1>3, <1>5, FromZero
<1>7. OrderOf(Restored) = InOrder
  <2> DEFINE a == OrderOf(Restored)
             b == InOrder
  <2>1. a \in Seq(Reading) /\ b \in Seq(Reading) /\ Len(a) = Len(b) /\ \A i \in 1..Len(a) : a[i] = b[i]
    BY <1>1, <1>4, <1>6
  <2> HIDE DEF a, b
  <2>2. a = b
    BY <2>1
  <2>3. QED
    BY <2>2 DEF a, b
<1>8. QED
  BY <1>6, <1>7


-----------------------------------------------------------------------------
(* Hours, and the largest and the smallest of a set.                         *)

\* An hour's readings lie between its full hour and the next.
LEMMA HourFacts ==
  ASSUME NEW t \in Nat
  PROVE  /\ HourOf(t) \in Nat /\ HourOf(t) * Hour <= t /\ t < (HourOf(t) + 1) * Hour
         /\ t = HourOf(t) * Hour + (t % Hour)
BY Sizes DEF HourOf

LEMMA HoursInOrder ==
  ASSUME NEW a \in Nat, NEW b \in Nat, a <= b
  PROVE  HourOf(a) <= HourOf(b)
<1>1. Hour \in Nat /\ Hour > 0
  BY Sizes
<1> DEFINE x == HourOf(a)
           y == HourOf(b)
<1>2. x \in Nat /\ y \in Nat /\ x * Hour <= a /\ b < (y + 1) * Hour
  BY HourFacts
<1> HIDE DEF x, y
<1>3. ASSUME x >= y + 1 PROVE FALSE
  <2>1. x * Hour >= (y + 1) * Hour
    BY <1>1, <1>2, <1>3
  <2> DEFINE c == x * Hour
             d == (y + 1) * Hour
  <2>2. c \in Nat /\ d \in Nat /\ c >= d /\ c <= a /\ b < d
    BY <1>1, <1>2, <2>1
  <2> HIDE DEF c, d
  <2>3. QED
    BY <2>2
<1>4. x <= y
  BY <1>2, <1>3
<1>5. QED
  BY <1>4 DEF x, y

\* A time at or after an hour's beginning is of that hour or a later one.
LEMMA HourOfBeginning ==
  ASSUME NEW h \in Nat, NEW t \in Nat
  PROVE  h * Hour <= t <=> h <= HourOf(t)
<1>1. Hour \in Nat /\ Hour > 0
  BY Sizes
<1> DEFINE x == HourOf(t)
           c == x * Hour
           d == h * Hour
           e == (x + 1) * Hour
<1>2. x \in Nat /\ c <= t /\ t < e
  BY HourFacts
<1> HIDE DEF x
<1>3. h <= x => d <= c
  BY <1>1, <1>2
<1>4. h >= x + 1 => d >= e
  BY <1>1, <1>2
<1>5. c \in Nat /\ d \in Nat /\ e \in Nat
  BY <1>1, <1>2
<1> HIDE DEF c, d, e
<1>6. d <= t <=> h <= x
  BY <1>2, <1>3, <1>4, <1>5
<1>7. QED
  BY <1>6 DEF d, x

LEMMA Extremes ==
  ASSUME NEW S \in SUBSET Int, IsFiniteSet(S), S # {}
  PROVE  /\ Max(S) \in S /\ \A y \in S : y <= Max(S)
         /\ Min(S) \in S /\ \A y \in S : Min(S) <= y
<1> DEFINE Has(T) == (\E x \in T : \A y \in T : x >= y) /\ (\E x \in T : \A y \in T : x <= y)
           N == {n \in Nat : \A T \in SUBSET Int : IsFiniteSet(T) /\ Cardinality(T) = n /\ T # {} => Has(T)}
<1>1. 0 \in N
  BY FS_EmptySet
<1>2. ASSUME NEW n \in Nat, n \in N PROVE n + 1 \in N
  <2> SUFFICES ASSUME NEW T \in SUBSET Int, IsFiniteSet(T), Cardinality(T) = n + 1, T # {} PROVE Has(T)
    BY <1>2
  <2>1. PICK x : x \in T
    OBVIOUS
  <2> DEFINE U == T \ {x}
  <2>2. IsFiniteSet(U) /\ Cardinality(U) = n
    <3>1. IsFiniteSet(U) /\ Cardinality(U) = Cardinality(T) - 1
      BY <2>1, FS_RemoveElement
    <3> HIDE DEF U
    <3>2. QED
      BY <3>1
  <2>3. U \in SUBSET Int /\ T = U \cup {x} /\ x \in Int
    BY <2>1
  <2> HIDE DEF U
  <2>4. CASE U = {}
    BY <2>3, <2>4
  <2>5. CASE U # {}
    <3>1. Has(U)
      BY <1>2, <2>2, <2>3, <2>5
    <3>2. PICK a \in U : \A y \in U : a >= y
      BY <3>1
    <3>3. PICK b \in U : \A y \in U : b <= y
      BY <3>1
    <3>4. \E z \in T : \A y \in T : z >= y
      <4>1. CASE x >= a
        BY <2>3, <3>2, <4>1
      <4>2. CASE ~(x >= a)
        BY <2>3, <3>2, <4>2
      <4>3. QED
        BY <4>1, <4>2
    <3>5. \E z \in T : \A y \in T : z <= y
      <4>1. CASE x <= b
        BY <2>3, <3>3, <4>1
      <4>2. CASE ~(x <= b)
        BY <2>3, <3>3, <4>2
      <4>3. QED
        BY <4>1, <4>2
    <3>6. QED
      BY <3>4, <3>5
  <2>6. QED
    BY <2>4, <2>5
<1>3. \A n \in Nat : n \in N
  <2> HIDE DEF N
  <2>1. QED
    BY <1>1, <1>2, AllOfNat
<1>4. Has(S)
  BY <1>3, FS_CardinalityType
<1>5. QED
  BY <1>4 DEF Max, Min

-----------------------------------------------------------------------------
(* The buckets of an aggregation.                                            *)

Bucket == [hour : Nat, port : Nat, depth : Nat, of : SUBSET Nat]

\* r belongs to bucket b; r is asked for.
Holds(b, r) == b.hour = HourOf(r.ts) /\ b.port = r.port /\ b.depth = r.depth
Asked(r, from, to) == from <= r.ts /\ r.ts < to

InTime(s) == \A i, j \in 1..Len(s) : i <= j => s[i].ts <= s[j].ts

\* The buckets B are of readings asked for, one for each hour, port and depth.
Sound(B, s, k, from, to) ==
  /\ B \in Seq(Bucket)
  /\ \A i, j \in 1..Len(B) :
       B[i].hour = B[j].hour /\ B[i].port = B[j].port /\ B[i].depth = B[j].depth => i = j
  /\ \A j \in 1..Len(B) : B[j].of # {}
  /\ \A j \in 1..Len(B) : \A t \in B[j].of :
       \E i \in 1..k : s[i].ts = t /\ Holds(B[j], s[i]) /\ Asked(s[i], from, to)

\* Those of the readings that have no bucket found no room for one.
Complete(B, s, k, from, to, room) ==
  \A i \in 1..k : Asked(s[i], from, to) =>
    \/ \E j \in 1..Len(B) : Holds(B[j], s[i]) /\ s[i].ts \in B[j].of
    \/ /\ Len(B) = room /\ \A j \in 1..Len(B) : ~Holds(B[j], s[i])
       /\ InTime(s) => \A j \in 1..Len(B) : B[j].hour <= HourOf(s[i].ts)

\* The buckets of readings in time are in the order of their hours.
Ordered(B) == \A i, j \in 1..Len(B) : i <= j => B[i].hour <= B[j].hour

Aggregated(B, s, k, from, to, room) ==
  /\ Sound(B, s, k, from, to) /\ Len(B) <= room /\ Complete(B, s, k, from, to, room)
  /\ InTime(s) => Ordered(B)

\* A bucket's hour is that of one of the readings so far.
LEMMA HoursSoFar ==
  ASSUME NEW s \in Seq(Reading), NEW k \in 1..Len(s), InTime(s), NEW B, NEW from, NEW to,
         Sound(B, s, k - 1, from, to)
  PROVE  \A j \in 1..Len(B) : B[j].hour <= HourOf(s[k].ts)
<1> SUFFICES ASSUME NEW j \in 1..Len(B) PROVE B[j].hour <= HourOf(s[k].ts)
  OBVIOUS
<1>1. PICK t \in B[j].of : TRUE
  BY DEF Sound
<1>2. PICK i \in 1..(k - 1) : B[j].hour = HourOf(s[i].ts)
  BY <1>1 DEF Sound, Holds
<1>3. i \in 1..Len(s) /\ i <= k
  OBVIOUS
<1>4. s[i].ts \in Nat /\ s[k].ts \in Nat /\ s[i].ts <= s[k].ts
  <2>1. s[i] \in Reading /\ s[k] \in Reading
    BY <1>3
  <2>2. QED
    BY <1>3, <2>1 DEF Reading, InTime
<1>5. QED
  BY <1>2, <1>4, HoursInOrder

\* What a reading that goes into a bucket changes.
Grown(C, B, r) ==
  /\ C \in Seq(Bucket) /\ Len(C) = Len(B)
  /\ \A j \in 1..Len(B) :
       /\ C[j].hour = B[j].hour /\ C[j].port = B[j].port /\ C[j].depth = B[j].depth
       /\ C[j].of = IF Holds(B[j], r) THEN B[j].of \cup {r.ts} ELSE B[j].of

LEMMA IntoBucket ==
  ASSUME NEW B \in Seq(Bucket), NEW r \in Reading, NEW from \in Int, NEW to \in Int, NEW room,
         Asked(r, from, to), \E j \in 1..Len(B) : Holds(B[j], r)
  PROVE  Grown(Into(from, to, room, B, r), B, r)
<1> DEFINE mine == {k \in DOMAIN B : B[k].hour = HourOf(r.ts) /\ B[k].port = r.port /\ B[k].depth = r.depth}
           x(k) == IF k \in mine THEN [B[k] EXCEPT !.of = @ \cup {r.ts}] ELSE B[k]
           C == [k \in 1..Len(B) |-> x(k)]
<1>1. DOMAIN B = 1..Len(B) /\ r.ts \in Nat /\ Len(B) \in Nat
  BY DEF Reading
<1>2. mine # {} /\ \A k \in 1..Len(B) : k \in mine <=> Holds(B[k], r)
  BY <1>1 DEF Holds
<1>3. ~(r.ts < from \/ r.ts >= to)
  BY <1>1 DEF Asked
<1>4. Into(from, to, room, B, r) = C
  BY <1>1, <1>2, <1>3 DEF Into
<1>5. ASSUME NEW k \in 1..Len(B)
      PROVE  /\ x(k) \in Bucket
             /\ x(k).hour = B[k].hour /\ x(k).port = B[k].port /\ x(k).depth = B[k].depth
             /\ x(k).of = IF Holds(B[k], r) THEN B[k].of \cup {r.ts} ELSE B[k].of
  <2>1. B[k] \in Bucket
    OBVIOUS
  <2>2. CASE k \in mine
    BY <1>1, <1>2, <2>1, <2>2 DEF Bucket
  <2>3. CASE k \notin mine
    BY <1>1, <1>2, <2>1, <2>3 DEF Bucket
  <2>4. QED
    BY <2>2, <2>3
<1>6. C \in Seq(Bucket) /\ Len(C) = Len(B) /\ \A k \in 1..Len(B) : C[k] = x(k)
  <2>1. \A k \in 1..Len(B) : x(k) \in Bucket
    BY <1>5
  <2> HIDE DEF mine, x
  <2>2. C \in [1..Len(B) -> Bucket]
    BY <2>1
  <2>3. QED
    BY <1>1, <2>2
<1> HIDE DEF C, mine, x
<1>7. Grown(C, B, r)
  BY <1>5, <1>6 DEF Grown
<1>8. QED
  BY <1>4, <1>7

LEMMA IntoStep ==
  ASSUME NEW s \in Seq(Reading), NEW k \in 1..Len(s), NEW from \in Int, NEW to \in Int,
         NEW room \in Nat, NEW B, Aggregated(B, s, k - 1, from, to, room)
  PROVE  Aggregated(Into(from, to, room, B, s[k]), s, k, from, to, room)
<1> DEFINE r == s[k]
           C == Into(from, to, room, B, r)
<1>1. /\ r \in Reading /\ r.ts \in Nat /\ r.port \in Nat /\ r.depth \in Nat /\ HourOf(r.ts) \in Nat
  <2>1. r \in Reading
    OBVIOUS
  <2> HIDE DEF r
  <2>2. r.ts \in Nat /\ r.port \in Nat /\ r.depth \in Nat
    BY <2>1 DEF Reading
  <2>3. QED
    BY <2>1, <2>2, HourFacts
<1>2. /\ B \in Seq(Bucket) /\ Len(B) \in Nat /\ Len(B) <= room /\ DOMAIN B = 1..Len(B)
  BY DEF Aggregated, Sound
<1>l. Len(B) \in Nat /\ Len(B) <= room
  BY <1>2
<1>3. \A i \in 1..k : i = k \/ i \in 1..(k - 1)
  OBVIOUS
<1>4. \A i \in 1..(k - 1) : i \in 1..k
  OBVIOUS
<1>o. InTime(s) => \A j \in 1..Len(B) : B[j].hour <= HourOf(r.ts)
  BY HoursSoFar DEF Aggregated
<1>5. CASE ~Asked(r, from, to)
  <2>1. C = B
    BY <1>1, <1>5 DEF Into, Asked
  <2>2. Sound(B, s, k, from, to)
    BY <1>4 DEF Aggregated, Sound
  <2>3. Complete(B, s, k, from, to, room)
    BY <1>3, <1>5 DEF Aggregated, Complete
  <2>4. QED
    BY <2>1, <2>2, <2>3 DEF Aggregated
<1>6. CASE Asked(r, from, to) /\ \E j \in 1..Len(B) : Holds(B[j], r)
  <2>1. /\ C \in Seq(Bucket) /\ Len(C) = Len(B)
        /\ \A j \in 1..Len(B) :
             /\ C[j].hour = B[j].hour /\ C[j].port = B[j].port /\ C[j].depth = B[j].depth
             /\ C[j].of = IF Holds(B[j], r) THEN B[j].of \cup {r.ts} ELSE B[j].of
    <3> HIDE DEF r
    <3>1. Grown(C, B, r)
      BY <1>1, <1>2, <1>6, IntoBucket
    <3>2. QED
      BY <3>1 DEF Grown
  <2>r. r = s[k]
    OBVIOUS
  <2> HIDE DEF C, r
  <2>2. \A x : \A j \in 1..Len(B) : Holds(C[j], x) <=> Holds(B[j], x)
    BY <2>1 DEF Holds
  <2>3. Sound(C, s, k, from, to)
    <3>1. \A i, j \in 1..Len(C) :
            C[i].hour = C[j].hour /\ C[i].port = C[j].port /\ C[i].depth = C[j].depth => i = j
      BY <2>1 DEF Aggregated, Sound
    <3>2. \A j \in 1..Len(C) : C[j].of # {}
      BY <2>1 DEF Aggregated, Sound
    <3>3. ASSUME NEW j \in 1..Len(C), NEW t \in C[j].of
          PROVE  \E i \in 1..k : s[i].ts = t /\ Holds(C[j], s[i]) /\ Asked(s[i], from, to)
      <4>1. CASE t \in B[j].of
        <5>1. PICK i \in 1..(k - 1) : s[i].ts = t /\ Holds(B[j], s[i]) /\ Asked(s[i], from, to)
          BY <2>1, <3>3, <4>1 DEF Aggregated, Sound
        <5>2. QED
          BY <1>4, <2>1, <2>2, <3>3, <5>1
      <4>2. CASE t \notin B[j].of
        <5>1. t = r.ts /\ Holds(B[j], r)
          BY <2>1, <3>3, <4>2
        <5>2. k \in 1..k
          OBVIOUS
        <5>3. QED
          BY <1>6, <2>r, <2>1, <2>2, <3>3, <5>1, <5>2
      <4>3. QED
        BY <4>1, <4>2
    <3>4. QED
      BY <2>1, <3>1, <3>2, <3>3 DEF Sound
  <2>4. Complete(C, s, k, from, to, room)
    <3> SUFFICES ASSUME NEW i \in 1..k, Asked(s[i], from, to)
                 PROVE  \/ \E j \in 1..Len(C) : Holds(C[j], s[i]) /\ s[i].ts \in C[j].of
                        \/ /\ Len(C) = room /\ \A j \in 1..Len(C) : ~Holds(C[j], s[i])
                           /\ InTime(s) => \A j \in 1..Len(C) : C[j].hour <= HourOf(s[i].ts)
      BY DEF Complete
    <3>1. CASE i = k
      BY <1>6, <2>r, <2>1, <2>2, <3>1
    <3>2. CASE i # k
      <4>1. \/ \E j \in 1..Len(B) : Holds(B[j], s[i]) /\ s[i].ts \in B[j].of
            \/ /\ Len(B) = room /\ \A j \in 1..Len(B) : ~Holds(B[j], s[i])
               /\ InTime(s) => \A j \in 1..Len(B) : B[j].hour <= HourOf(s[i].ts)
        BY <1>3, <3>2 DEF Aggregated, Complete
      <4>2. QED
        BY <4>1, <2>1, <2>2
    <3>3. QED
      BY <3>1, <3>2
  <2>5. InTime(s) => Ordered(C)
    BY <2>1 DEF Aggregated, Ordered
  <2>6. QED
    BY <1>2, <2>1, <2>3, <2>4, <2>5 DEF Aggregated, C, r
<1>7. CASE Asked(r, from, to) /\ ~(\E j \in 1..Len(B) : Holds(B[j], r))
  <2>m. {j \in DOMAIN B : B[j].hour = HourOf(r.ts) /\ B[j].port = r.port /\ B[j].depth = r.depth} = {}
    BY <1>2, <1>7 DEF Holds
  <2>n. ~(r.ts < from \/ r.ts >= to)
    BY <1>1, <1>7 DEF Asked
  <2>1. CASE Len(B) >= room
    <3>1. C = B
      BY <2>m, <2>n, <2>1 DEF Into
    <3>2. Sound(B, s, k, from, to)
      BY <1>4 DEF Aggregated, Sound
    <3>3. Complete(B, s, k, from, to, room)
      <4>1. Len(B) = room
        <5> HIDE DEF C, r
        <5>1. QED
          BY <1>l, <2>1
      <4> HIDE DEF C
      <4>2. QED
        BY <1>3, <1>7, <1>o, <4>1 DEF Aggregated, Complete
    <3>4. QED
      BY <3>1, <3>2, <3>3 DEF Aggregated
  <2>2. CASE ~(Len(B) >= room)
    <3> DEFINE b == [hour |-> HourOf(r.ts), port |-> r.port, depth |-> r.depth, of |-> {r.ts}]
               n == Len(B)
    <3>1. C = Append(B, b)
      BY <2>m, <2>n, <2>2 DEF Into
    <3>2. b \in Bucket /\ Holds(b, r) /\ b.of = {r.ts} /\ b.hour = HourOf(r.ts)
      BY <1>1 DEF Bucket, Holds
    <3>3. \A x : Holds(b, x) <=> HourOf(r.ts) = HourOf(x.ts) /\ r.port = x.port /\ r.depth = x.depth
      BY DEF Holds
    <3>k. \A j \in 1..n : ~(B[j].hour = b.hour /\ B[j].port = b.port /\ B[j].depth = b.depth)
      BY <1>7 DEF Holds
    <3>r. r = s[k] /\ k \in 1..k /\ Asked(r, from, to)
      BY <1>7
    <3> HIDE DEF b
    <3>4. /\ C \in Seq(Bucket) /\ Len(C) = n + 1 /\ C[n + 1] = b
          /\ \A j \in 1..n : C[j] = B[j]
      BY <1>2, <3>1, <3>2
    <3> HIDE DEF C, r
    <3>5. n \in Nat /\ (\A j \in 1..(n + 1) : j \in 1..n \/ j = n + 1) /\ \A j \in 1..n : j \in 1..(n + 1) /\ j < n + 1
      BY <1>2
    <3>a. n + 1 \in 1..(n + 1)
      BY <3>5
    <3>b. n = Len(B)
      OBVIOUS
    <3> HIDE DEF n
    <3>6. Sound(C, s, k, from, to)
      <4>1. ASSUME NEW i \in 1..Len(C), NEW j \in 1..Len(C),
                   C[i].hour = C[j].hour /\ C[i].port = C[j].port /\ C[i].depth = C[j].depth
            PROVE  i = j
        <5>1. CASE i \in 1..n /\ j \in 1..n
          BY <3>4, <3>b, <4>1, <5>1 DEF Aggregated, Sound
        <5>2. CASE i = n + 1 /\ j \in 1..n
          BY <3>4, <3>k, <4>1, <5>2
        <5>3. CASE j = n + 1 /\ i \in 1..n
          BY <3>4, <3>k, <4>1, <5>3
        <5>4. QED
          BY <3>4, <3>5, <5>1, <5>2, <5>3
      <4>2. ASSUME NEW j \in 1..Len(C)
            PROVE  /\ C[j].of # {}
                   /\ \A t \in C[j].of :
                        \E i \in 1..k : s[i].ts = t /\ Holds(C[j], s[i]) /\ Asked(s[i], from, to)
        <5>1. CASE j \in 1..n
          BY <1>4, <3>4, <3>b, <5>1 DEF Aggregated, Sound
        <5>2. CASE j = n + 1
          BY <3>2, <3>4, <3>r, <5>2
        <5>3. QED
          BY <3>4, <3>5, <5>1, <5>2
      <4>3. QED
        BY <3>4, <4>1, <4>2 DEF Sound
    <3>7. Complete(C, s, k, from, to, room)
      <4> SUFFICES ASSUME NEW i \in 1..k, Asked(s[i], from, to)
                   PROVE  \E j \in 1..Len(C) : Holds(C[j], s[i]) /\ s[i].ts \in C[j].of
        BY DEF Complete
      <4>1. CASE i = k
        BY <3>2, <3>4, <3>r, <3>a, <4>1
      <4>2. CASE i # k
        <5>1. n # room
          BY <1>2, <2>2, <3>b
        <5>2. PICK j \in 1..n : Holds(B[j], s[i]) /\ s[i].ts \in B[j].of
          BY <1>3, <3>b, <4>2, <5>1 DEF Aggregated, Complete
        <5>3. QED
          BY <3>4, <3>5, <5>2
      <4>3. QED
        BY <4>1, <4>2
    <3>8. ASSUME InTime(s) PROVE Ordered(C)
      <4> SUFFICES ASSUME NEW i \in 1..Len(C), NEW j \in 1..Len(C), i <= j
                   PROVE  C[i].hour <= C[j].hour
        BY DEF Ordered
      <4>1. CASE j \in 1..n
        <5>1. i \in 1..n
          BY <3>4, <3>5, <4>1
        <5>2. QED
          BY <3>4, <3>8, <3>b, <4>1, <5>1 DEF Aggregated, Ordered
      <4>2. CASE j = n + 1 /\ i \in 1..n
        BY <1>o, <3>2, <3>4, <3>8, <3>b, <4>2
      <4>3. CASE j = n + 1 /\ i = n + 1
        <5>1. C[i].hour = C[j].hour /\ C[i].hour \in Nat
          BY <1>1, <3>2, <3>4, <4>3
        <5>2. QED
          BY <5>1
      <4>4. QED
        BY <3>4, <3>5, <4>1, <4>2, <4>3
    <3>9. Len(C) <= room
      BY <1>2, <2>2, <3>4, <3>b
    <3>10. QED
      BY <3>6, <3>7, <3>8, <3>9 DEF Aggregated, C, r
  <2>3. QED
    BY <2>1, <2>2
<1>8. QED
  BY <1>5, <1>6, <1>7

LEMMA IntoType ==
  ASSUME NEW B \in Seq(Bucket), NEW r \in Reading, NEW from \in Int, NEW to \in Int, NEW room
  PROVE  Into(from, to, room, B, r) \in Seq(Bucket)
<1> DEFINE C == Into(from, to, room, B, r)
           b == [hour |-> HourOf(r.ts), port |-> r.port, depth |-> r.depth, of |-> {r.ts}]
<1>1. DOMAIN B = 1..Len(B) /\ r.ts \in Nat /\ r.port \in Nat /\ r.depth \in Nat
  BY DEF Reading
<1>2. CASE ~Asked(r, from, to)
  <2>a. r.ts < from \/ r.ts >= to
    BY <1>1, <1>2 DEF Asked
  <2>1. C = B
    BY <2>a DEF Into
  <2>2. QED
    BY <2>1
<1>3. CASE Asked(r, from, to) /\ \E j \in 1..Len(B) : Holds(B[j], r)
  BY <1>3, IntoBucket DEF Grown
<1>4. CASE Asked(r, from, to) /\ ~(\E j \in 1..Len(B) : Holds(B[j], r))
  <2>1. {j \in DOMAIN B : B[j].hour = HourOf(r.ts) /\ B[j].port = r.port /\ B[j].depth = r.depth} = {}
    BY <1>1, <1>4 DEF Holds
  <2>2. ~(r.ts < from \/ r.ts >= to)
    BY <1>1, <1>4 DEF Asked
  <2>3. C = B \/ C = Append(B, b)
    BY <2>1, <2>2 DEF Into
  <2>4. b \in Bucket
    BY <1>1, HourFacts DEF Bucket
  <2> HIDE DEF C, b
  <2>5. C \in Seq(Bucket)
    BY <2>3, <2>4
  <2>6. QED
    BY <2>5 DEF C
<1>5. QED
  BY <1>2, <1>3, <1>4

\* The loop that sorts the readings into buckets.
IsAggregating(g, s, from, to, room) ==
  g = [i \in 0..Len(s) |-> IF i = 0 THEN <<>> ELSE Into(from, to, room, g[i - 1], s[i])]

LEMMA AggregatingRuns ==
  ASSUME NEW s \in Seq(Reading), NEW from \in Int, NEW to \in Int, NEW room
  PROVE  \E g : /\ Aggregate(s, from, to, room) = g[Len(s)] /\ g[0] = <<>>
                /\ \A i \in 1..Len(s) : g[i] = Into(from, to, room, g[i - 1], s[i])
<1> DEFINE X == Seq(Bucket)
           n == Len(s)
           F == [i \in 1..n |-> [x \in X |-> Into(from, to, room, x, s[i])]]
           loop == CHOOSE g : IsAggregating(g, s, from, to, room)
<1>1. n \in Nat /\ <<>> \in X
  OBVIOUS
<1>2. \A i \in 1..n, x \in X : Into(from, to, room, x, s[i]) \in X
  <2> SUFFICES ASSUME NEW i \in 1..n, NEW x \in X PROVE Into(from, to, room, x, s[i]) \in X
    OBVIOUS
  <2>1. s[i] \in Reading
    OBVIOUS
  <2>2. QED
    BY <2>1, IntoType
<1> HIDE DEF X
<1>3. F \in [1..n -> [X -> X]]
  BY <1>2
<1>4. \E g : IsAggregating(g, s, from, to, room)
  <2>1. PICK g \in [0..n -> X] : Runs(g, n, <<>>, F)
    <3> HIDE DEF F, X, n
    <3>1. QED
      BY <1>1, <1>3, LoopRuns
  <2>2. ASSUME NEW i \in 0..n
        PROVE  g[i] = IF i = 0 THEN <<>> ELSE Into(from, to, room, g[i - 1], s[i])
    <3>1. CASE i = 0
      BY <2>1, <3>1 DEF Runs
    <3>2. CASE i # 0
      <4>1. i \in 1..n /\ i - 1 \in 0..n
        BY <3>2, <1>1
      <4>2. g[i] = F[i][g[i - 1]] /\ g[i - 1] \in X
        BY <2>1, <4>1 DEF Runs
      <4>3. F[i][g[i - 1]] = Into(from, to, room, g[i - 1], s[i])
        BY <4>1, <4>2
      <4>4. QED
        BY <3>2, <4>2, <4>3
    <3>3. QED
      BY <3>1, <3>2
  <2>3. g = [i \in 0..n |-> IF i = 0 THEN <<>> ELSE Into(from, to, room, g[i - 1], s[i])]
    BY <2>1, <2>2
  <2>4. QED
    BY <2>3 DEF IsAggregating
<1>5. IsAggregating(loop, s, from, to, room)
  BY <1>4
<1>6. Aggregate(s, from, to, room) = loop[Len(s)]
  BY DEF Aggregate, IsAggregating
<1> HIDE DEF loop
<1>7. loop[0] = <<>>
  BY <1>1, <1>5 DEF IsAggregating
<1>8. \A i \in 1..Len(s) : loop[i] = Into(from, to, room, loop[i - 1], s[i])
  <2>1. \A i \in 1..Len(s) : i \in 0..Len(s) /\ i # 0
    BY <1>1
  <2>2. QED
    BY <1>5, <2>1 DEF IsAggregating
<1>9. QED
  BY <1>6, <1>7, <1>8

LEMMA AggregateFacts ==
  ASSUME NEW s \in Seq(Reading), NEW from \in Int, NEW to \in Int, NEW room \in Nat
  PROVE  Aggregated(Aggregate(s, from, to, room), s, Len(s), from, to, room)
<1>1. PICK g : /\ Aggregate(s, from, to, room) = g[Len(s)] /\ g[0] = <<>>
               /\ \A i \in 1..Len(s) : g[i] = Into(from, to, room, g[i - 1], s[i])
  BY AggregatingRuns
<1> DEFINE n == Len(s)
           S == {k \in 0..n : Aggregated(g[k], s, k, from, to, room)}
<1>2. n \in Nat
  OBVIOUS
<1>3. 0 \in S
  <2> DEFINE e == <<>>
  <2>1. e \in Seq(Bucket) /\ Len(e) = 0 /\ \A j : j \notin 1..0
    OBVIOUS
  <2> HIDE DEF e
  <2>2. Aggregated(e, s, 0, from, to, room)
    BY <2>1 DEF Aggregated, Sound, Complete, Ordered
  <2>3. g[0] = e
    BY <1>1 DEF e
  <2>4. QED
    BY <1>2, <2>2, <2>3
<1>4. ASSUME NEW k \in 1..n, k - 1 \in S PROVE k \in S
  <2>1. Aggregated(g[k - 1], s, k - 1, from, to, room)
    BY <1>4
  <2>2. Aggregated(Into(from, to, room, g[k - 1], s[k]), s, k, from, to, room)
    BY <2>1, IntoStep
  <2>3. QED
    BY <1>1, <2>2
<1>5. n \in S
  <2> HIDE DEF S, n
  <2>1. \A k \in 0..n : k \in S
    BY <1>2, <1>3, <1>4, Throughout
  <2>2. QED
    BY <1>2, <2>1
<1>6. QED
  BY <1>1, <1>5

-----------------------------------------------------------------------------
(* The records of a SOIL frame.                                              *)

Record == [hour : Nat, of : [Soil -> SUBSET Nat]]

\* One bucket only for each hour and depth of soil.
OnePort(A) ==
  \A i, j \in 1..Len(A) :
    A[i].hour = A[j].hour /\ A[i].depth = A[j].depth /\ A[i].depth \in Soil => i = j

\* Records for the hours of the first k buckets, one for each; they hold what
\* the buckets do, save of the last hour there was room for and those after it.
Recorded(R, A, k) ==
  /\ R \in Seq(Record)
  /\ \A i, j \in 1..Len(R) : R[i].hour = R[j].hour => i = j
  /\ \A i \in 1..Len(R) : \E l \in 1..k : R[i].hour = A[l].hour
  /\ OnePort(A) /\ Ordered(A) =>
       \A l \in 1..k :
         \/ \E i \in 1..Len(R) :
              R[i].hour = A[l].hour /\ (A[l].depth \in Soil => R[i].of[A[l].depth] = A[l].of)
         \/ Len(R) >= RecsMax /\ \A i \in 1..Len(R) : R[i].hour <= A[l].hour

\* The records with one for b's hour among them.
With(R, b) == IF \E k \in DOMAIN R : R[k].hour = b.hour THEN R
              ELSE Append(R, [hour |-> b.hour, of |-> [dep \in Soil |-> {}]])

\* W becomes C when b is merged into it.
Merged(C, W, b) ==
  /\ C \in Seq(Record) /\ Len(C) = Len(W)
  /\ \A i \in 1..Len(W) :
       /\ C[i].hour = W[i].hour
       /\ C[i].of = IF W[i].hour = b.hour /\ b.depth \in Soil
                    THEN [W[i].of EXCEPT ![b.depth] = b.of] ELSE W[i].of

LEMMA WithFacts ==
  ASSUME NEW R \in Seq(Record), NEW b \in Bucket
  PROVE  /\ With(R, b) \in Seq(Record)
         /\ Len(With(R, b)) >= Len(R) /\ \A i \in 1..Len(R) : With(R, b)[i] = R[i]
         /\ \E i \in 1..Len(With(R, b)) : With(R, b)[i].hour = b.hour
         /\ \A i \in 1..Len(With(R, b)) : i \in 1..Len(R) \/ With(R, b)[i].hour = b.hour
         /\ (\A i, j \in 1..Len(R) : R[i].hour = R[j].hour => i = j) =>
              \A i, j \in 1..Len(With(R, b)) : With(R, b)[i].hour = With(R, b)[j].hour => i = j
<1> DEFINE e == [hour |-> b.hour, of |-> [dep \in Soil |-> {}]]
           W == With(R, b)
           n == Len(R)
<1>1. DOMAIN R = 1..n /\ n \in Nat
  OBVIOUS
<1>2. e \in Record /\ e.hour = b.hour
  BY DEF Bucket, Record
<1>3. CASE \E k \in 1..n : R[k].hour = b.hour
  <2>1. W = R
    BY <1>1, <1>3 DEF With
  <2>2. n >= n
    BY <1>1
  <2> HIDE DEF W
  <2>3. QED
    BY <1>3, <2>1, <2>2 DEF W
<1>4. CASE ~(\E k \in 1..n : R[k].hour = b.hour)
  <2>1. W = Append(R, e)
    BY <1>1, <1>4 DEF With
  <2> HIDE DEF W, e
  <2>2. W \in Seq(Record) /\ Len(W) = n + 1 /\ W[n + 1] = e /\ \A i \in 1..n : W[i] = R[i]
    BY <1>1, <1>2, <2>1
  <2> HIDE DEF n
  <2>3. n + 1 >= n /\ n + 1 \in 1..(n + 1) /\ \A i \in 1..(n + 1) : i \in 1..n \/ i = n + 1
    BY <1>1
  <2>4. (\A i, j \in 1..n : R[i].hour = R[j].hour => i = j) =>
          \A i, j \in 1..Len(W) : W[i].hour = W[j].hour => i = j
    BY <1>2, <1>4, <2>2, <2>3
  <2>5. \E i \in 1..Len(W) : W[i].hour = b.hour
    BY <1>2, <2>2, <2>3
  <2>6. \A i \in 1..Len(W) : i \in 1..n \/ W[i].hour = b.hour
    BY <1>2, <2>2, <2>3
  <2>7. QED
    BY <2>2, <2>3, <2>4, <2>5, <2>6 DEF W, n
<1>5. QED
  BY <1>3, <1>4

LEMMA AddedFacts ==
  ASSUME NEW R \in Seq(Record), NEW b \in Bucket, ~(Len(R) >= RecsMax)
  PROVE  Merged(AddToRecs(R, b), With(R, b), b)
<1> DEFINE W == With(R, b)
           x(k) == IF W[k].hour = b.hour /\ b.depth \in Soil
                   THEN [W[k] EXCEPT !.of[b.depth] = b.of] ELSE W[k]
           C == [k \in 1..Len(W) |-> x(k)]
<1>1. W \in Seq(Record)
  BY WithFacts
<1>2. AddToRecs(R, b) = [k \in DOMAIN W |-> x(k)]
  BY DEF AddToRecs, With
<1> HIDE DEF W
<1>3. DOMAIN W = 1..Len(W) /\ Len(W) \in Nat
  BY <1>1
<1>4. AddToRecs(R, b) = C
  BY <1>2, <1>3
<1>5. ASSUME NEW k \in 1..Len(W)
      PROVE  /\ x(k) \in Record /\ x(k).hour = W[k].hour
             /\ x(k).of = IF W[k].hour = b.hour /\ b.depth \in Soil
                          THEN [W[k].of EXCEPT ![b.depth] = b.of] ELSE W[k].of
  <2>1. W[k] \in Record /\ b.of \in SUBSET Nat
    BY <1>1 DEF Bucket
  <2>2. CASE W[k].hour = b.hour /\ b.depth \in Soil
    <3> DEFINE f == [W[k].of EXCEPT ![b.depth] = b.of]
    <3>1. W[k].of \in [Soil -> SUBSET Nat] /\ W[k].hour \in Nat
      BY <2>1 DEF Record
    <3>2. f \in [Soil -> SUBSET Nat]
      BY <2>1, <3>1
    <3>3. x(k) = [W[k] EXCEPT !.of = f]
      BY <2>2
    <3> HIDE DEF f, x
    <3>4. x(k) \in Record /\ x(k).hour = W[k].hour /\ x(k).of = f
      BY <2>1, <3>1, <3>2, <3>3 DEF Record
    <3>5. QED
      BY <2>2, <3>4 DEF f
  <2>3. CASE ~(W[k].hour = b.hour /\ b.depth \in Soil)
    <3>1. x(k) = W[k]
      BY <2>3
    <3> HIDE DEF x
    <3>2. QED
      BY <2>1, <2>3, <3>1
  <2>4. QED
    BY <2>2, <2>3
<1>6. C \in Seq(Record) /\ Len(C) = Len(W) /\ \A k \in 1..Len(W) : C[k] = x(k)
  <2>1. \A k \in 1..Len(W) : x(k) \in Record
    BY <1>5
  <2> HIDE DEF x
  <2>2. C \in [1..Len(W) -> Record]
    BY <2>1
  <2>3. QED
    BY <1>3, <2>2
<1> HIDE DEF C, x
<1>7. Merged(C, W, b)
  BY <1>5, <1>6 DEF Merged
<1>8. QED
  BY <1>4, <1>7 DEF W

LEMMA RecordStep ==
  ASSUME NEW A \in Seq(Bucket), NEW k \in 1..Len(A), NEW R, Recorded(R, A, k - 1)
  PROVE  Recorded(AddToRecs(R, A[k]), A, k)
<1> DEFINE b == A[k]
           W == With(R, b)
           C == AddToRecs(R, b)
<1>1. R \in Seq(Record) /\ b \in Bucket
  BY DEF Recorded
<1>2. (\A l \in 1..(k - 1) : l \in 1..k /\ l # k) /\ (\A l \in 1..k : l = k \/ l \in 1..(k - 1)) /\ k \in 1..k
  OBVIOUS
<1>3. CASE Len(R) >= RecsMax
  <2>1. C = R
    BY <1>3 DEF AddToRecs
  <2>2. Ordered(A) => \A i \in 1..Len(R) : R[i].hour <= A[k].hour
    <3>1. \A l \in 1..(k - 1) : l \in 1..Len(A) /\ l <= k
      OBVIOUS
    <3>2. QED
      BY <3>1 DEF Recorded, Ordered
  <2> HIDE DEF C
  <2>3. Recorded(R, A, k)
    BY <1>2, <1>3, <2>2 DEF Recorded
  <2>4. QED
    BY <2>1, <2>3 DEF C
<1>4. CASE ~(Len(R) >= RecsMax)
  <2>1. Merged(C, W, b)
    <3> HIDE DEF b
    <3>1. QED
      BY <1>1, <1>4, AddedFacts
  <2>2. /\ W \in Seq(Record)
        /\ Len(W) >= Len(R) /\ \A i \in 1..Len(R) : W[i] = R[i]
        /\ \E i \in 1..Len(W) : W[i].hour = b.hour
        /\ \A i \in 1..Len(W) : i \in 1..Len(R) \/ W[i].hour = b.hour
        /\ (\A i, j \in 1..Len(R) : R[i].hour = R[j].hour => i = j) =>
             \A i, j \in 1..Len(W) : W[i].hour = W[j].hour => i = j
    <3> HIDE DEF b
    <3>1. QED
      BY <1>1, WithFacts
  <2>3. A[k] = b
    OBVIOUS
  <2>n. Len(R) \in Nat /\ Len(W) \in Nat
    <3> HIDE DEF W
    <3>1. QED
      BY <1>1, <2>2
  <2> HIDE DEF C, W, b
  <2>4. C \in Seq(Record) /\ Len(C) = Len(W) /\ \A i \in 1..Len(W) : C[i].hour = W[i].hour
    BY <2>1 DEF Merged
  <2>5. \A i, j \in 1..Len(C) : C[i].hour = C[j].hour => i = j
    BY <2>2, <2>4 DEF Recorded
  <2>6. \A i \in 1..Len(C) : \E l \in 1..k : C[i].hour = A[l].hour
    <3> SUFFICES ASSUME NEW i \in 1..Len(W) PROVE \E l \in 1..k : W[i].hour = A[l].hour
      BY <2>4
    <3>1. CASE i \in 1..Len(R)
      BY <1>2, <2>2, <3>1 DEF Recorded
    <3>2. CASE i \notin 1..Len(R)
      BY <1>2, <2>2, <2>3, <3>2
    <3>3. QED
      BY <3>1, <3>2
  <2>7. ASSUME OnePort(A), Ordered(A), NEW l \in 1..k
        PROVE  \E i \in 1..Len(C) :
                 C[i].hour = A[l].hour /\ (A[l].depth \in Soil => C[i].of[A[l].depth] = A[l].of)
    <3>1. CASE l = k
      <4>1. PICK i \in 1..Len(W) : W[i].hour = b.hour
        BY <2>2
      <4>2. b.depth \in Soil => C[i].of = [W[i].of EXCEPT ![b.depth] = b.of]
        BY <2>1, <4>1 DEF Merged
      <4>3. W[i].of \in [Soil -> SUBSET Nat]
        <5>1. W[i] \in Record
          BY <2>2
        <5>2. QED
          BY <5>1 DEF Record
      <4>4. b.depth \in Soil => C[i].of[b.depth] = b.of
        BY <4>2, <4>3
      <4>5. QED
        BY <2>3, <2>4, <3>1, <4>1, <4>4
    <3>2. CASE l # k
      <4>1. PICK i \in 1..Len(R) :
              R[i].hour = A[l].hour /\ (A[l].depth \in Soil => R[i].of[A[l].depth] = A[l].of)
        BY <1>2, <1>4, <2>7, <3>2 DEF Recorded
      <4>2. i \in 1..Len(W) /\ W[i] = R[i] /\ i \in 1..Len(C)
        BY <2>2, <2>4, <2>n
      <4>3. ASSUME A[l].depth \in Soil PROVE C[i].of[A[l].depth] = A[l].of
        <5>1. ~(A[l].hour = b.hour /\ A[l].depth = b.depth)
          <6>1. l \in 1..Len(A) /\ k \in 1..Len(A)
            OBVIOUS
          <6>2. QED
            BY <2>3, <2>7, <3>2, <4>3, <6>1 DEF OnePort
        <5>2. W[i].of \in [Soil -> SUBSET Nat]
          <6>1. W[i] \in Record
            BY <2>2, <4>2
          <6>2. QED
            BY <6>1 DEF Record
        <5>3. C[i].of = IF W[i].hour = b.hour /\ b.depth \in Soil
                        THEN [W[i].of EXCEPT ![b.depth] = b.of] ELSE W[i].of
          BY <2>1, <4>2 DEF Merged
        <5>4. C[i].of[A[l].depth] = W[i].of[A[l].depth]
          BY <4>1, <4>2, <4>3, <5>1, <5>2, <5>3
        <5>5. QED
          BY <4>1, <4>2, <4>3, <5>4
      <4>4. QED
        BY <2>4, <4>1, <4>2, <4>3
    <3>3. QED
      BY <3>1, <3>2
  <2>8. Recorded(C, A, k)
    BY <2>4, <2>5, <2>6, <2>7 DEF Recorded
  <2>9. QED
    BY <2>8 DEF C, b
<1>5. QED
  BY <1>3, <1>4

\* The loop that merges the buckets into records.
IsRecording(g, A) ==
  g = [i \in 0..Len(A) |-> IF i = 0 THEN <<>> ELSE AddToRecs(g[i - 1], A[i])]

LEMMA RecordingRuns ==
  ASSUME NEW A \in Seq(Bucket)
  PROVE  \E g : /\ RecsOf(A) = g[Len(A)] /\ g[0] = <<>>
                /\ \A i \in 1..Len(A) : g[i] = AddToRecs(g[i - 1], A[i])
<1> DEFINE X == Seq(Record)
           n == Len(A)
           F == [i \in 1..n |-> [x \in X |-> AddToRecs(x, A[i])]]
           loop == CHOOSE g : IsRecording(g, A)
<1>1. n \in Nat /\ <<>> \in X
  OBVIOUS
<1>2. \A i \in 1..n, x \in X : AddToRecs(x, A[i]) \in X
  <2> SUFFICES ASSUME NEW i \in 1..n, NEW x \in X PROVE AddToRecs(x, A[i]) \in X
    OBVIOUS
  <2>1. A[i] \in Bucket
    OBVIOUS
  <2>2. CASE Len(x) >= RecsMax
    BY <2>2 DEF AddToRecs
  <2>3. CASE ~(Len(x) >= RecsMax)
    BY <2>1, <2>3, AddedFacts DEF Merged
  <2>4. QED
    BY <2>2, <2>3
<1> HIDE DEF X
<1>3. F \in [1..n -> [X -> X]]
  BY <1>2
<1>4. \E g : IsRecording(g, A)
  <2>1. PICK g \in [0..n -> X] : Runs(g, n, <<>>, F)
    <3> HIDE DEF F, X, n
    <3>1. QED
      BY <1>1, <1>3, LoopRuns
  <2>2. ASSUME NEW i \in 0..n
        PROVE  g[i] = IF i = 0 THEN <<>> ELSE AddToRecs(g[i - 1], A[i])
    <3>1. CASE i = 0
      BY <2>1, <3>1 DEF Runs
    <3>2. CASE i # 0
      <4>1. i \in 1..n /\ i - 1 \in 0..n
        BY <3>2, <1>1
      <4>2. g[i] = F[i][g[i - 1]] /\ g[i - 1] \in X
        BY <2>1, <4>1 DEF Runs
      <4>3. F[i][g[i - 1]] = AddToRecs(g[i - 1], A[i])
        BY <4>1, <4>2
      <4>4. QED
        BY <3>2, <4>2, <4>3
    <3>3. QED
      BY <3>1, <3>2
  <2>3. g = [i \in 0..n |-> IF i = 0 THEN <<>> ELSE AddToRecs(g[i - 1], A[i])]
    BY <2>1, <2>2
  <2>4. QED
    BY <2>3 DEF IsRecording
<1>5. IsRecording(loop, A)
  BY <1>4
<1>6. RecsOf(A) = loop[Len(A)]
  BY DEF RecsOf, IsRecording
<1> HIDE DEF loop
<1>7. loop[0] = <<>>
  BY <1>1, <1>5 DEF IsRecording
<1>8. \A i \in 1..Len(A) : loop[i] = AddToRecs(loop[i - 1], A[i])
  <2>1. \A i \in 1..Len(A) : i \in 0..Len(A) /\ i # 0
    BY <1>1
  <2>2. QED
    BY <1>5, <2>1 DEF IsRecording
<1>9. QED
  BY <1>6, <1>7, <1>8

LEMMA RecsOfFacts ==
  ASSUME NEW A \in Seq(Bucket)
  PROVE  Recorded(RecsOf(A), A, Len(A))
<1>1. PICK g : /\ RecsOf(A) = g[Len(A)] /\ g[0] = <<>>
               /\ \A i \in 1..Len(A) : g[i] = AddToRecs(g[i - 1], A[i])
  BY RecordingRuns
<1> DEFINE n == Len(A)
           S == {k \in 0..n : Recorded(g[k], A, k)}
<1>2. n \in Nat
  OBVIOUS
<1>3. 0 \in S
  <2> DEFINE e == <<>>
  <2>1. e \in Seq(Record) /\ Len(e) = 0 /\ \A j : j \notin 1..0
    OBVIOUS
  <2> HIDE DEF e
  <2>2. Recorded(e, A, 0)
    BY <2>1 DEF Recorded
  <2>3. g[0] = e
    BY <1>1 DEF e
  <2>4. QED
    BY <1>2, <2>2, <2>3
<1>4. ASSUME NEW k \in 1..n, k - 1 \in S PROVE k \in S
  <2>1. Recorded(g[k - 1], A, k - 1)
    BY <1>4
  <2>2. Recorded(AddToRecs(g[k - 1], A[k]), A, k)
    BY <2>1, RecordStep
  <2>3. QED
    BY <1>1, <2>2
<1>5. n \in S
  <2> HIDE DEF S, n
  <2>1. \A k \in 0..n : k \in S
    BY <1>2, <1>3, <1>4, Throughout
  <2>2. QED
    BY <1>2, <2>1
<1>6. QED
  BY <1>1, <1>5

-----------------------------------------------------------------------------
(* What the ring holds was sampled in time.                                  *)

Timely(s) ==
  /\ \A i \in 1..Len(s) :
       /\ s[i].ts \in Hour..now /\ s[i].ts % Hour \in station.at
       /\ s[i].port \in DOMAIN station.ports /\ s[i].depth \in Range(station.ports[s[i].port])
  /\ InTime(s)

LEMMA OwnTimely ==
  ASSUME TypeOK, RingOK
  PROVE  SampledInTime <=> Timely(InOrder)
<1>1. Len(InOrder) = count
  BY OwnRing
<1>2. QED
  BY <1>1 DEF SampledInTime, Timely, InTime

LEMMA CapturedTimely ==
  ASSUME TypeOK, RingOK, SampledInTime, MaySample, NEW ports \in SUBSET DOMAIN station.ports
  PROVE  Timely(OrderOf(Captured(ports)))
<1> DEFINE b == OrderOf(Captured(ports))
           n == Len(InOrder)
<1>1. PICK t \in Seq(Reading) : IsTail(b, t) /\ Fresh(t, InOrder, ports, Len(station.ports))
  BY CapturedFacts
<1>2. Good(Captured(ports))
  BY CapturedFacts
<1>3. Timely(InOrder) /\ InOrder \in Seq(Reading)
  BY OwnTimely, OwnRing
<1>4. /\ Len(t) >= n /\ \A i \in 1..n : t[i] = InOrder[i]
      /\ \A i \in (n + 1)..Len(t) :
           /\ t[i].ts = now /\ t[i].port \in ports
           /\ t[i].depth \in Range(station.ports[t[i].port])
  BY <1>1 DEF Fresh
<1>5. n \in Nat /\ Len(t) \in Nat /\ now \in Nat /\ now >= Hour /\ now % Hour \in station.at
  BY <1>1, <1>3, StationFacts DEF MaySample
<1>6. /\ Len(b) = IF Len(t) < Cap THEN Len(t) ELSE Cap
      /\ \A i \in 1..Len(b) : b[i] = t[Len(t) - Len(b) + i]
  BY <1>1 DEF IsTail
<1>s. \A i \in 1..n : InOrder[i].ts \in Hour..now
  BY <1>3 DEF Timely
<1>t. \A i, j \in 1..n : i <= j => InOrder[i].ts <= InOrder[j].ts
  BY <1>3 DEF Timely, InTime
<1>v. \A i \in 1..n : /\ InOrder[i].ts % Hour \in station.at
                      /\ InOrder[i].port \in DOMAIN station.ports
                      /\ InOrder[i].depth \in Range(station.ports[InOrder[i].port])
  BY <1>3 DEF Timely
<1> HIDE DEF b, n
<1>7. \A i \in 1..Len(t) : i \in 1..n \/ i \in (n + 1)..Len(t)
  BY <1>5
<1>8. ASSUME NEW i \in 1..Len(t)
      PROVE  /\ t[i].ts \in Hour..now /\ t[i].ts % Hour \in station.at
             /\ t[i].port \in DOMAIN station.ports
             /\ t[i].depth \in Range(station.ports[t[i].port])
  <2>1. CASE i \in 1..n
    BY <1>4, <1>s, <1>v, <2>1
  <2>2. CASE i \in (n + 1)..Len(t)
    <3>1. t[i].ts = now /\ now \in Hour..now
      BY <1>4, <1>5, <2>2, Sizes
    <3>2. QED
      BY <1>4, <1>5, <2>2, <3>1
  <2>3. QED
    BY <1>7, <2>1, <2>2
<1>9. ASSUME NEW i \in 1..Len(t), NEW j \in 1..Len(t), i <= j PROVE t[i].ts <= t[j].ts
  <2>1. CASE j \in 1..n
    <3>1. i \in 1..n
      BY <1>5, <1>9, <2>1
    <3>2. QED
      BY <1>4, <1>t, <1>9, <2>1, <3>1
  <2>2. CASE j \in (n + 1)..Len(t)
    <3>1. t[j].ts = now /\ t[i].ts \in Hour..now
      BY <1>4, <1>8, <2>2
    <3>2. QED
      BY <3>1, <1>5, Sizes
  <2>3. QED
    BY <1>7, <2>1, <2>2
<1>10. Len(b) \in Nat /\ Len(b) <= Len(t)
  BY <1>5, <1>6, Sizes
<1>11. \A i \in 1..Len(b) : Len(t) - Len(b) + i \in 1..Len(t)
  BY <1>5, <1>10
<1>12. \A i, j \in 1..Len(b) : i <= j => Len(t) - Len(b) + i <= Len(t) - Len(b) + j
  BY <1>5, <1>10
<1>13. Timely(b)
  BY <1>6, <1>8, <1>9, <1>11, <1>12 DEF Timely, InTime
<1>14. QED
  BY <1>13 DEF b

\* Each place among those kept is that of one that is kept.
LEMMA RankOnto ==
  ASSUME NEW n \in Nat, NEW K \in SUBSET (1..n)
  PROVE  \A j \in 1..Rank(K, n) : \E i \in K : Rank(K, i) = j
<1> DEFINE S == {m \in 0..n : \A j \in 1..Rank(K, m) : \E i \in K : Rank(K, i) = j}
<1>1. 0 \in S
  BY RankFacts
<1>2. ASSUME NEW m \in 1..n, m - 1 \in S PROVE m \in S
  <2>1. m \in Nat /\ m > 0 /\ m - 1 \in Nat /\ m \in 0..n
    OBVIOUS
  <2>2. Rank(K, m) = (IF m \in K THEN Rank(K, m - 1) + 1 ELSE Rank(K, m - 1))
    BY <2>1, RankFacts
  <2>3. Rank(K, m - 1) \in Nat
    BY <2>1, RankFacts
  <2>4. ASSUME NEW j \in 1..Rank(K, m) PROVE \E i \in K : Rank(K, i) = j
    <3>1. CASE j \in 1..Rank(K, m - 1)
      BY <1>2, <3>1
    <3>2. CASE j \notin 1..Rank(K, m - 1)
      <4>1. m \in K /\ j = Rank(K, m)
        BY <2>2, <2>3, <3>2
      <4>2. QED
        BY <4>1
    <3>3. QED
      BY <3>1, <3>2
  <2>5. QED
    BY <2>1, <2>4
<1>3. n \in S
  <2> HIDE DEF S
  <2>1. \A m \in 0..n : m \in S
    BY <1>1, <1>2, Throughout
  <2>2. QED
    BY <2>1
<1>4. QED
  BY <1>3

LEMMA WithoutPortTimely ==
  ASSUME TypeOK, RingOK, SampledInTime, NEW p
  PROVE  Timely(OrderOf(WithoutPort(p)))
<1> DEFINE K == {i \in 1..count : InOrder[i].port # p}
           b == OrderOf(WithoutPort(p))
<1>1. Len(b) = Rank(K, count) /\ \A i \in K : b[Rank(K, i)] = InOrder[i]
  BY WithoutPortFacts
<1>2. count \in Nat /\ Len(InOrder) = count /\ K \in SUBSET (1..count)
  BY OwnRing, Sizes
<1>3. Timely(InOrder)
  BY OwnTimely
<1> HIDE DEF K, b
<1>4. \A j \in 1..Len(b) : \E i \in K : Rank(K, i) = j
  BY <1>1, <1>2, RankOnto
<1>5. ASSUME NEW i \in K, NEW j \in K, Rank(K, i) <= Rank(K, j) PROVE i <= j
  <2>1. i \in Nat /\ j \in Nat /\ i > 0 /\ j > 0 /\ i - 1 \in Nat
    BY <1>2
  <2>2. SUFFICES ASSUME j < i PROVE FALSE
    BY <2>1
  <2>3. j \in 1..(i - 1)
    BY <2>1, <2>2
  <2>4. Rank(K, i) = Rank(K, i - 1) + 1 /\ Rank(K, j) <= Rank(K, i - 1)
    BY <2>1, <2>3, RankFacts
  <2>5. Rank(K, i - 1) \in Nat /\ Rank(K, j) \in Nat
    BY <2>1, RankFacts
  <2>6. QED
    BY <1>5, <2>4, <2>5
<1>6. \A j \in 1..Len(b) : \E i \in 1..count : b[j] = InOrder[i]
  BY <1>1, <1>2, <1>4
<1>7. ASSUME NEW j \in 1..Len(b), NEW l \in 1..Len(b), j <= l PROVE b[j].ts <= b[l].ts
  <2>1. PICK i \in K : Rank(K, i) = j
    BY <1>4
  <2>2. PICK m \in K : Rank(K, m) = l
    BY <1>4
  <2>3. i <= m
    BY <1>5, <1>7, <2>1, <2>2
  <2>4. i \in 1..count /\ m \in 1..count /\ b[j] = InOrder[i] /\ b[l] = InOrder[m]
    BY <1>1, <1>2, <2>1, <2>2
  <2>5. QED
    BY <1>2, <1>3, <2>3, <2>4 DEF Timely, InTime
<1>8. Timely(b)
  BY <1>2, <1>3, <1>6, <1>7 DEF Timely, InTime
<1>9. QED
  BY <1>8 DEF b

LEMMA HoursOfTime ==
  ASSUME TypeOK, NEW t \in Hour..now
  PROVE  HourOf(t) \in Hours /\ HourOf(t) \in 1..HourOf(now)
<1> DEFINE L == {st.last : st \in Stations}
           f == [st \in Stations |-> st.last]
<1>1. now \in Nat /\ t \in Nat /\ t <= now /\ 1 * Hour <= t
  BY StationFacts, Sizes
<1>2. 1 <= HourOf(t) /\ HourOf(t) <= HourOf(now) /\ HourOf(t) \in Nat /\ HourOf(now) \in Nat
  BY <1>1, HourOfBeginning, HoursInOrder, HourFacts
<1>3. L \in SUBSET Nat /\ station.last \in L /\ L # {}
  BY StationFacts, SoilWindowConstants
<1>4. f \in Surjection(Stations, L)
  BY DEF Surjection
<1>5. IsFiniteSet(L)
  <2> HIDE DEF f, L
  <2>1. QED
    BY <1>4, SoilWindowConstants, FS_Surjection
<1> HIDE DEF L
<1>6. Max(L) \in Nat /\ station.last <= Max(L)
  <2>1. L \in SUBSET Int
    BY <1>3
  <2>2. Max(L) \in L /\ \A y \in L : y <= Max(L)
    BY <1>3, <1>5, <2>1, Extremes
  <2>3. QED
    BY <1>3, <2>2
<1>7. now <= station.last /\ station.last \in Nat
  <2>1. station.last \in Nat
    BY <1>3
  <2>2. now \in Hour..station.last
    BY DEF TypeOK
  <2>3. QED
    BY <2>1, <2>2, Sizes
<1>8. t <= Max(L)
  BY <1>1, <1>6, <1>7
<1>9. HourOf(t) <= HourOf(Max(L)) /\ HourOf(Max(L)) \in Nat
  BY <1>1, <1>6, <1>8, HoursInOrder, HourFacts
<1>10. QED
  BY <1>2, <1>9 DEF Hours, L

SoilAggs == Aggregate(InOrder, From, now, UplinkAggs)

LEMMA SoilRecsFacts ==
  ASSUME TypeOK, RingOK, SampledInTime
  PROVE  /\ Aggregated(SoilAggs, InOrder, count, From, now, UplinkAggs)
         /\ Recorded(SoilRecs, SoilAggs, Len(SoilAggs))
         /\ From \in Int /\ From >= cursor * Hour + 1 /\ From >= now - Lookback * Hour
         /\ \A i \in 1..Len(SoilRecs) :
              /\ SoilRecs[i].hour \in Hours /\ SoilRecs[i].hour \in 1..HourOf(now)
              /\ SoilRecs[i].hour >= cursor
<1>1. InOrder \in Seq(Reading) /\ Len(InOrder) = count /\ now \in Nat
  BY OwnRing, StationFacts
<1>2. cursor \in Nat
  BY DEF TypeOK, Hours
<1>3. From \in Int /\ From >= cursor * Hour + 1 /\ From >= now - Lookback * Hour
  <2> DEFINE a == cursor * Hour + 1
             b == now - Lookback * Hour
  <2>1. a \in Int /\ b \in Int
    BY <1>1, <1>2, Sizes
  <2>2. From = IF a > b THEN a ELSE b
    BY DEF From, Larger
  <2> HIDE DEF a, b
  <2>3. From \in Int /\ From >= a /\ From >= b
    BY <2>1, <2>2
  <2>4. QED
    BY <2>3 DEF a, b
<1>4. Aggregated(SoilAggs, InOrder, count, From, now, UplinkAggs)
  <2>1. UplinkAggs \in Nat /\ now \in Int
    BY <1>1, Sizes
  <2>2. Aggregated(Aggregate(InOrder, From, now, UplinkAggs), InOrder, Len(InOrder), From, now, UplinkAggs)
    BY <1>1, <1>3, <2>1, AggregateFacts
  <2>3. QED
    BY <1>1, <2>2 DEF SoilAggs
<1>5. Recorded(SoilRecs, SoilAggs, Len(SoilAggs))
  <2>1. SoilAggs \in Seq(Bucket)
    BY <1>4 DEF Aggregated, Sound
  <2>2. QED
    BY <2>1, RecsOfFacts DEF SoilRecs, SoilAggs
<1>6. ASSUME NEW i \in 1..Len(SoilRecs)
      PROVE  /\ SoilRecs[i].hour \in Hours /\ SoilRecs[i].hour \in 1..HourOf(now)
             /\ SoilRecs[i].hour >= cursor
  <2>1. PICK l \in 1..Len(SoilAggs) : SoilRecs[i].hour = SoilAggs[l].hour
    BY <1>5 DEF Recorded
  <2>2. PICK t \in SoilAggs[l].of : TRUE
    BY <1>4 DEF Aggregated, Sound
  <2>3. PICK k \in 1..count : InOrder[k].ts = t /\ Holds(SoilAggs[l], InOrder[k]) /\ Asked(InOrder[k], From, now)
    BY <1>4, <2>2 DEF Aggregated, Sound
  <2>4. t \in Hour..now /\ SoilRecs[i].hour = HourOf(t) /\ From <= t
    BY <2>1, <2>3 DEF Holds, Asked, SampledInTime
  <2>5. HourOf(t) \in Hours /\ HourOf(t) \in 1..HourOf(now)
    BY <2>4, HoursOfTime
  <2>6. cursor * Hour <= t /\ t \in Nat
    <3> DEFINE a == cursor * Hour
    <3>1. a \in Int
      BY <1>2, Sizes
    <3>2. From >= a + 1
      BY <1>3
    <3> HIDE DEF a
    <3>3. a <= t /\ t \in Nat
      BY <1>1, <1>3, <2>4, <3>1, <3>2, Sizes
    <3>4. QED
      BY <3>3 DEF a
  <2>7. cursor <= HourOf(t)
    BY <1>2, <2>6, HourOfBeginning
  <2>8. QED
    BY <2>4, <2>5, <2>7, <1>2, <2>6, HourFacts
<1>7. QED
  BY <1>3, <1>4, <1>5, <1>6

\* How far a frame that got through moves the cursor.
Moved == Max({r.hour : r \in Range(SoilRecs)} \cup {cursor})

LEMMA MovedFacts ==
  ASSUME TypeOK, RingOK, SampledInTime, CursorBehind
  PROVE  /\ Moved \in {0} \cup Hours /\ Moved \in Nat /\ Moved <= HourOf(now) /\ cursor <= Moved
         /\ \A r \in Range(SoilRecs) : r.hour <= Moved
         /\ Moved = cursor \/ \E r \in Range(SoilRecs) : r.hour = Moved
<1> DEFINE S == {r.hour : r \in Range(SoilRecs)} \cup {cursor}
<1>1. \A r \in Range(SoilRecs) : \E i \in 1..Len(SoilRecs) : r = SoilRecs[i]
  <2>1. SoilRecs \in Seq(Record)
    BY SoilRecsFacts DEF Recorded
  <2>2. QED
    BY <2>1 DEF Range
<1>2. \A r \in Range(SoilRecs) : r.hour \in Hours /\ r.hour \in 1..HourOf(now)
  BY <1>1, SoilRecsFacts
<1>3. cursor \in {0} \cup Hours /\ cursor \in Nat /\ cursor <= HourOf(now) /\ HourOf(now) \in Nat
  <2>1. cursor \in {0} \cup Hours /\ cursor <= HourOf(now)
    BY DEF TypeOK, CursorBehind
  <2>2. cursor \in Nat
    BY <2>1 DEF Hours
  <2>3. QED
    BY <2>1, <2>2, HourFacts, StationFacts
<1>4. S \subseteq {0} \cup Hours /\ S \subseteq 0..HourOf(now) /\ cursor \in S
  BY <1>2, <1>3
<1>5. IsFiniteSet(S)
  <2>1. IsFiniteSet(0..HourOf(now))
    BY <1>3, FS_Interval
  <2> HIDE DEF S
  <2>2. QED
    BY <1>4, <2>1, FS_Subset
<1>6. Moved = Max(S)
  BY DEF Moved
<1>m. \A r \in Range(SoilRecs) : r.hour \in S
  OBVIOUS
<1>n. \A x \in S : x = cursor \/ \E r \in Range(SoilRecs) : r.hour = x
  OBVIOUS
<1> HIDE DEF S
<1>7. S \in SUBSET Int /\ S # {}
  BY <1>3, <1>4
<1>8. Max(S) \in S /\ \A y \in S : y <= Max(S)
  BY <1>5, <1>7, Extremes
<1>9. Max(S) \in 0..HourOf(now) /\ Max(S) \in {0} \cup Hours
  BY <1>4, <1>8
<1>10. Max(S) \in Nat /\ Max(S) <= HourOf(now)
  BY <1>3, <1>9
<1>11. cursor <= Max(S) /\ \A r \in Range(SoilRecs) : r.hour <= Max(S)
  BY <1>4, <1>8, <1>m
<1>12. Max(S) = cursor \/ \E r \in Range(SoilRecs) : r.hour = Max(S)
  BY <1>8, <1>n
<1>13. QED
  BY <1>6, <1>9, <1>10, <1>11, <1>12

-----------------------------------------------------------------------------
(* The inductive invariant.                                                  *)

\* A ring that is put where the state's was.
LEMMA PutFacts ==
  ASSUME NEW q, Good(q), Put(q)
  PROVE  /\ InOrder' = OrderOf(q) /\ RingOK' /\ count' = q.count
         /\ rd' \in [0..(Cap - 1) -> Reading] /\ head' \in 0..(Cap - 1) /\ count' \in 0..Cap
<1>1. /\ rd' = q.rd /\ head' = q.head /\ count' = q.count
      /\ q.rd \in [0..(Cap - 1) -> Reading] /\ q.head \in 0..(Cap - 1) /\ q.count \in 0..Cap
      /\ q.count < Cap => q.head = q.count
  BY DEF Put, Good, Rings, Indices
<1>2. InOrder' = OrderOf(q)
  BY <1>1 DEF InOrder, OrderOf, Ring
<1>3. QED
  BY <1>1, <1>2 DEF RingOK

LEMMA PutTimely ==
  ASSUME NEW q, Good(q), Put(q), Timely(OrderOf(q)), UNCHANGED <<station, now>>
  PROVE  SampledInTime'
<1>1. InOrder' = OrderOf(q) /\ count' = q.count /\ Len(OrderOf(q)) = q.count
  BY PutFacts, OrderFacts
<1>2. QED
  BY <1>1 DEF SampledInTime, Timely, InTime

\* Time and the station's readers, when they stay as they are.
LEMMA RestStays ==
  ASSUME TypeOK, CursorBehind, NEW q, Good(q), Put(q), UNCHANGED <<station, now, lastRec, oldest>>,
         cursor' \in {0, cursor},
         forecast'.status \in {"none", "short", "stale", "gap", "no_forecast", "ok"}
  PROVE  TypeOK' /\ CursorBehind'
<1>1. TypeOK'
  BY PutFacts DEF TypeOK
<1>2. 0 <= HourOf(now)
  BY HourFacts, StationFacts
<1>3. CursorBehind'
  <2>1. HourOf(now') = HourOf(now) /\ Larger(0, now' - Lookback * Hour) = Larger(0, now - Lookback * Hour)
    OBVIOUS
  <2>2. QED
    BY <1>2, <2>1 DEF CursorBehind
<1>4. QED
  BY <1>1, <1>3

\* Init makes it true.
LEMMA InitInvariant == Init => IInv
<1> SUFFICES ASSUME Init PROVE IInv
  OBVIOUS
<1>1. station \in Stations /\ now = Hour /\ Hour <= station.last /\ station.last \in Nat
  BY SoilWindowConstants DEF Init
<1>2. NoReading \in Reading
  BY DEF NoReading, Reading
<1>3. TypeOK
  <2>1. rd \in [0..(Cap - 1) -> Reading] /\ head \in 0..(Cap - 1) /\ count \in 0..Cap
    BY <1>2, Sizes DEF Init
  <2>2. now \in Hour..station.last
    BY <1>1, Sizes
  <2>3. cursor \in {0} \cup Hours /\ oldest \in Int /\ DOMAIN lastRec = Hours
    BY DEF Init
  <2>4. forecast.status = "none"
    BY DEF Init, NoForecast
  <2>5. QED
    BY <1>1, <2>1, <2>2, <2>3, <2>4 DEF TypeOK
<1>4. RingOK
  BY DEF Init, RingOK
<1>5. SampledInTime
  <2>1. count = 0 /\ \A i : i \notin 1..0
    BY DEF Init
  <2>2. QED
    BY <2>1 DEF SampledInTime
<1>6. CursorBehind
  <2>1. cursor = 0 /\ oldest = 0 /\ HourOf(now) \in Nat
    BY HourFacts, StationFacts, <1>3 DEF Init
  <2> DEFINE d == now - Lookback * Hour
  <2>2. d \in Int
    BY <1>1, Sizes
  <2> HIDE DEF d
  <2>3. 0 <= Larger(0, d)
    BY <2>2 DEF Larger
  <2>4. QED
    BY <2>1, <2>3 DEF CursorBehind, d
<1>7. QED
  BY <1>3, <1>4, <1>5, <1>6 DEF IInv

LEMMA TickKeeps == IInv /\ Tick => IInv'
<1> SUFFICES ASSUME IInv, Tick PROVE IInv'
  OBVIOUS
<1>1. TypeOK /\ RingOK /\ SampledInTime /\ CursorBehind
  BY DEF IInv
<1>2. /\ now \in Nat /\ now >= Hour /\ station \in Stations /\ station.last \in Nat
  BY <1>1, StationFacts, SoilWindowConstants
<1>3. now' = now + 1 /\ now < station.last /\ forecast' = NoForecast
  BY DEF Tick
<1>4. UNCHANGED <<station, rd, head, count, cursor, lastRec, oldest>>
  BY DEF Tick, ring, sent
<1>5. now' \in Hour..station.last
  BY <1>2, <1>3, Sizes
<1>6. TypeOK'
  BY <1>1, <1>3, <1>4, <1>5 DEF TypeOK, NoForecast
<1>7. RingOK'
  BY <1>1, <1>4 DEF RingOK
<1>8. SampledInTime'
  <2>1. InOrder' = InOrder
    BY <1>4 DEF InOrder, OrderOf, Ring
  <2>2. \A t \in Hour..now : t \in Hour..now'
    BY <1>2, <1>3, Sizes
  <2>3. QED
    BY <1>1, <1>4, <2>1, <2>2 DEF SampledInTime
<1>9. CursorBehind'
  <2>1. HourOf(now) <= HourOf(now') /\ HourOf(now) \in Nat /\ HourOf(now') \in Nat
    BY <1>2, <1>3, HoursInOrder, HourFacts
  <2>2. cursor \in Nat /\ oldest \in Int
    BY <1>1 DEF TypeOK, Hours
  <2> DEFINE c == Lookback * Hour
  <2>3. c \in Int
    BY Sizes
  <2> HIDE DEF c
  <2>4. Larger(0, now - c) <= Larger(0, now' - c) /\ Larger(0, now - c) \in Int /\ Larger(0, now' - c) \in Int
    BY <1>2, <1>3, <2>3 DEF Larger
  <2>5. cursor <= HourOf(now) /\ oldest <= Larger(0, now - c)
    BY <1>1 DEF CursorBehind, c
  <2>6. cursor <= HourOf(now') /\ oldest <= Larger(0, now' - c)
    BY <2>1, <2>2, <2>4, <2>5
  <2>7. QED
    BY <1>4, <2>6 DEF CursorBehind, c
<1>10. QED
  BY <1>6, <1>7, <1>8, <1>9 DEF IInv

LEMMA CaptureKeeps == IInv /\ Capture => IInv'
<1> SUFFICES ASSUME IInv, Capture PROVE IInv'
  OBVIOUS
<1>1. TypeOK /\ RingOK /\ SampledInTime /\ CursorBehind
  BY DEF IInv
<1>2. MaySample /\ forecast' = NoForecast /\ UNCHANGED <<station, now, cursor, lastRec, oldest>>
  BY DEF Capture, sent
<1>3. PICK ports \in SUBSET DOMAIN station.ports : Put(Captured(ports))
  BY DEF Capture
<1>4. Good(Captured(ports)) /\ Timely(OrderOf(Captured(ports)))
  BY <1>1, <1>2, CapturedFacts, CapturedTimely
<1>5. forecast'.status = "none"
  BY <1>2 DEF NoForecast
<1>6. RingOK' /\ SampledInTime' /\ TypeOK' /\ CursorBehind'
  BY <1>1, <1>2, <1>3, <1>4, <1>5, PutFacts, PutTimely, RestStays
<1>7. QED
  BY <1>6 DEF IInv

\* An empty ring.
LEMMA NothingLeft ==
  ASSUME TypeOK, rd' = rd, head' = 0, count' = 0
  PROVE  LET q == [rd |-> rd, head |-> 0, count |-> 0]
         IN  Good(q) /\ Put(q) /\ OrderOf(q) = <<>> /\ Timely(OrderOf(q))
<1> DEFINE q == [rd |-> rd, head |-> 0, count |-> 0]
<1>1. Good(q) /\ q.count = 0
  BY Sizes DEF TypeOK, Good, Rings, Indices
<1>2. Put(q)
  BY DEF Put
<1>3. OrderOf(q) = <<>> /\ Len(OrderOf(q)) = 0
  <2> HIDE DEF q
  <2>1. OrderOf(q) \in Seq(Reading) /\ Len(OrderOf(q)) = 0
    BY <1>1, OrderFacts
  <2> DEFINE b == OrderOf(q)
  <2> HIDE DEF b
  <2>2. b = <<>>
    BY <2>1 DEF b
  <2>3. QED
    BY <2>1, <2>2 DEF b
<1> HIDE DEF q
<1>4. Timely(OrderOf(q))
  <2>1. \A i : i \notin 1..0
    OBVIOUS
  <2>2. QED
    BY <1>3, <2>1 DEF Timely, InTime
<1>5. QED
  BY <1>1, <1>2, <1>3, <1>4 DEF q

LEMMA DeleteKeeps == IInv /\ Delete => IInv'
<1> SUFFICES ASSUME IInv, Delete PROVE IInv'
  OBVIOUS
<1>1. TypeOK /\ RingOK /\ SampledInTime /\ CursorBehind
  BY DEF IInv
<1>2. forecast' = NoForecast /\ UNCHANGED <<station, now, cursor, lastRec, oldest>>
  BY DEF Delete, sent
<1>3. \E q : Good(q) /\ Put(q) /\ Timely(OrderOf(q))
  <2>1. CASE \E p \in DOMAIN station.ports : Put(WithoutPort(p))
    BY <1>1, <2>1, WithoutPortFacts, WithoutPortTimely
  <2>2. CASE rd' = rd /\ head' = 0 /\ count' = 0
    BY <1>1, <2>2, NothingLeft
  <2>3. QED
    BY <2>1, <2>2 DEF Delete
<1>4. forecast'.status = "none"
  BY <1>2 DEF NoForecast
<1>5. RingOK' /\ SampledInTime' /\ TypeOK' /\ CursorBehind'
  BY <1>1, <1>2, <1>3, <1>4, PutFacts, PutTimely, RestStays
<1>6. QED
  BY <1>5 DEF IInv

LEMMA ResetKeeps == IInv /\ Reset => IInv'
<1> SUFFICES ASSUME IInv, Reset PROVE IInv'
  OBVIOUS
<1>1. TypeOK /\ RingOK /\ SampledInTime /\ CursorBehind
  BY DEF IInv
<1>2. forecast' = NoForecast /\ UNCHANGED <<station, now, lastRec, oldest>> /\ cursor' \in {0, cursor}
  BY DEF Reset
<1>3. Good(Restored) /\ Put(Restored) /\ Timely(OrderOf(Restored))
  BY <1>1, RestoredFacts, OwnTimely DEF Reset
<1>4. forecast'.status = "none"
  BY <1>2 DEF NoForecast
<1>5. RingOK' /\ SampledInTime' /\ TypeOK' /\ CursorBehind'
  BY <1>1, <1>2, <1>3, <1>4, PutFacts, PutTimely, RestStays
<1>6. QED
  BY <1>5 DEF IInv

LEMMA InferKeeps == IInv /\ Infer => IInv'
<1> SUFFICES ASSUME IInv, Infer PROVE IInv'
  OBVIOUS
<1>1. TypeOK /\ RingOK /\ SampledInTime /\ CursorBehind
  BY DEF IInv
<1>2. MaySample /\ UNCHANGED <<station, now, cursor, lastRec, oldest>>
  BY DEF Infer, sent
<1>3. PICK ports \in SUBSET DOMAIN station.ports, taFull \in BOOLEAN :
        Put(Captured(ports)) /\ forecast' = Gathered(OrderOf(Captured(ports)), ports, taFull)
  BY DEF Infer
<1>4. Good(Captured(ports)) /\ Timely(OrderOf(Captured(ports)))
  BY <1>1, <1>2, CapturedFacts, CapturedTimely
<1>5. forecast'.status \in {"none", "short", "stale", "gap", "no_forecast", "ok"}
  BY <1>3 DEF Gathered
<1>6. RingOK' /\ SampledInTime' /\ TypeOK' /\ CursorBehind'
  BY <1>1, <1>2, <1>3, <1>4, <1>5, PutFacts, PutTimely, RestStays
<1>7. QED
  BY <1>6 DEF IInv

LEMMA UplinkKeeps == IInv /\ Uplink => IInv'
<1> SUFFICES ASSUME IInv, Uplink PROVE IInv'
  OBVIOUS
<1>1. TypeOK /\ RingOK /\ SampledInTime /\ CursorBehind
  BY DEF IInv
<1>2. /\ forecast' = NoForecast /\ UNCHANGED <<station, now, rd, head, count>>
      /\ \/ cursor' = Moved /\ oldest' = now - Lookback * Hour
         \/ UNCHANGED <<cursor, oldest>>
      /\ DOMAIN lastRec' = Hours
  BY DEF Uplink, ring, Moved
<1>3. /\ Moved \in {0} \cup Hours /\ Moved <= HourOf(now) /\ now \in Nat
  BY <1>1, MovedFacts, StationFacts
<1> DEFINE d == now - Lookback * Hour
<1>4. d \in Int
  BY <1>3, Sizes
<1>5. cursor' \in {0} \cup Hours /\ cursor' <= HourOf(now)
  BY <1>1, <1>2, <1>3 DEF TypeOK, CursorBehind
<1>6. oldest' \in Int /\ oldest' <= Larger(0, d)
  <2>1. CASE oldest' = d
    <3> HIDE DEF d
    <3>1. QED
      BY <1>4, <2>1 DEF Larger
  <2>2. CASE oldest' = oldest
    BY <1>1, <2>2 DEF TypeOK, CursorBehind
  <2>3. QED
    BY <1>2, <2>1, <2>2
<1>7. TypeOK'
  <2>1. forecast'.status = "none"
    BY <1>2 DEF NoForecast
  <2>2. QED
    BY <1>1, <1>2, <1>5, <1>6, <2>1 DEF TypeOK
<1>8. RingOK'
  BY <1>1, <1>2 DEF RingOK
<1>9. SampledInTime'
  <2>1. InOrder' = InOrder
    BY <1>2 DEF InOrder, OrderOf, Ring
  <2>2. QED
    BY <1>1, <1>2, <2>1 DEF SampledInTime
<1>10. CursorBehind'
  BY <1>2, <1>5, <1>6 DEF CursorBehind
<1>11. QED
  BY <1>7, <1>8, <1>9, <1>10 DEF IInv

LEMMA NextKeeps == IInv /\ [Next]_vars => IInv'
<1> SUFFICES ASSUME IInv, [Next]_vars PROVE IInv'
  OBVIOUS
<1>1. CASE UNCHANGED vars
  <2>1. UNCHANGED <<station, now, rd, head, count, cursor, lastRec, oldest, forecast>>
    BY <1>1 DEF vars, ring, sent
  <2>2. InOrder' = InOrder
    BY <2>1 DEF InOrder, OrderOf, Ring
  <2>3. QED
    BY <2>1, <2>2 DEF IInv, TypeOK, RingOK, SampledInTime, CursorBehind
<1>2. QED
  BY <1>1, TickKeeps, CaptureKeeps, DeleteKeeps, UplinkKeeps, InferKeeps, ResetKeeps DEF Next

(* What the readers rest on, with the types: a ring that is in order,        *)
(* of readings the station took when it may, and a cursor not ahead of time. *)
THEOREM InductiveInvariant == Spec => []IInv
BY InitInvariant, NextKeeps, PTL DEF Spec

(* Type correctness, for any stations and any sizes.                         *)
THEOREM TypeCorrect == Spec => []TypeOK
<1>1. IInv => TypeOK
  BY DEF IInv
<1>2. QED
  BY <1>1, InductiveInvariant, PTL

-----------------------------------------------------------------------------
(* The ring is a log.                                                        *)

LEMMA SameOrder ==
  ASSUME NEW a \in Seq(Reading), NEW b \in Seq(Reading), Len(a) = Len(b), \A i \in 1..Len(a) : a[i] = b[i]
  PROVE  a = b
OBVIOUS

\* The readings of a sampling extend the log, unless no port answers.
LEMMA CapturedExtends ==
  ASSUME TypeOK, RingOK, NEW ports \in SUBSET DOMAIN station.ports, Put(Captured(ports))
  PROVE  Log!Extend \/ InOrder' = InOrder
<1> DEFINE b == OrderOf(Captured(ports))
           n == Len(InOrder)
           m == Len(b)
<1>1. PICK t \in Seq(Reading) : IsTail(b, t) /\ Fresh(t, InOrder, ports, Len(station.ports))
  BY CapturedFacts
<1>2. Good(Captured(ports)) /\ InOrder' = b
  BY CapturedFacts, PutFacts
<1>3. b \in Seq(Reading) /\ InOrder \in Seq(Reading) /\ n \in 0..Cap
  BY <1>2, OrderFacts, OwnRing
<1>4. Len(t) >= n /\ \A i \in 1..n : t[i] = InOrder[i]
  BY <1>1 DEF Fresh
<1>5. m = (IF Len(t) < Cap THEN Len(t) ELSE Cap) /\ \A i \in 1..m : b[i] = t[Len(t) - m + i]
  BY <1>1 DEF IsTail
<1>6. n \in Nat /\ Len(t) \in Nat
  BY <1>1, <1>3, Sizes
<1> HIDE DEF b
<1>7. CASE Len(t) = n
  <2> HIDE DEF m, n
  <2>1. m = n /\ \A i \in 1..m : Len(t) - m + i = i
    BY <1>3, <1>5, <1>6, <1>7, Sizes
  <2>2. \A i \in 1..m : b[i] = InOrder[i]
    BY <1>4, <1>5, <2>1
  <2>3. b = InOrder
    BY <1>3, <2>1, <2>2, SameOrder DEF m, n
  <2>4. QED
    BY <1>2, <2>3
<1>8. CASE Len(t) # n
  <2> DEFINE kept == IF Len(t) - m <= n THEN n - (Len(t) - m) ELSE 0
  <2> HIDE DEF m, n
  <2>1. kept \in 0..n /\ kept < m /\ (kept < n => m = Cap) /\ m <= Cap
    BY <1>3, <1>4, <1>5, <1>6, <1>8, Sizes
  <2>k. kept = n - (Len(t) - m) \/ kept = 0
    OBVIOUS
  <2> HIDE DEF kept
  <2>l. m \in Nat
    BY <1>5, <1>6, Sizes
  <2>2. \A i \in 1..kept : i \in 1..m /\ Len(t) - m + i = n - kept + i /\ n - kept + i \in 1..n
    <3>1. CASE kept = 0
      BY <3>1
    <3>2. CASE kept = n - (Len(t) - m)
      BY <1>6, <2>1, <2>l, <3>2
    <3>3. QED
      BY <2>k, <3>1, <3>2
  <2>3. \A i \in 1..kept : b[i] = InOrder[n - kept + i]
    BY <1>4, <1>5, <2>2
  <2>4. Log!Extend
    BY <1>2, <1>3, <2>1, <2>3 DEF Log!Extend, m, n
  <2>5. QED
    BY <2>4
<1>9. QED
  BY <1>7, <1>8

\* A deleted port's readings are dropped from the log, if it has any.
LEMMA WithoutPortDrops ==
  ASSUME TypeOK, RingOK, NEW p, Put(WithoutPort(p))
  PROVE  Log!DropPort \/ InOrder' = InOrder
<1> DEFINE K == {i \in 1..count : InOrder[i].port # p}
           b == OrderOf(WithoutPort(p))
<1>1. Good(WithoutPort(p)) /\ Len(b) = Rank(K, count) /\ \A i \in K : b[Rank(K, i)] = InOrder[i]
  BY WithoutPortFacts
<1>2. InOrder' = b /\ b \in Seq(Reading)
  BY <1>1, PutFacts, OrderFacts
<1>3. InOrder \in Seq(Reading) /\ Len(InOrder) = count /\ count \in Nat /\ DOMAIN InOrder = 1..count
  BY OwnRing, Sizes
<1> HIDE DEF b
<1>4. CASE K = 1..count
  <2>1. \A i \in 0..count : Rank(K, i) = i
    <3> SUFFICES ASSUME NEW i \in 0..count PROVE Rank(K, i) = i
      OBVIOUS
    <3> HIDE DEF K
    <3>1. (1..count) \cap 1..i = 1..i
      BY <1>3
    <3>2. Cardinality(1..i) = i
      BY <1>3, FS_Interval
    <3>3. K \cap 1..i = 1..i
      BY <1>4, <3>1
    <3>4. QED
      BY <3>2, <3>3 DEF Rank
  <2> HIDE DEF K
  <2>2. Len(b) = Len(InOrder) /\ \A i \in 1..Len(b) : b[i] = InOrder[i]
    BY <1>1, <1>3, <1>4, <2>1
  <2>3. b = InOrder
    BY <1>2, <1>3, <2>2, SameOrder
  <2>4. QED
    BY <1>2, <2>3
<1>5. CASE K # 1..count
  <2>1. p \in {InOrder[i].port : i \in DOMAIN InOrder}
    BY <1>3, <1>5
  <2>2. {i \in DOMAIN InOrder : InOrder[i].port # p} = K
    BY <1>3
  <2>3. K = K \cap 1..count
    OBVIOUS
  <2> HIDE DEF K
  <2>4. Len(b) = Cardinality(K) /\ \A i \in K : b[Cardinality(K \cap 1..i)] = InOrder[i]
    BY <1>1, <2>3 DEF Rank
  <2> DEFINE others == {i \in DOMAIN InOrder : InOrder[i].port # p}
  <2>o. others = K
    BY <2>2
  <2> HIDE DEF others
  <2>c. /\ InOrder' \in Seq(Reading) /\ Len(InOrder') = Cardinality(others)
        /\ \A i \in others : InOrder'[Cardinality(others \cap 1..i)] = InOrder[i]
    BY <1>2, <2>4, <2>o
  <2>5. Log!DropPort
    BY <2>1, <2>c DEF Log!DropPort, others, Cardinality, Log!Cardinality
  <2>6. QED
    BY <2>5
<1>6. QED
  BY <1>4, <1>5

LEMMA StepOfLog == IInv /\ [Next]_vars => [Log!Next]_InOrder
<1> SUFFICES ASSUME IInv, [Next]_vars PROVE Log!Next \/ InOrder' = InOrder
  OBVIOUS
<1>i. TypeOK /\ RingOK
  BY DEF IInv
<1>s. UNCHANGED <<rd, head, count>> => InOrder' = InOrder
  BY DEF InOrder, OrderOf, Ring
<1>1. CASE UNCHANGED vars
  BY <1>1, <1>s DEF vars, ring
<1>2. CASE Tick
  BY <1>2, <1>s DEF Tick, ring
<1>3. CASE Capture
  <2>1. PICK ports \in SUBSET DOMAIN station.ports : Put(Captured(ports))
    BY <1>3 DEF Capture
  <2>2. QED
    BY <1>i, <2>1, CapturedExtends DEF Log!Next
<1>4. CASE Delete
  <2>1. CASE \E p \in DOMAIN station.ports : Put(WithoutPort(p))
    BY <1>i, <2>1, WithoutPortDrops DEF Log!Next
  <2>2. CASE rd' = rd /\ head' = 0 /\ count' = 0
    <3> DEFINE q == [rd |-> rd, head |-> 0, count |-> 0]
    <3>1. Good(q) /\ Put(q) /\ OrderOf(q) = <<>>
      BY <1>i, <2>2, NothingLeft
    <3> HIDE DEF q
    <3>2. InOrder' = <<>>
      BY <3>1, PutFacts
    <3>3. QED
      BY <3>2 DEF Log!Next, Log!Wipe
  <2>3. QED
    BY <1>4, <2>1, <2>2 DEF Delete
<1>5. CASE Uplink
  BY <1>5, <1>s DEF Uplink, ring
<1>6. CASE Infer
  <2>1. PICK ports \in SUBSET DOMAIN station.ports : Put(Captured(ports))
    BY <1>6 DEF Infer
  <2>2. QED
    BY <1>i, <2>1, CapturedExtends DEF Log!Next
<1>7. CASE Reset
  <2>1. Good(Restored) /\ OrderOf(Restored) = InOrder /\ Put(Restored)
    BY <1>i, <1>7, RestoredFacts DEF Reset
  <2>2. QED
    BY <2>1, PutFacts
<1>8. QED
  BY <1>1, <1>2, <1>3, <1>4, <1>5, <1>6, <1>7 DEF Next

(* Through resets, deletions and the ring coming round, what storage_flash.c *)
(* holds is the log that ReadingLog promises, whatever the ring's size and   *)
(* the stations' ports are.                                                  *)
THEOREM RingOfALog == Spec => RingIsALog
<1>1. Init => Log!Init
  <2> SUFFICES ASSUME Init PROVE InOrder = <<>>
    BY DEF Log!Init
  <2>1. TypeOK /\ RingOK /\ count = 0
    BY InitInvariant DEF IInv, Init
  <2>2. InOrder \in Seq(Reading) /\ Len(InOrder) = 0
    BY <2>1, OwnRing
  <2> DEFINE b == InOrder
  <2> HIDE DEF b
  <2>3. b = <<>>
    BY <2>2 DEF b
  <2>4. QED
    BY <2>3 DEF b
<1>2. QED
  BY <1>1, StepOfLog, InductiveInvariant, PTL DEF Spec, RingIsALog, Log!Spec

-----------------------------------------------------------------------------
(* What the model is fed.                                                    *)

\* Where step k of a filled series comes from.
Source(P, k) ==
  LET before == {j \in P : j <= k} IN IF before = {} THEN Min(P) ELSE Max(before)

LEMMA PresentFacts ==
  ASSUME NEW x
  PROVE  /\ Present(x) \in SUBSET Slots /\ Present(x) \in SUBSET Int /\ IsFiniteSet(Present(x))
         /\ Cardinality(Present(x)) \in Nat
         /\ Cardinality(Present(x)) = 0 => Present(x) = {}
<1> DEFINE P == Present(x)
<1>1. P \in SUBSET Slots
  BY DEF Present
<1>2. IsFiniteSet(Slots) /\ Slots \in SUBSET Int
  <2>1. 1 \in Int /\ Past \in Int /\ 1..Past \in SUBSET Int
    BY Sizes
  <2>2. QED
    BY <2>1, FS_Interval DEF Slots
<1> HIDE DEF P
<1>3. IsFiniteSet(P)
  BY <1>1, <1>2, FS_Subset
<1>4. Cardinality(P) \in Nat /\ (Cardinality(P) = 0 => P = {})
  BY <1>3, FS_CardinalityType, FS_EmptySet
<1>5. QED
  BY <1>1, <1>2, <1>3, <1>4 DEF P

LEMMA SourceFacts ==
  ASSUME NEW x, Present(x) # {}, NEW k \in Slots
  PROVE  LET P == Present(x)
             m == Source(P, k)
         IN  /\ m \in P
             /\ \/ m <= k /\ \A j \in P : j <= k => j <= m
                \/ m > k /\ m = Min(P) /\ \A j \in P : j > k
             /\ k \in P => m = k
<1> DEFINE P == Present(x)
           m == Source(P, k)
           B == {j \in P : j <= k}
<1>1. P \in SUBSET Slots /\ P \in SUBSET Int /\ IsFiniteSet(P) /\ k \in Int
  BY PresentFacts DEF Slots
<1>2. B \in SUBSET P /\ B \in SUBSET Int
  BY <1>1
<1>3. IsFiniteSet(B)
  <2> HIDE DEF B, P
  <2>1. QED
    BY <1>1, <1>2, FS_Subset
<1>4. m = IF B = {} THEN Min(P) ELSE Max(B)
  BY DEF Source
<1>5. \A j : j \in B <=> j \in P /\ j <= k
  OBVIOUS
<1> HIDE DEF B, P, m
<1>6. CASE B = {}
  <2>1. \A j \in P : j > k
    BY <1>1, <1>5, <1>6
  <2>2. Min(P) \in P
    BY <1>1, Extremes DEF P
  <2>k. k \notin P
    <3>1. ~(k > k)
      BY <1>1
    <3>2. QED
      BY <2>1, <3>1
  <2>m. m = Min(P)
    BY <1>4, <1>6
  <2>3. m \in P /\ m > k /\ m = Min(P) /\ k \notin P
    BY <2>1, <2>2, <2>k, <2>m
  <2>4. QED
    BY <2>1, <2>3 DEF P, m
<1>7. CASE B # {}
  <2>1. Max(B) \in B /\ \A y \in B : y <= Max(B)
    BY <1>2, <1>3, <1>7, Extremes
  <2>2. m \in P /\ m <= k /\ \A j \in P : j <= k => j <= m
    BY <1>4, <1>5, <1>7, <2>1
  <2>3. k \in P => m = k
    <3>1. SUFFICES ASSUME k \in P PROVE m = k
      OBVIOUS
    <3>2. m \in Int /\ k <= k
      BY <1>1, <2>2
    <3>3. k <= m
      BY <2>2, <3>1, <3>2
    <3>4. QED
      BY <1>1, <2>2, <3>2, <3>3
  <2>4. QED
    BY <2>2, <2>3 DEF P, m
<1>8. QED
  BY <1>6, <1>7

\* A step no hour of its own was there for takes one at most the widest gap
\* before it, when the last hour is there.
LEMMA GapFacts ==
  ASSUME NEW x, Past \in Present(x), ~(WorstGap(x) > MaxGap), NEW k \in Slots
  PROVE  Source(Present(x), k) >= k - MaxGap
<1> DEFINE P == Present(x)
           m == Source(P, k)
           G == {g \in Slots : \E a \in P : /\ a + g + 1 \in P
                                            /\ \A c \in 1..g : a + c \notin P}
           H == {0} \cup G
<1>1. P \in SUBSET Slots /\ P \in SUBSET Int /\ IsFiniteSet(P) /\ k \in Int /\ MaxGap \in Nat
  BY PresentFacts, Sizes DEF Slots
<1>2. /\ m \in P
      /\ \/ m <= k /\ \A j \in P : j <= k => j <= m
         \/ m > k
      /\ k \in P => m = k
  BY SourceFacts
<1>3. Past \in P /\ k \in 1..Past /\ Past \in Nat
  BY Sizes DEF Slots
<1>4. WorstGap(x) = Max(H)
  BY DEF WorstGap
<1>5. \A y \in H : y <= Max(H) /\ y \in Int /\ Max(H) \in Int
  <2>1. IsFiniteSet(Slots) /\ Slots \in SUBSET Int
    <3>1. 1 \in Int /\ Past \in Int /\ 1..Past \in SUBSET Int
      BY Sizes
    <3>2. QED
      BY <3>1, FS_Interval DEF Slots
  <2>2. G \in SUBSET Slots
    OBVIOUS
  <2> HIDE DEF G
  <2>3. IsFiniteSet(G)
    BY <2>1, <2>2, FS_Subset
  <2>4. IsFiniteSet(H)
    <3>1. IsFiniteSet(G \cup {0}) /\ H = G \cup {0}
      BY <2>3, FS_AddElement
    <3>2. QED
      BY <3>1
  <2>5. H \in SUBSET Int /\ H # {}
    BY <2>1, <2>2
  <2> HIDE DEF H
  <2>6. Max(H) \in H /\ \A y \in H : y <= Max(H)
    BY <2>4, <2>5, Extremes
  <2>7. QED
    BY <2>5, <2>6
<1>g. ASSUME NEW a \in P, NEW g \in Slots, a + g + 1 \in P, \A c \in 1..g : a + c \notin P
      PROVE  g <= MaxGap
  <2>1. g \in H
    BY <1>g
  <2> HIDE DEF H
  <2>2. QED
    BY <1>1, <1>4, <1>5, <2>1
<1> DEFINE A == {j \in P : j > k}
<1>6. A \in SUBSET P /\ \A j : j \in A <=> j \in P /\ j > k
  OBVIOUS
<1> HIDE DEF P, m, G, H, A
<1>7. CASE m >= k
  BY <1>1, <1>2, <1>7 DEF m, P
<1>8. CASE ~(m >= k)
  <2>1. m \in Int /\ m \in 1..Past /\ m < k /\ k \notin P /\ k # Past
    BY <1>1, <1>2, <1>3, <1>8 DEF Slots
  <2>2. IsFiniteSet(A) /\ A \in SUBSET Int /\ Past \in A
    BY <1>1, <1>3, <1>6, <2>1, FS_Subset
  <2>3. Min(A) \in A /\ \A y \in A : Min(A) <= y
    BY <2>2, Extremes
  <2> DEFINE j == Min(A)
             g == j - m - 1
  <2>4. j \in P /\ j > k /\ j \in Int /\ j \in 1..Past /\ \A y \in P : y > k => j <= y
    BY <1>1, <1>6, <2>3 DEF Slots
  <2> HIDE DEF j
  <2>5. g \in Slots /\ m + g + 1 = j /\ k - m <= g
    BY <1>1, <1>3, <2>1, <2>4 DEF Slots
  <2>n. \A y \in P : y <= k => y <= m
    BY <1>1, <1>2, <2>1
  <2>6. ASSUME NEW c \in 1..g PROVE m + c \notin P
    <3>1. m + c \in Int /\ m + c > m /\ m + c < j
      BY <2>1, <2>4, <2>5, <2>6
    <3>2. CASE m + c <= k
      <4>1. ~(m + c <= m)
        BY <2>1, <3>1
      <4>2. QED
        BY <2>n, <3>2, <4>1
    <3>3. CASE m + c > k
      BY <2>4, <3>1, <3>3
    <3>4. QED
      BY <1>1, <3>1, <3>2, <3>3
  <2> HIDE DEF g
  <2>7. g <= MaxGap
    BY <1>2, <1>g, <2>4, <2>5, <2>6
  <2>8. m >= k - MaxGap
    BY <1>1, <2>1, <2>5, <2>7 DEF Slots
  <2>9. QED
    BY <2>8 DEF m, P
<1>9. QED
  BY <1>7, <1>8

\* What ForecastIsReal says of a forecast's window for one depth.
RealWindow(w, hr) ==
  /\ {t \div Hour : t \in w[Past]} = {hr}
  /\ Cardinality({w[k] : k \in 1..Past}) >= MinReal
  /\ \A k \in 1..Past : \E h \in 1..hr :
       /\ {t \div Hour : t \in w[k]} = {h}
       /\ h > (hr - Past + k) - MaxGap - 1
       /\ h <= hr - Past + k \/ \A j \in 1..k : w[j] = w[k]

LEMMA FilledIsReal ==
  ASSUME NEW hr \in Nat, NEW x \in [Slots -> SUBSET Nat],
         \A k \in Slots : \A t \in x[k] : HourOf(t) = hr - Past + k /\ HourOf(t) >= 1,
         ~(Cardinality(Present(x)) < MinReal), ~(NewestAge(x) > 0), ~(WorstGap(x) > MaxGap)
  PROVE  RealWindow(Filled(x), hr)
<1> DEFINE P == Present(x)
           w == Filled(x)
<1>1. P \in SUBSET Slots /\ P \in SUBSET Int /\ IsFiniteSet(P) /\ P # {}
  <2>a. Cardinality(P) \in Nat
    BY PresentFacts
  <2>b. ~(Cardinality(P) < MinReal)
    OBVIOUS
  <2>1. Cardinality(P) \in Nat /\ Cardinality(P) # 0
    <3> HIDE DEF P
    <3>1. QED
      BY <2>a, <2>b, Sizes
  <2>2. QED
    BY <2>1, PresentFacts, FS_EmptySet
<1>2. \A k \in Slots : k \in P <=> x[k] # {}
  BY DEF Present
<1>3. \A k \in Slots : w[k] = x[Source(P, k)]
  BY DEF Filled, Source
<1>4. Past \in P
  <2>1. Max(P) \in P
    <3> HIDE DEF P
    <3>1. QED
      BY <1>1, Extremes
  <2>2. ~(Past - Max(P) > 0)
    BY DEF NewestAge
  <2> HIDE DEF P
  <2>3. Max(P) \in 1..Past
    BY <1>1, <2>1 DEF Slots
  <2>4. Max(P) = Past
    BY <2>2, <2>3, Sizes
  <2>5. QED
    BY <2>1, <2>4
<1>5. ASSUME NEW k \in Slots
      PROVE  /\ Source(P, k) \in P /\ Source(P, k) \in Slots
             /\ \/ Source(P, k) <= k
                \/ Source(P, k) = Min(P) /\ \A j \in P : j > k
             /\ k \in P => Source(P, k) = k
  BY <1>1, SourceFacts
<1>g. \A k \in Slots : Source(P, k) >= k - MaxGap
  BY <1>4, GapFacts
<1> HIDE DEF P, w
<1>6. \A k \in P : {HourOf(t) : t \in x[k]} = {hr - Past + k} /\ hr - Past + k \in 1..hr
  <2> SUFFICES ASSUME NEW k \in P
               PROVE  {HourOf(t) : t \in x[k]} = {hr - Past + k} /\ hr - Past + k \in 1..hr
    OBVIOUS
  <2>1. k \in Slots /\ k \in 1..Past /\ x[k] # {}
    BY <1>1, <1>2 DEF Slots
  <2>2. PICK t \in x[k] : TRUE
    BY <2>1
  <2>3. HourOf(t) = hr - Past + k /\ HourOf(t) >= 1
    BY <2>1
  <2>4. {HourOf(u) : u \in x[k]} = {hr - Past + k}
    BY <2>1, <2>2
  <2>5. hr - Past + k >= 1 /\ hr - Past + k <= hr
    BY <2>1, <2>3, Sizes
  <2>6. QED
    BY <2>1, <2>4, <2>5, Sizes
<1>7. 1..Past = Slots /\ Past \in Slots
  BY Sizes DEF Slots
<1>8. {HourOf(t) : t \in w[Past]} = {hr}
  <2>1. w[Past] = x[Past] /\ hr - Past + Past = hr
    BY <1>3, <1>4, <1>5, <1>7, Sizes
  <2>2. QED
    BY <1>4, <1>6, <2>1
<1>9. Cardinality({w[k] : k \in Slots}) >= MinReal
  <2> DEFINE T == {w[k] : k \in Slots}
             f == [k \in Slots |-> w[k]]
             i == [k \in P |-> x[k]]
  <2>1. f \in Surjection(Slots, T)
    BY DEF Surjection
  <2>2. IsFiniteSet(Slots)
    <3>1. 1 \in Int /\ Past \in Int
      BY Sizes
    <3>2. QED
      BY <3>1, FS_Interval DEF Slots
  <2>3. \A k \in P : x[k] \in T
    <3> SUFFICES ASSUME NEW k \in P PROVE x[k] \in T
      OBVIOUS
    <3>1. k \in Slots /\ w[k] = x[k]
      BY <1>1, <1>3, <1>5
    <3>2. QED
      BY <3>1
  <2> HIDE DEF T, f
  <2>4. IsFiniteSet(T)
    BY <2>1, <2>2, FS_Surjection
  <2>5. \A k, j \in P : x[k] = x[j] => k = j
    <3> SUFFICES ASSUME NEW k \in P, NEW j \in P, x[k] = x[j] PROVE k = j
      OBVIOUS
    <3>1. hr - Past + k = hr - Past + j
      BY <1>6
    <3>2. k \in Int /\ j \in Int
      BY <1>1
    <3>3. QED
      BY <3>1, <3>2, Sizes
  <2>6. i \in Injection(P, T)
    <3>1. i \in [P -> T] /\ \A k \in P : i[k] = x[k]
      BY <2>3
    <3> HIDE DEF i
    <3>2. \A k, j \in P : i[k] = i[j] => k = j
      BY <2>5, <3>1
    <3>3. QED
      BY <3>1, <3>2 DEF Injection, IsInjective
  <2> HIDE DEF i
  <2>7. Cardinality(P) <= Cardinality(T)
    BY <2>4, <2>6, FS_Injection
  <2>8. Cardinality(P) \in Nat /\ Cardinality(T) \in Nat
    BY <1>1, <2>4, FS_CardinalityType
  <2>9. ~(Cardinality(P) < MinReal)
    BY DEF P
  <2>10. Cardinality(T) >= MinReal
    BY <2>7, <2>8, <2>9, Sizes
  <2>11. QED
    BY <2>10 DEF T
<1>10. ASSUME NEW k \in Slots
       PROVE  \E h \in 1..hr :
                /\ {HourOf(t) : t \in w[k]} = {h}
                /\ h > (hr - Past + k) - MaxGap - 1
                /\ h <= hr - Past + k \/ \A j \in 1..k : w[j] = w[k]
  <2> DEFINE m == Source(P, k)
             h == hr - Past + m
  <2>1. m \in P /\ w[k] = x[m] /\ m \in Int /\ k \in Int
    BY <1>1, <1>3, <1>5 DEF Slots
  <2>i. m \in Int /\ k \in Int
    BY <2>1
  <2>2. h \in 1..hr /\ {HourOf(t) : t \in w[k]} = {h}
    BY <1>6, <2>1
  <2>3. m >= k - MaxGap
    BY <1>g
  <2>5. m <= k \/ (m = Min(P) /\ \A j \in P : j > k)
    BY <1>5
  <2> HIDE DEF m
  <2>4. h > (hr - Past + k) - MaxGap - 1
    BY <2>1, <2>3, Sizes
  <2>6. h <= hr - Past + k \/ \A j \in 1..k : w[j] = w[k]
    <3>1. CASE m <= k
      BY <2>1, <3>1, Sizes
    <3>2. CASE m = Min(P) /\ \A j \in P : j > k
      <4> SUFFICES ASSUME NEW j \in 1..k PROVE w[j] = w[k]
        OBVIOUS
      <4>1. j \in Slots /\ j <= k /\ j \in Int
        BY Sizes DEF Slots
      <4>2. \A i \in P : i > j
        <5> SUFFICES ASSUME NEW i \in P PROVE i > j
          OBVIOUS
        <5>1. i > k /\ i \in Int
          BY <1>1, <3>2
        <5>2. QED
          BY <2>i, <4>1, <5>1
      <4>3. {i \in P : i <= j} = {}
        <5> SUFFICES ASSUME NEW i \in P PROVE ~(i <= j)
          OBVIOUS
        <5>1. i > j /\ i \in Int
          BY <1>1, <4>2
        <5>2. j \in Int
          BY <4>1
        <5>3. QED
          BY <5>1, <5>2
      <4>4. Source(P, j) = Min(P)
        BY <4>3 DEF Source
      <4>5. QED
        BY <1>3, <2>1, <3>2, <4>1, <4>4
    <3>3. QED
      BY <2>5, <3>1, <3>2
  <2> HIDE DEF h
  <2>7. QED
    BY <2>2, <2>4, <2>6
<1>11. QED
  BY <1>7, <1>8, <1>9, <1>10 DEF RealWindow, w, HourOf

\* The series of a window of hours.
WindowAggsOf(s) == Aggregate(s, SlotHour(1) * Hour, WindowTo, WindowAggs)

LEMMA SeriesFacts ==
  ASSUME TypeOK, NEW s \in Seq(Reading), Timely(s), NEW dep
  PROVE  LET A == WindowAggsOf(s)
         IN  /\ Aggregated(A, s, Len(s), SlotHour(1) * Hour, WindowTo, WindowAggs)
             /\ Real(A, dep) \in [Slots -> SUBSET Nat]
             /\ \A k \in Slots : \A t \in Real(A, dep)[k] :
                  HourOf(t) = HourOf(now) - Past + k /\ HourOf(t) >= 1
<1> DEFINE A == WindowAggsOf(s)
           x == Real(A, dep)
           from == SlotHour(1) * Hour
<1>1. now \in Nat /\ HourOf(now) \in Nat
  BY StationFacts, HourFacts
<1>2. from \in Int /\ WindowTo \in Int /\ WindowAggs \in Nat
  BY <1>1, Sizes DEF SlotHour, WindowTo
<1>3. Aggregated(A, s, Len(s), from, WindowTo, WindowAggs)
  <2> HIDE DEF from
  <2>1. QED
    BY <1>2, AggregateFacts DEF WindowAggsOf, from
<1> HIDE DEF A, from
<1>4. A \in Seq(Bucket) /\ Range(A) = {A[j] : j \in 1..Len(A)}
  <2>1. A \in Seq(Bucket)
    BY <1>3 DEF Aggregated, Sound
  <2>2. QED
    BY <2>1 DEF Range
<1>5. ASSUME NEW k \in Slots, NEW t \in x[k]
      PROVE  t \in Nat /\ HourOf(t) = HourOf(now) - Past + k /\ HourOf(t) >= 1
  <2>1. PICK b \in Range(A) : t \in b.of /\ b.hour = SlotHour(k)
    BY DEF Real
  <2>2. PICK j \in 1..Len(A) : b = A[j]
    BY <1>4, <2>1
  <2>3. PICK i \in 1..Len(s) : s[i].ts = t /\ Holds(A[j], s[i])
    BY <1>3, <2>1, <2>2 DEF Aggregated, Sound
  <2>4. HourOf(t) = SlotHour(k) /\ t \in Hour..now
    BY <2>1, <2>2, <2>3 DEF Holds, Timely
  <2>5. HourOf(t) \in 1..HourOf(now) /\ t \in Nat
    BY <2>4, HoursOfTime, <1>1, Sizes
  <2>6. QED
    BY <2>4, <2>5, <1>1 DEF SlotHour
<1>6. x \in [Slots -> SUBSET Nat]
  <2>1. x = [k \in Slots |-> x[k]]
    BY DEF Real
  <2>2. \A k \in Slots : x[k] \in SUBSET Nat
    BY <1>5
  <2> HIDE DEF x
  <2>3. QED
    BY <2>1, <2>2
<1>7. QED
  BY <1>3, <1>5, <1>6 DEF A, from

IsReal(f) == f.status = "ok" => \A dep \in Soil : RealWindow(f.window[dep], f.hour)

LEMMA GatheredIsReal ==
  ASSUME TypeOK, NEW s \in Seq(Reading), Timely(s), NEW ports, NEW taFull
  PROVE  IsReal(Gathered(s, ports, taFull))
<1> DEFINE A == WindowAggsOf(s)
           x == [dep \in Soil |-> Real(A, dep)]
           F == Gathered(s, ports, taFull)
<1>1. SUFFICES ASSUME F.status = "ok", NEW dep \in Soil PROVE RealWindow(F.window[dep], F.hour)
  BY DEF IsReal
<1>2. /\ ~(Cardinality(Present(x[dep])) < MinReal)
      /\ ~(NewestAge(x[dep]) > 0)
      /\ ~(WorstGap(x[dep]) > MaxGap)
      /\ F.window = [d \in Soil |-> Filled(x[d])] /\ F.hour = HourOf(now)
  <2> DEFINE status == IF \E d \in Soil : Cardinality(Present(x[d])) < MinReal THEN "short"
                       ELSE IF \E d \in Soil : NewestAge(x[d]) > 0 THEN "stale"
                       ELSE IF \E d \in Soil : WorstGap(x[d]) > MaxGap THEN "gap"
                       ELSE IF ~taFull THEN "no_forecast" ELSE "ok"
             win == IF status = "ok" THEN [d \in Soil |-> Filled(x[d])] ELSE <<>>
  <2>1. F = [status |-> status, asked |-> ports, hour |-> HourOf(now), window |-> win]
    BY DEF Gathered, WindowAggsOf
  <2> HIDE DEF win, x, F
  <2>2. F.status = status /\ F.window = win /\ F.hour = HourOf(now)
    BY <2>1
  <2>3. status = "ok"
    BY <1>1, <2>2
  <2>4. /\ ~(\E d \in Soil : Cardinality(Present(x[d])) < MinReal)
        /\ ~(\E d \in Soil : NewestAge(x[d]) > 0)
        /\ ~(\E d \in Soil : WorstGap(x[d]) > MaxGap)
    BY <2>3
  <2>5. win = [d \in Soil |-> Filled(x[d])]
    BY <2>3 DEF win
  <2>6. QED
    BY <2>2, <2>4, <2>5
<1>3. x[dep] = Real(A, dep)
  OBVIOUS
<1>4. /\ x[dep] \in [Slots -> SUBSET Nat]
      /\ \A k \in Slots : \A t \in x[dep][k] :
           HourOf(t) = HourOf(now) - Past + k /\ HourOf(t) >= 1
  BY <1>3, SeriesFacts
<1>5. HourOf(now) \in Nat
  BY StationFacts, HourFacts
<1> HIDE DEF x, F
<1>6. RealWindow(Filled(x[dep]), HourOf(now))
  BY <1>2, <1>4, <1>5, FilledIsReal
<1>7. F.window[dep] = Filled(x[dep])
  BY <1>2
<1>8. QED
  BY <1>2, <1>6, <1>7 DEF F

(* Every step the model is fed is the mean of one hour, its own or one at    *)
(* most MaxGap before it, save those before the first hour there is; the     *)
(* last is of the hour being forecast from, and MinReal at least are real:   *)
(* for every window's length and every gap allowed (lstm_input.c).           *)
THEOREM ForecastRests == Spec => []ForecastIsReal
<1>1. ForecastIsReal <=> IsReal(forecast)
  BY DEF ForecastIsReal, IsReal, RealWindow
<1>2. Init => ForecastIsReal
  BY DEF Init, NoForecast, ForecastIsReal
<1>3. IInv /\ ForecastIsReal /\ [Next]_vars => ForecastIsReal'
  <2> SUFFICES ASSUME IInv, ForecastIsReal, [Next]_vars PROVE ForecastIsReal'
    OBVIOUS
  <2>1. CASE forecast' = forecast
    BY <2>1 DEF ForecastIsReal
  <2>2. CASE forecast' = NoForecast
    BY <2>2 DEF ForecastIsReal, NoForecast
  <2>3. CASE Infer
    <3>1. PICK ports \in SUBSET DOMAIN station.ports, taFull \in BOOLEAN :
            forecast' = Gathered(OrderOf(Captured(ports)), ports, taFull)
      BY <2>3 DEF Infer
    <3>2. TypeOK /\ RingOK /\ SampledInTime /\ MaySample
      BY <2>3 DEF IInv, Infer
    <3>3. OrderOf(Captured(ports)) \in Seq(Reading) /\ Timely(OrderOf(Captured(ports)))
      BY <3>2, CapturedFacts, CapturedTimely, OrderFacts
    <3>4. IsReal(forecast')
      BY <3>1, <3>2, <3>3, GatheredIsReal
    <3>5. QED
      BY <3>4 DEF ForecastIsReal, IsReal, RealWindow
  <2>4. QED
    BY <2>1, <2>2, <2>3 DEF Next, Tick, Capture, Delete, Uplink, Reset, vars
<1>4. QED
  BY <1>2, <1>3, InductiveInvariant, PTL DEF Spec

-----------------------------------------------------------------------------
(* A fresh sample is not stale.                                              *)

\* What a station measures: each depth of each port.
SeriesOf(st) == UNION {{p} \X Range(st.ports[p]) : p \in DOMAIN st.ports}

\* There is room for a bucket of every hour of the window and every series, and
\* the ring takes a whole sampling.
RoomForAll ==
  \A st \in Stations :
    /\ Past * Cardinality(SeriesOf(st)) <= WindowAggs
    /\ \E k \in Nat : (\A p \in DOMAIN st.ports : Len(st.ports[p]) <= k) /\ Len(st.ports) * k <= Cap

LEMMA SeriesFinite ==
  ASSUME TypeOK
  PROVE  /\ IsFiniteSet(SeriesOf(station))
         /\ \A p \in DOMAIN station.ports : \A d \in Range(station.ports[p]) :
              <<p, d>> \in SeriesOf(station)
<1> DEFINE D == DOMAIN station.ports
           f == [p \in D |-> {p} \X Range(station.ports[p])]
           S == {{p} \X Range(station.ports[p]) : p \in D}
<1>1. IsFiniteSet(D)
  <2>1. D = 1..Len(station.ports) /\ Len(station.ports) \in Int /\ 1 \in Int
    BY StationFacts
  <2>2. QED
    BY <2>1, FS_Interval
<1>2. f \in Surjection(D, S)
  BY DEF Surjection
<1>3. IsFiniteSet(S)
  <2> HIDE DEF f, S, D
  <2>1. QED
    BY <1>1, <1>2, FS_Surjection
<1>4. ASSUME NEW p \in D PROVE IsFiniteSet({p} \X Range(station.ports[p]))
  <2> DEFINE r == station.ports[p]
             E == DOMAIN r
             g == [i \in E |-> r[i]]
  <2>1. r \in Seq(Nat)
    BY StationFacts
  <2>2. E = 1..Len(r) /\ Len(r) \in Int /\ 1 \in Int
    <3> HIDE DEF r
    <3>1. QED
      BY <2>1
  <2>3. IsFiniteSet(E)
    BY <2>2, FS_Interval
  <2>4. g \in Surjection(E, Range(r))
    BY DEF Surjection, Range
  <2> HIDE DEF g, E, r
  <2>5. IsFiniteSet(Range(r))
    BY <2>3, <2>4, FS_Surjection
  <2>6. IsFiniteSet({p})
    BY FS_Singleton
  <2>7. IsFiniteSet({p} \X Range(r))
    BY <2>5, <2>6, FS_Product
  <2>8. QED
    BY <2>7 DEF r
<1>5. \A T \in S : IsFiniteSet(T)
  BY <1>4
<1>6. SeriesOf(station) = UNION S
  BY DEF SeriesOf
<1>7. IsFiniteSet(UNION S)
  <2> HIDE DEF S, f
  <2>1. QED
    BY <1>3, <1>5, FS_UNION
<1>8. \A p \in D : \A d \in Range(station.ports[p]) : <<p, d>> \in UNION S
  OBVIOUS
<1>9. QED
  BY <1>6, <1>7, <1>8

\* Where a window's hours begin and end.
LEMMA WindowFacts ==
  ASSUME TypeOK
  PROVE  /\ SlotHour(1) * Hour <= now /\ now < WindowTo
         /\ SlotHour(1) \in Int /\ SlotHour(1) * Hour \in Int /\ WindowTo \in Int
         /\ \A t \in Hour..now : SlotHour(1) * Hour <= t => HourOf(t) \in SlotHour(1)..HourOf(now)
<1> DEFINE h == HourOf(now)
           a == SlotHour(1)
<1>1. now \in Nat /\ h \in Nat /\ h * Hour <= now /\ now < (h + 1) * Hour
  BY StationFacts, HourFacts
<1>2. a \in Int /\ a <= h
  BY <1>1, Sizes DEF SlotHour
<1>3. WindowTo = (h + 1) * Hour
  BY DEF WindowTo
<1> HIDE DEF h, a
<1>4. a * Hour <= h * Hour
  BY <1>1, <1>2, Sizes
<1>5. a * Hour \in Int /\ h * Hour \in Int /\ (h + 1) * Hour \in Int
  BY <1>1, <1>2, Sizes
<1>6. a * Hour <= now
  <2> DEFINE b == a * Hour
             c == h * Hour
  <2>1. b \in Int /\ c \in Int /\ b <= c /\ c <= now
    BY <1>1, <1>4, <1>5
  <2> HIDE DEF b, c
  <2>2. b <= now
    BY <1>1, <2>1
  <2>3. QED
    BY <2>2 DEF b
<1>7. ASSUME NEW t \in Hour..now, a * Hour <= t PROVE HourOf(t) \in a..h
  <2>1. t \in Nat /\ HourOf(t) \in 1..h /\ HourOf(t) \in Nat
    <3>1. t \in Nat
      BY <1>1, Sizes
    <3>2. HourOf(t) \in 1..h
      BY HoursOfTime DEF h
    <3>3. QED
      BY <3>1, <3>2, HourFacts
  <2>2. CASE a \in Nat
    <3>1. a <= HourOf(t)
      BY <1>7, <2>1, <2>2, HourOfBeginning
    <3>2. QED
      BY <1>1, <1>2, <2>1, <3>1
  <2>3. CASE a \notin Nat
    BY <1>1, <1>2, <2>1, <2>3
  <2>4. QED
    BY <2>2, <2>3
<1>8. QED
  BY <1>1, <1>2, <1>3, <1>5, <1>6, <1>7 DEF a, h

\* There are never as many buckets as there is room for, while one is missing.
LEMMA RoomLeft ==
  ASSUME TypeOK, RoomForAll, NEW s \in Seq(Reading), Timely(s), NEW r \in Reading,
         r.ts = now, r.port \in DOMAIN station.ports, r.depth \in Range(station.ports[r.port]),
         \A j \in 1..Len(WindowAggsOf(s)) : ~Holds(WindowAggsOf(s)[j], r)
  PROVE  Len(WindowAggsOf(s)) # WindowAggs
<1> DEFINE A == WindowAggsOf(s)
           from == SlotHour(1) * Hour
           I == SlotHour(1)..HourOf(now)
           T == SeriesOf(station)
           K == I \X T
           key == <<HourOf(now), <<r.port, r.depth>>>>
           f == [j \in 1..Len(A) |-> <<A[j].hour, <<A[j].port, A[j].depth>>>>]
<1>1. Sound(A, s, Len(s), from, WindowTo)
  BY SeriesFacts DEF Aggregated
<1> HIDE DEF A
<1>2. HourOf(now) \in Int /\ SlotHour(1) = HourOf(now) - Past + 1 /\ Past \in Nat /\ Past > 0
  BY StationFacts, HourFacts, Sizes DEF SlotHour
<1>3. IsFiniteSet(I) /\ Cardinality(I) = Past
  <2>1. SlotHour(1) \in Int /\ SlotHour(1) <= HourOf(now)
    BY <1>2
  <2>2. IsFiniteSet(I) /\ Cardinality(I) = HourOf(now) - SlotHour(1) + 1
    BY <1>2, <2>1, FS_Interval
  <2> HIDE DEF I
  <2>3. QED
    BY <1>2, <2>2
<1>4. IsFiniteSet(T) /\ Past * Cardinality(T) <= WindowAggs /\ Cardinality(T) \in Nat
  <2>1. IsFiniteSet(T) /\ station \in Stations
    BY SeriesFinite, StationFacts
  <2>2. Past * Cardinality(T) <= WindowAggs
    BY <2>1 DEF RoomForAll
  <2> HIDE DEF T
  <2>3. QED
    BY <2>1, <2>2, FS_CardinalityType
<1>5. key \in K
  <2>1. HourOf(now) \in I
    BY <1>2
  <2>2. <<r.port, r.depth>> \in T
    BY SeriesFinite
  <2> HIDE DEF I, T
  <2>3. QED
    BY <2>1, <2>2
<1>6. \A j \in 1..Len(A) : f[j] \in K \ {key}
  <2> SUFFICES ASSUME NEW j \in 1..Len(A)
               PROVE <<A[j].hour, <<A[j].port, A[j].depth>>>> \in K \ {key}
    OBVIOUS
  <2>1. PICK t \in A[j].of : TRUE
    BY <1>1 DEF Sound
  <2>2. PICK i \in 1..Len(s) : s[i].ts = t /\ Holds(A[j], s[i]) /\ Asked(s[i], from, WindowTo)
    BY <1>1 DEF Sound
  <2>3. /\ s[i].ts \in Hour..now /\ s[i].port \in DOMAIN station.ports
        /\ s[i].depth \in Range(station.ports[s[i].port]) /\ from <= s[i].ts
    BY <2>2 DEF Timely, Asked
  <2>4. HourOf(s[i].ts) \in I
    BY <2>3, WindowFacts
  <2>5. <<s[i].port, s[i].depth>> \in T
    BY <2>3, SeriesFinite
  <2>6. A[j].hour = HourOf(s[i].ts) /\ A[j].port = s[i].port /\ A[j].depth = s[i].depth
    BY <2>2 DEF Holds
  <2>7. ~(A[j].hour = HourOf(now) /\ A[j].port = r.port /\ A[j].depth = r.depth)
    BY DEF Holds, A
  <2> HIDE DEF I, T
  <2>8. <<A[j].hour, <<A[j].port, A[j].depth>>>> \in K
    BY <2>4, <2>5, <2>6
  <2>9. <<A[j].hour, <<A[j].port, A[j].depth>>>> # key
    BY <2>7
  <2>10. QED
    BY <2>8, <2>9
<1>7. \A i, j \in 1..Len(A) : f[i] = f[j] => i = j
  <2> SUFFICES ASSUME NEW i \in 1..Len(A), NEW j \in 1..Len(A), f[i] = f[j] PROVE i = j
    OBVIOUS
  <2>1. A[i].hour = A[j].hour /\ A[i].port = A[j].port /\ A[i].depth = A[j].depth
    OBVIOUS
  <2>2. QED
    BY <1>1, <2>1 DEF Sound
<1>8. f \in [1..Len(A) -> K \ {key}]
  BY <1>6
<1>9. IsFiniteSet(K) /\ Cardinality(K) = Past * Cardinality(T)
  <2> HIDE DEF I, T
  <2>1. QED
    BY <1>3, <1>4, FS_Product
<1> HIDE DEF K, key, f, T
<1>10. IsFiniteSet(K \ {key}) /\ Cardinality(K \ {key}) = Cardinality(K) - 1
  BY <1>5, <1>9, FS_RemoveElement
<1>11. f \in Injection(1..Len(A), K \ {key})
  BY <1>7, <1>8 DEF Injection, IsInjective
<1>12. Len(A) \in Nat /\ Cardinality(1..Len(A)) = Len(A)
  <2>1. Len(A) \in Nat
    BY <1>1 DEF Sound
  <2>2. 1 \in Int /\ Len(A) \in Int
    BY <2>1
  <2>3. Cardinality(1..Len(A)) = IF 1 > Len(A) THEN 0 ELSE Len(A) - 1 + 1
    BY <2>2, FS_Interval
  <2> DEFINE n == Len(A)
             c == Cardinality(1..n)
  <2> HIDE DEF c, n
  <2>4. c = n
    BY <2>1, <2>3 DEF c, n
  <2>5. QED
    BY <2>1, <2>4 DEF c, n
<1>13. Len(A) <= Cardinality(K \ {key})
  BY <1>10, <1>11, <1>12, FS_Injection
<1>14. Cardinality(K) \in Nat /\ Cardinality(K) <= WindowAggs
  BY <1>4, <1>9, FS_CardinalityType
<1>15. Len(A) < WindowAggs
  BY <1>10, <1>12, <1>13, <1>14, Sizes
<1>16. QED
  BY <1>12, <1>15, Sizes DEF A

\* A sampling that fits the ring is in it.
LEMMA FreshIsHeld ==
  ASSUME TypeOK, RingOK, RoomForAll, NEW ports \in SUBSET DOMAIN station.ports,
         NEW p \in ports, NEW d \in Range(station.ports[p])
  PROVE  LET s == OrderOf(Captured(ports))
         IN  \E i \in 1..Len(s) : s[i] = [ts |-> now, port |-> p, depth |-> d]
<1> DEFINE s == OrderOf(Captured(ports))
           n == Len(InOrder)
           m == Len(station.ports)
           r == [ts |-> now, port |-> p, depth |-> d]
<1>1. PICK t \in Seq(Reading) : IsTail(s, t) /\ Fresh(t, InOrder, ports, m)
  BY CapturedFacts
<1>2. PICK k \in Nat : (\A x \in DOMAIN station.ports : Len(station.ports[x]) <= k) /\ m * k <= Cap
  BY StationFacts DEF RoomForAll
<1>3. m \in Nat /\ DOMAIN station.ports = 1..m /\ n \in Nat
  BY StationFacts, OwnRing, Sizes
<1>4. Len(t) <= n + m * k
  BY <1>1, <1>2 DEF Fresh
<1>5. p \in 1..m /\ p <= m
  BY <1>3
<1>6. PICK j \in (n + 1)..Len(t) : t[j] = r
  BY <1>1, <1>5 DEF Fresh
<1>7. Len(s) = (IF Len(t) < Cap THEN Len(t) ELSE Cap) /\ \A i \in 1..Len(s) : s[i] = t[Len(t) - Len(s) + i]
  BY <1>1 DEF IsTail
<1>8. Len(t) \in Nat
  BY <1>1
<1> DEFINE c == m * k
<1>9. c \in Nat /\ c <= Cap /\ Len(t) <= n + c
  BY <1>2, <1>3, <1>4
<1> HIDE DEF s, n, m, r, c
<1> DEFINE i == j - (Len(t) - Len(s))
<1>10. i \in 1..Len(s) /\ Len(t) - Len(s) + i = j
  <2> DEFINE a == Len(s)
             b == Len(t)
  <2>1. a = (IF b < Cap THEN b ELSE Cap) /\ b \in Nat /\ j \in (n + 1)..b
    BY <1>6, <1>7, <1>8
  <2>2. b <= n + c
    BY <1>9
  <2> HIDE DEF a, b
  <2>3. a \in Nat /\ j \in Nat /\ j <= b /\ j >= n + 1 /\ (a = b \/ (a = Cap /\ b <= n + Cap))
    BY <1>3, <1>9, <2>1, <2>2, Sizes
  <2>4. j - (b - a) \in 1..a /\ b - a + (j - (b - a)) = j
    BY <1>3, <2>1, <2>3, Sizes
  <2>5. QED
    BY <2>4 DEF a, b
<1> HIDE DEF i
<1>11. s[i] = r
  BY <1>6, <1>7, <1>10
<1>12. QED
  BY <1>10, <1>11 DEF s, r

\* So the hour under way is there for its depth.
LEMMA FreshIsPresent ==
  ASSUME TypeOK, RingOK, SampledInTime, MaySample, RoomForAll,
         NEW ports \in SUBSET DOMAIN station.ports, NEW p \in ports, NEW d \in Range(station.ports[p])
  PROVE  LET s == OrderOf(Captured(ports))
         IN  Past \in Present(Real(WindowAggsOf(s), d))
<1> DEFINE s == OrderOf(Captured(ports))
           A == WindowAggsOf(s)
<1>1. s \in Seq(Reading) /\ Timely(s)
  BY CapturedFacts, CapturedTimely, OrderFacts
<1>2. PICK i \in 1..Len(s) : s[i] = [ts |-> now, port |-> p, depth |-> d]
  BY FreshIsHeld
<1> HIDE DEF s
<1>3. s[i] \in Reading /\ s[i].ts = now /\ s[i].port = p /\ s[i].depth = d
  BY <1>1, <1>2
<1>4. Aggregated(A, s, Len(s), SlotHour(1) * Hour, WindowTo, WindowAggs)
  BY <1>1, SeriesFacts
<1>5. Asked(s[i], SlotHour(1) * Hour, WindowTo)
  BY <1>3, WindowFacts DEF Asked
<1>6. \E j \in 1..Len(A) : Holds(A[j], s[i]) /\ s[i].ts \in A[j].of
  <2> SUFFICES ASSUME ~(\E j \in 1..Len(A) : Holds(A[j], s[i]) /\ s[i].ts \in A[j].of) PROVE FALSE
    OBVIOUS
  <2>1. Len(A) = WindowAggs /\ \A j \in 1..Len(A) : ~Holds(A[j], s[i])
    BY <1>4, <1>5 DEF Aggregated, Complete
  <2>2. p \in DOMAIN station.ports
    OBVIOUS
  <2>3. QED
    BY <1>1, <1>3, <2>1, <2>2, RoomLeft
<1>7. PICK j \in 1..Len(A) : Holds(A[j], s[i]) /\ now \in A[j].of
  BY <1>3, <1>6
<1>8. A \in Seq(Bucket)
  BY <1>4 DEF Aggregated, Sound
<1> HIDE DEF A
<1>9. A[j] \in Range(A)
  BY <1>8 DEF Range
<1>10. A[j].depth = d /\ A[j].hour = SlotHour(Past) /\ Past \in Slots
  <2>1. SlotHour(Past) = HourOf(now) /\ Past \in Slots
    <3>1. HourOf(now) \in Int
      BY StationFacts, HourFacts
    <3>2. QED
      BY <3>1, Sizes DEF SlotHour, Slots
  <2>2. QED
    BY <1>3, <1>7, <2>1 DEF Holds
<1>11. now \in Real(A, d)[Past]
  BY <1>7, <1>9, <1>10 DEF Real
<1>12. QED
  BY <1>10, <1>11 DEF Present, A, s

(* With room for a bucket of every hour of the window and every series, and  *)
(* a ring that takes a whole sampling, an inference whose probe has just     *)
(* answered for both depths is not refused as stale (lstm_input.c).          *)
THEOREM FreshSamples ==
  ASSUME RoomForAll
  PROVE  Spec => []FreshSampleIsSeen
<1>1. Init => FreshSampleIsSeen
  BY DEF Init, NoForecast, FreshSampleIsSeen
<1>2. IInv /\ FreshSampleIsSeen /\ [Next]_vars => FreshSampleIsSeen'
  <2> SUFFICES ASSUME IInv, FreshSampleIsSeen, [Next]_vars PROVE FreshSampleIsSeen'
    OBVIOUS
  <2>1. CASE forecast' = forecast /\ station' = station
    BY <2>1 DEF FreshSampleIsSeen
  <2>2. CASE forecast' = NoForecast
    BY <2>2 DEF FreshSampleIsSeen, NoForecast
  <2>3. CASE Infer
    <3>1. PICK ports \in SUBSET DOMAIN station.ports, taFull \in BOOLEAN :
            forecast' = Gathered(OrderOf(Captured(ports)), ports, taFull)
      BY <2>3 DEF Infer
    <3>2. TypeOK /\ RingOK /\ SampledInTime /\ MaySample /\ station' = station
      BY <2>3 DEF IInv, Infer
    <3> DEFINE s == OrderOf(Captured(ports))
               x == [dep \in Soil |-> Real(WindowAggsOf(s), dep)]
    <3>3. forecast'.asked = ports
      BY <3>1 DEF Gathered
    <3>4. SUFFICES ASSUME forecast'.status = "stale",
                          \A dep \in Soil : \E p \in ports : dep \in Range(station.ports[p])
                   PROVE  FALSE
      BY <3>2, <3>3 DEF FreshSampleIsSeen
    <3>5. \E dep \in Soil : NewestAge(x[dep]) > 0
      <4> DEFINE status == IF \E d \in Soil : Cardinality(Present(x[d])) < MinReal THEN "short"
                           ELSE IF \E d \in Soil : NewestAge(x[d]) > 0 THEN "stale"
                           ELSE IF \E d \in Soil : WorstGap(x[d]) > MaxGap THEN "gap"
                           ELSE IF ~taFull THEN "no_forecast" ELSE "ok"
      <4>1. Gathered(s, ports, taFull).status = status
        BY DEF Gathered, WindowAggsOf
      <4> HIDE DEF x, s
      <4>2. status = "stale"
        BY <3>1, <3>4, <4>1 DEF s
      <4>3. QED
        BY <4>2
    <3>6. PICK dep \in Soil : NewestAge(x[dep]) > 0
      BY <3>5
    <3>7. PICK p \in ports : dep \in Range(station.ports[p])
      BY <3>4
    <3>8. Past \in Present(Real(WindowAggsOf(s), dep))
      BY <3>2, <3>7, FreshIsPresent
    <3> DEFINE P == Present(x[dep])
    <3>9. Past \in P
      BY <3>8
    <3>10. P \in SUBSET Slots /\ P \in SUBSET Int /\ IsFiniteSet(P)
      <4> HIDE DEF x
      <4>1. QED
        BY PresentFacts
    <3>11. Past - Max(P) > 0
      BY <3>6 DEF NewestAge
    <3> HIDE DEF P
    <3>12. Max(P) \in P /\ Past <= Max(P)
      BY <3>9, <3>10, Extremes
    <3>13. QED
      <4>1. Max(P) \in 1..Past
        BY <3>10, <3>12 DEF Slots
      <4>2. QED
        BY <3>11, <3>12, <4>1, Sizes
  <2>4. QED
    BY <2>1, <2>2, <2>3 DEF Next, Tick, Capture, Delete, Uplink, Reset, vars
<1>3. QED
  BY <1>1, <1>2, InductiveInvariant, PTL DEF Spec

-----------------------------------------------------------------------------
(* An hour the cursor has gone past is whole.                                *)

\* A depth of soil is measured by one port of a station only.
OneProbe ==
  \A st \in Stations : \A p, q \in DOMAIN st.ports : \A d \in Soil :
    d \in Range(st.ports[p]) /\ d \in Range(st.ports[q]) => p = q

\* No station samples on the full hour.
OffTheHour == \A st \in Stations : 0 \notin st.at

\* What PassedHourIsWhole says of one reading.
Whole(r) ==
  r.depth \in Soil /\ HourOf(r.ts) < cursor /\ HourOf(r.ts) * Hour >= oldest
    => r.ts \in lastRec[HourOf(r.ts)][r.depth]

LEMMA WholeInOrder == PassedHourIsWhole <=> \A r \in Range(InOrder) : Whole(r)
BY DEF PassedHourIsWhole, Whole, HourOf

\* What comes in has the hour that is under way.
LEMMA CapturedRange ==
  ASSUME TypeOK, RingOK, NEW ports \in SUBSET DOMAIN station.ports
  PROVE  \A r \in Range(OrderOf(Captured(ports))) : r \in Range(InOrder) \/ r.ts = now
<1> DEFINE b == OrderOf(Captured(ports))
           n == Len(InOrder)
<1>1. PICK t \in Seq(Reading) : IsTail(b, t) /\ Fresh(t, InOrder, ports, Len(station.ports))
  BY CapturedFacts
<1>2. b \in Seq(Reading) /\ InOrder \in Seq(Reading)
  BY CapturedFacts, OrderFacts, OwnRing
<1> HIDE DEF b
<1>3. \A i \in 1..n : t[i] = InOrder[i] /\ t[i] \in Range(InOrder)
  BY <1>1, <1>2 DEF Fresh, Range
<1>4. \A i \in (n + 1)..Len(t) : t[i].ts = now
  BY <1>1 DEF Fresh
<1>5. n \in Nat /\ Len(t) \in Nat /\ Len(b) \in Nat
  BY <1>1, <1>2
<1>6. Len(b) = (IF Len(t) < Cap THEN Len(t) ELSE Cap) /\ \A i \in 1..Len(b) : b[i] = t[Len(t) - Len(b) + i]
  BY <1>1 DEF IsTail
<1> HIDE DEF n
<1>7. \A i \in 1..Len(t) : i \in 1..n \/ i \in (n + 1)..Len(t)
  BY <1>5
<1>8. Len(b) <= Len(t)
  BY <1>5, <1>6, Sizes
<1>9. \A i \in 1..Len(b) : Len(t) - Len(b) + i \in 1..Len(t)
  BY <1>5, <1>8
<1>10. \A i \in 1..Len(b) : b[i] \in Range(InOrder) \/ b[i].ts = now
  BY <1>3, <1>4, <1>6, <1>7, <1>9
<1>11. \A r \in Range(b) : \E i \in 1..Len(b) : r = b[i]
  BY <1>2 DEF Range
<1>12. QED
  BY <1>10, <1>11 DEF b

LEMMA WithoutPortRange ==
  ASSUME TypeOK, RingOK, NEW p
  PROVE  \A r \in Range(OrderOf(WithoutPort(p))) : r \in Range(InOrder)
<1> DEFINE K == {i \in 1..count : InOrder[i].port # p}
           b == OrderOf(WithoutPort(p))
<1>1. Good(WithoutPort(p)) /\ Len(b) = Rank(K, count) /\ \A i \in K : b[Rank(K, i)] = InOrder[i]
  BY WithoutPortFacts
<1>2. b \in Seq(Reading) /\ InOrder \in Seq(Reading) /\ Len(InOrder) = count /\ count \in Nat
  BY <1>1, OrderFacts, OwnRing, Sizes
<1>3. K \in SUBSET (1..count)
  OBVIOUS
<1> HIDE DEF K, b
<1>4. \A j \in 1..Len(b) : \E i \in K : Rank(K, i) = j
  BY <1>1, <1>2, <1>3, RankOnto
<1>5. \A i \in 1..count : InOrder[i] \in Range(InOrder)
  BY <1>2 DEF Range
<1>6. \A r \in Range(b) : \E i \in 1..Len(b) : r = b[i]
  BY <1>2 DEF Range
<1>7. QED
  BY <1>1, <1>3, <1>4, <1>5, <1>6 DEF b

\* What stays, and what has just come in, is whole as long as no frame is sent.
LEMMA WholeStays ==
  ASSUME IInv, PassedHourIsWhole, UNCHANGED <<lastRec, oldest>>, cursor' \in {0, cursor},
         \A r \in Range(InOrder') : r \in Range(InOrder) \/ r.ts = now
  PROVE  PassedHourIsWhole'
<1>1. \A r \in Range(InOrder) : Whole(r)
  BY WholeInOrder
<1>2. TypeOK /\ CursorBehind /\ InOrder \in Seq(Reading)
  BY OwnRing DEF IInv
<1>3. cursor \in Nat /\ cursor <= HourOf(now) /\ HourOf(now) \in Nat
  <2>1. cursor \in Nat /\ cursor <= HourOf(now)
    BY <1>2 DEF TypeOK, Hours, CursorBehind
  <2>2. QED
    BY <1>2, <2>1, StationFacts, HourFacts
<1>4. \A r \in Range(InOrder) : HourOf(r.ts) \in Nat
  <2>1. \A r \in Range(InOrder) : r \in Reading
    BY <1>2 DEF Range
  <2>2. QED
    BY <2>1, HourFacts DEF Reading
<1>5. ASSUME NEW r \in Range(InOrder'), r.depth \in Soil, HourOf(r.ts) < cursor', HourOf(r.ts) * Hour >= oldest'
      PROVE  r.ts \in lastRec'[HourOf(r.ts)][r.depth]
  <2>1. CASE r.ts = now
    BY <1>3, <1>5, <2>1
  <2>2. CASE r \in Range(InOrder)
    <3>1. cursor' = cursor
      BY <1>3, <1>4, <1>5, <2>2
    <3>2. QED
      BY <1>1, <1>5, <2>2, <3>1 DEF Whole
  <2>3. QED
    BY <2>1, <2>2
<1>6. QED
  BY <1>5 DEF PassedHourIsWhole, HourOf

\* Of the buckets of a frame, one holds each hour and depth of soil.
LEMMA SoilAggsOnePort ==
  ASSUME TypeOK, RingOK, SampledInTime, OneProbe
  PROVE  OnePort(SoilAggs)
<1> DEFINE A == SoilAggs
<1>1. Sound(A, InOrder, count, From, now)
  BY SoilRecsFacts DEF Aggregated
<1> HIDE DEF A
<1>2. ASSUME NEW j \in 1..Len(A)
      PROVE  A[j].port \in DOMAIN station.ports /\ A[j].depth \in Range(station.ports[A[j].port])
  <2>1. PICK t \in A[j].of : TRUE
    BY <1>1 DEF Sound
  <2>2. PICK i \in 1..count : Holds(A[j], InOrder[i])
    BY <1>1, <2>1 DEF Sound
  <2>3. QED
    BY <2>2 DEF Holds, SampledInTime
<1>3. ASSUME NEW i \in 1..Len(A), NEW j \in 1..Len(A),
             A[i].hour = A[j].hour, A[i].depth = A[j].depth, A[i].depth \in Soil
      PROVE  i = j
  <2>1. A[i].port = A[j].port
    <3>1. station \in Stations
      BY StationFacts
    <3>2. QED
      BY <1>2, <1>3, <3>1 DEF OneProbe
  <2>2. QED
    BY <1>1, <1>3, <2>1 DEF Sound
<1>4. QED
  BY <1>3 DEF OnePort, A

\* A record of the frame for each hour it passes holds all there is of it.
LEMMA PassedByFrame ==
  ASSUME TypeOK, RingOK, SampledInTime, CursorBehind, OneProbe, OffTheHour,
         NEW r \in Range(InOrder), r.depth \in Soil, cursor <= HourOf(r.ts), HourOf(r.ts) < Moved,
         HourOf(r.ts) * Hour >= now - Lookback * Hour
  PROVE  \E x \in Range(SoilRecs) :
           /\ x.hour = HourOf(r.ts) /\ r.ts \in x.of[r.depth]
           /\ \A y \in Range(SoilRecs) : y.hour = x.hour => y = x
<1> DEFINE A == SoilAggs
           R == SoilRecs
           h == HourOf(r.ts)
<1>1. PICK i \in 1..count : r = InOrder[i]
  <2>1. InOrder \in Seq(Reading) /\ Len(InOrder) = count
    BY OwnRing
  <2>2. QED
    BY <2>1 DEF Range
<1>2. /\ Sound(A, InOrder, count, From, now) /\ Complete(A, InOrder, count, From, now, UplinkAggs)
      /\ InTime(InOrder) => Ordered(A)
      /\ Recorded(R, A, Len(A)) /\ From \in Int
  BY SoilRecsFacts DEF Aggregated
<1>3. InTime(InOrder)
  BY OwnTimely DEF Timely
<1>4. /\ r.ts \in Hour..now /\ r.ts % Hour \in station.at
  BY <1>1 DEF SampledInTime
<1>5. r.ts \in Nat /\ h \in Nat /\ h * Hour <= r.ts /\ r.ts = h * Hour + (r.ts % Hour) /\ now \in Nat /\ r.ts <= now
  <2>1. r.ts \in Nat /\ now \in Nat /\ r.ts <= now
    BY <1>4, StationFacts, Sizes
  <2>2. QED
    BY <2>1, HourFacts
<1>6. r.ts % Hour >= 1
  <2>1. station \in Stations
    BY StationFacts
  <2>2. r.ts % Hour # 0
    BY <1>4, <2>1 DEF OffTheHour
  <2>3. r.ts % Hour \in 0..(Hour - 1)
    BY <1>5, Sizes
  <2>4. QED
    BY <2>2, <2>3, Sizes
<1>7. cursor \in Nat /\ Moved \in Nat /\ Moved <= HourOf(now)
  BY MovedFacts DEF TypeOK, Hours
<1>r. r.ts # now
  <2> SUFFICES ASSUME r.ts = now PROVE FALSE
    OBVIOUS
  <2>1. HourOf(now) < Moved
    OBVIOUS
  <2>2. HourOf(now) \in Nat
    BY <1>5, HourFacts
  <2> HIDE DEF h
  <2>3. QED
    BY <1>7, <2>1, <2>2
<1>8. Asked(r, From, now)
  <2> DEFINE a == cursor * Hour
             b == h * Hour
             c == Lookback * Hour
             m == r.ts % Hour
  <2>1. a <= b
    <3> HIDE DEF h
    <3>1. QED
      BY <1>5, <1>7, Sizes DEF h
  <2>2. a \in Int /\ b \in Int /\ c \in Int /\ m \in Int
    BY <1>5, <1>7, Sizes
  <2>3. From = IF a + 1 > now - c THEN a + 1 ELSE now - c
    BY DEF From, Larger
  <2>4. r.ts = b + m /\ m >= 1 /\ b >= now - c
    BY <1>5, <1>6
  <2>5. r.ts # now
    BY <1>r
  <2> HIDE DEF a, b, c, m
  <2>6. From <= r.ts
    BY <1>5, <2>1, <2>2, <2>3, <2>4
  <2>7. r.ts < now
    BY <1>5, <2>5
  <2>8. QED
    BY <2>6, <2>7 DEF Asked
<1>9. Ordered(A) /\ OnePort(A)
  BY <1>2, <1>3, SoilAggsOnePort
<1>m. R \in Seq(Record) /\ \A x \in Range(R) : \E k \in 1..Len(R) : x = R[k]
  <2>1. R \in Seq(Record)
    BY <1>2 DEF Recorded
  <2>2. QED
    BY <2>1 DEF Range
<1>n. ~(\A x \in Range(R) : x.hour <= h)
  <2> SUFFICES ASSUME \A x \in Range(R) : x.hour <= h PROVE FALSE
    OBVIOUS
  <2>1. Moved <= h
    BY MovedFacts
  <2>2. QED
    BY <1>5, <1>7, <2>1
<1> HIDE DEF A, R, h
<1>10. ~(\A j \in 1..Len(A) : A[j].hour <= h)
  <2> SUFFICES ASSUME \A j \in 1..Len(A) : A[j].hour <= h PROVE FALSE
    OBVIOUS
  <2>1. \A k \in 1..Len(R) : R[k].hour <= h
    BY <1>2 DEF Recorded
  <2>2. QED
    BY <1>m, <1>n, <2>1
<1>11. PICK j \in 1..Len(A) : Holds(A[j], r) /\ r.ts \in A[j].of
  BY <1>1, <1>2, <1>3, <1>8, <1>10 DEF Complete, h
<1>12. A[j].hour = h /\ A[j].depth = r.depth
  BY <1>11 DEF Holds, h
<1>13. PICK k \in 1..Len(R) : R[k].hour = h /\ R[k].of[r.depth] = A[j].of
  <2>1. \/ \E k \in 1..Len(R) : R[k].hour = h /\ R[k].of[r.depth] = A[j].of
        \/ \A k \in 1..Len(R) : R[k].hour <= h
    BY <1>2, <1>9, <1>12 DEF Recorded
  <2>2. QED
    BY <1>m, <1>n, <2>1
<1>14. R[k] \in Range(R)
  BY <1>m DEF Range
<1>15. \A y \in Range(R) : y.hour = h => y = R[k]
  BY <1>2, <1>13, <1>m DEF Recorded
<1>16. QED
  BY <1>11, <1>13, <1>14, <1>15 DEF R, h

LEMMA UplinkWhole ==
  ASSUME IInv, PassedHourIsWhole, Uplink, OneProbe, OffTheHour
  PROVE  PassedHourIsWhole'
<1>1. TypeOK /\ RingOK /\ SampledInTime /\ CursorBehind
  BY DEF IInv
<1>2. /\ UNCHANGED <<rd, head, count, now, station>>
      /\ lastRec' = [h \in Hours |-> IF \E x \in Range(SoilRecs) : x.hour = h
                                     THEN (CHOOSE x \in Range(SoilRecs) : x.hour = h).of ELSE lastRec[h]]
      /\ \/ cursor' = Moved /\ oldest' = now - Lookback * Hour
         \/ UNCHANGED <<cursor, oldest>>
  BY DEF Uplink, ring, Moved
<1>3. InOrder' = InOrder
  BY <1>2 DEF InOrder, OrderOf, Ring
<1> SUFFICES ASSUME NEW r \in Range(InOrder), r.depth \in Soil,
                    HourOf(r.ts) < cursor', HourOf(r.ts) * Hour >= oldest'
             PROVE  r.ts \in lastRec'[HourOf(r.ts)][r.depth]
  BY <1>3 DEF PassedHourIsWhole, HourOf
<1> DEFINE h == HourOf(r.ts)
           b == h * Hour
<1>4. r.ts \in Hour..now
  <2>1. InOrder \in Seq(Reading) /\ Len(InOrder) = count
    BY <1>1, OwnRing
  <2>2. PICK i \in 1..count : r = InOrder[i]
    BY <2>1 DEF Range
  <2>3. QED
    BY <1>1, <2>2 DEF SampledInTime
<1>5. h \in Hours /\ h \in Nat /\ b \in Nat /\ now \in Nat
  <2>1. now \in Nat /\ h \in Hours
    BY <1>1, <1>4, HoursOfTime, StationFacts
  <2>2. r.ts \in Nat
    BY <1>4, <2>1, Sizes
  <2>3. h \in Nat
    BY <2>2, HourFacts
  <2> HIDE DEF h
  <2>4. QED
    BY <2>1, <2>3, Sizes
<1>6. cursor \in Nat /\ Moved \in Nat
  BY <1>1, MovedFacts DEF TypeOK, Hours
<1>7. CASE h < cursor
  <2>1. ~(\E x \in Range(SoilRecs) : x.hour = h)
    <3>1. SoilRecs \in Seq(Record) /\ \A k \in 1..Len(SoilRecs) : SoilRecs[k].hour >= cursor
      BY <1>1, SoilRecsFacts DEF Recorded
    <3>2. \A x \in Range(SoilRecs) : x.hour >= cursor
      BY <3>1 DEF Range
    <3> HIDE DEF h
    <3>3. QED
      BY <1>5, <1>6, <1>7, <3>2
  <2>2. lastRec'[h] = lastRec[h]
    BY <1>2, <1>5, <2>1
  <2>3. b >= oldest
    <3> DEFINE d == now - Lookback * Hour
    <3>1. d \in Int /\ oldest \in Int
      BY <1>1, <1>5, Sizes DEF TypeOK
    <3>2. oldest <= Larger(0, d)
      BY <1>1 DEF CursorBehind
    <3>3. (b >= d \/ b >= oldest)
      BY <1>2
    <3> HIDE DEF d, b
    <3>4. QED
      BY <1>5, <3>1, <3>2, <3>3 DEF Larger
  <2>4. Whole(r)
    BY WholeInOrder
  <2>5. QED
    BY <1>7, <2>2, <2>3, <2>4 DEF Whole
<1>8. CASE ~(h < cursor)
  <2>1. cursor' = Moved /\ oldest' = now - Lookback * Hour
    BY <1>2, <1>8
  <2>2. cursor <= h /\ h < Moved /\ b >= now - Lookback * Hour
    <3>1. h < Moved /\ b >= now - Lookback * Hour
      BY <2>1
    <3> HIDE DEF h
    <3>2. cursor <= h
      BY <1>5, <1>6, <1>8
    <3>3. QED
      BY <3>1, <3>2
  <2>3. PICK x \in Range(SoilRecs) :
          /\ x.hour = h /\ r.ts \in x.of[r.depth]
          /\ \A y \in Range(SoilRecs) : y.hour = x.hour => y = x
    BY <1>1, <2>2, PassedByFrame
  <2> HIDE DEF h
  <2>4. (CHOOSE y \in Range(SoilRecs) : y.hour = h) = x
    BY <2>3
  <2>5. lastRec'[h] = x.of
    BY <1>2, <1>5, <2>3, <2>4
  <2>6. QED
    BY <2>3, <2>5 DEF h
<1>9. QED
  BY <1>7, <1>8

(* For a station with one port for each depth of soil and none that samples  *)
(* on the full hour, whatever room for buckets and records there is: an hour *)
(* the SOIL cursor has gone past was sent with every reading of it that the  *)
(* ring still holds, unless the last frame's backlog cut it (lora_wioe5.c).  *)
THEOREM PassedHours ==
  ASSUME OneProbe, OffTheHour
  PROVE  Spec => []PassedHourIsWhole
<1>1. Init => PassedHourIsWhole
  <2> SUFFICES ASSUME Init PROVE PassedHourIsWhole
    OBVIOUS
  <2>1. TypeOK /\ RingOK /\ count = 0
    BY InitInvariant DEF IInv, Init
  <2>2. InOrder \in Seq(Reading) /\ Len(InOrder) = 0
    BY <2>1, OwnRing
  <2>3. \A r \in Range(InOrder) : FALSE
    BY <2>2 DEF Range
  <2>4. QED
    BY <2>3 DEF PassedHourIsWhole
<1>2. IInv /\ PassedHourIsWhole /\ [Next]_vars => PassedHourIsWhole'
  <2> SUFFICES ASSUME IInv, PassedHourIsWhole, [Next]_vars PROVE PassedHourIsWhole'
    OBVIOUS
  <2>i. TypeOK /\ RingOK /\ SampledInTime
    BY DEF IInv
  <2>s. UNCHANGED <<rd, head, count>> => InOrder' = InOrder
    BY DEF InOrder, OrderOf, Ring
  <2>1. CASE UNCHANGED vars
    BY <2>1, <2>s, WholeStays DEF vars, ring, sent
  <2>2. CASE Tick
    BY <2>2, <2>s, WholeStays DEF Tick, ring, sent
  <2>3. CASE Capture \/ Infer
    <3>1. PICK ports \in SUBSET DOMAIN station.ports : Put(Captured(ports))
      BY <2>3 DEF Capture, Infer
    <3>2. InOrder' = OrderOf(Captured(ports))
      BY <2>i, <3>1, CapturedFacts, PutFacts
    <3>3. \A r \in Range(InOrder') : r \in Range(InOrder) \/ r.ts = now
      BY <2>i, <3>2, CapturedRange
    <3>4. UNCHANGED <<cursor, lastRec, oldest>>
      BY <2>3 DEF Capture, Infer, sent
    <3>5. QED
      BY <3>3, <3>4, WholeStays
  <2>4. CASE Delete
    <3>1. \A r \in Range(InOrder') : r \in Range(InOrder)
      <4>1. CASE \E p \in DOMAIN station.ports : Put(WithoutPort(p))
        <5>1. PICK p \in DOMAIN station.ports : Put(WithoutPort(p))
          BY <4>1
        <5>2. InOrder' = OrderOf(WithoutPort(p))
          BY <2>i, <5>1, WithoutPortFacts, PutFacts
        <5>3. QED
          BY <2>i, <5>2, WithoutPortRange
      <4>2. CASE rd' = rd /\ head' = 0 /\ count' = 0
        <5> DEFINE q == [rd |-> rd, head |-> 0, count |-> 0]
        <5>1. Good(q) /\ Put(q) /\ OrderOf(q) = <<>>
          BY <2>i, <4>2, NothingLeft
        <5> HIDE DEF q
        <5>2. InOrder' = <<>>
          BY <5>1, PutFacts
        <5>3. QED
          BY <5>2 DEF Range
      <4>3. QED
        BY <2>4, <4>1, <4>2 DEF Delete
    <3>2. UNCHANGED <<cursor, lastRec, oldest>>
      BY <2>4 DEF Delete, sent
    <3>3. QED
      BY <3>1, <3>2, WholeStays
  <2>5. CASE Uplink
    BY <2>5, UplinkWhole
  <2>6. CASE Reset
    <3>1. InOrder' = InOrder
      BY <2>i, <2>6, RestoredFacts, PutFacts DEF Reset
    <3>2. UNCHANGED <<lastRec, oldest>> /\ cursor' \in {0, cursor}
      BY <2>6 DEF Reset
    <3>3. QED
      BY <3>1, <3>2, WholeStays
  <2>7. QED
    BY <2>1, <2>2, <2>3, <2>4, <2>5, <2>6 DEF Next
<1>3. QED
  BY <1>1, <1>2, InductiveInvariant, PTL DEF Spec
=============================================================================
