---------------------------- MODULE Station_proofs ----------------------------
(***************************************************************************)
(* Proofs about Station for a ring, a window and a number of boots of any  *)
(* size: what this boot has taken keeps standing for its hour, nothing is  *)
(* left with an uptime once the clock is known, no hour of the replay is   *)
(* there twice, and the modes do not mix.                                  *)
(***************************************************************************)
EXTENDS Station, WellFoundedInduction, TLAPS

LEMMA Sizes ==
  /\ Cap \in Nat /\ Cap > 0 /\ Past \in Nat /\ Past > 0 /\ Ahead \in Nat
  /\ MaxNow \in Nat /\ Past <= MaxNow /\ MaxBoots \in Nat
  /\ ProvMax \in Nat /\ MaxNow < ProvMax
BY StationConstants

-----------------------------------------------------------------------------
(* The loop of the fill.                                                     *)

\* Induction over the numbers of a set.
LEMMA AllOfNat ==
  ASSUME NEW S, 0 \in S, \A n \in Nat : n \in S => n + 1 \in S
  PROVE  \A n \in Nat : n \in S
<1> SUFFICES ASSUME NEW m \in Nat, m \notin S PROVE FALSE
  OBVIOUS
<1> DEFINE Out == {n \in Nat : n \notin S}
<1>1. m \in Out
  OBVIOUS
<1>2. PICK x \in Out : \A y \in Nat : <<y, x>> \in OpToRel(<, Nat) => y \notin Out
  BY <1>1, NatLessThanWellFounded, WFMin
<1>3. x \in Nat /\ x # 0 /\ x \notin S
  BY <1>2
<1>4. x - 1 \in Nat /\ x - 1 < x
  BY <1>3
<1>5. <<x - 1, x>> \in OpToRel(<, Nat)
  BY <1>3, <1>4 DEF OpToRel
<1>6. x - 1 \in S
  BY <1>2, <1>4, <1>5
<1>7. x \in S
  BY <1>3, <1>4, <1>6
<1>8. QED
  BY <1>3, <1>7

\* The loop over the first n hours of a window, with all it has been through.
IsLoop(g, s, filled, n) ==
  g = [k \in 0..n |-> IF k = 0 THEN s ELSE FillHour(g[k - 1], now - Past + k, filled)]

\* It is well defined.
LEMMA LoopExists ==
  ASSUME NEW s, NEW filled, NEW n \in Nat
  PROVE  \E g : IsLoop(g, s, filled, n)
<1> DEFINE Body(g, k) == IF k = 0 THEN s ELSE FillHour(g[k - 1], now - Past + k, filled)
           S == {m \in Nat : \E g : g = [k \in 0..m |-> Body(g, k)]}
<1>1. 0 \in S
  <2> DEFINE f == [k \in 0..0 |-> s]
  <2>1. f = [k \in 0..0 |-> Body(f, k)]
    OBVIOUS
  <2>2. QED
    BY <2>1
<1>2. ASSUME NEW m \in Nat, m \in S PROVE m + 1 \in S
  <2>1. PICK g : g = [k \in 0..m |-> Body(g, k)]
    BY <1>2
  <2> DEFINE f == [k \in 0..(m + 1) |-> IF k \in 0..m THEN g[k] ELSE FillHour(g[m], now - Past + k, filled)]
  <2>2. ASSUME NEW k \in 0..(m + 1) PROVE f[k] = Body(f, k)
    <3>1. CASE k = 0
      BY <2>1, <3>1
    <3>2. CASE k \in 1..m
      <4>1. k - 1 \in 0..m /\ k \in 0..m /\ k # 0
        BY <3>2
      <4>2. f[k - 1] = g[k - 1] /\ f[k] = g[k]
        BY <4>1
      <4>3. g[k] = Body(g, k)
        BY <2>1, <4>1
      <4>4. QED
        BY <4>1, <4>2, <4>3
    <3>3. CASE k = m + 1
      <4>1. m \in 0..m /\ m \in 0..(m + 1) /\ k \notin 0..m /\ k # 0 /\ k - 1 = m
        BY <3>3
      <4>2. f[m] = g[m]
        BY <4>1
      <4>3. f[k] = FillHour(g[m], now - Past + k, filled)
        BY <4>1
      <4>4. QED
        BY <4>1, <4>2, <4>3
    <3>4. QED
      BY <3>1, <3>2, <3>3
  <2>3. f = [k \in 0..(m + 1) |-> Body(f, k)]
    <3> HIDE DEF Body
    <3>1. \A k \in 0..(m + 1) : f[k] = Body(f, k)
      BY <2>2
    <3>2. f = [k \in 0..(m + 1) |-> f[k]]
      OBVIOUS
    <3> HIDE DEF f
    <3>3. QED
      BY <3>1, <3>2
  <2> HIDE DEF f, Body
  <2>4. \E h : h = [k \in 0..(m + 1) |-> Body(h, k)]
    BY <2>3
  <2>5. QED
    BY <2>4
<1>3. n \in S
  <2> HIDE DEF S
  <2>1. QED
    BY <1>1, <1>2, AllOfNat
<1>4. QED
  BY <1>3 DEF IsLoop

\* So Fill is the last of a sequence of steps, one for each hour.
LEMMA FillUnfolds ==
  ASSUME NEW s, NEW filled
  PROVE  \E g : /\ Fill(s, filled) = g[Past + Ahead]
                /\ g[0] = s
                /\ \A k \in 1..(Past + Ahead) : g[k] = FillHour(g[k - 1], now - Past + k, filled)
<1> DEFINE N == Past + Ahead
           loop == CHOOSE g : IsLoop(g, s, filled, N)
<1>1. N \in Nat
  BY Sizes
<1>2. \E g : IsLoop(g, s, filled, N)
  <2> HIDE DEF N
  <2>1. QED
    BY <1>1, LoopExists
<1>3. IsLoop(loop, s, filled, N)
  BY <1>2
<1>4. Fill(s, filled) = loop[N]
  BY DEF Fill, IsLoop
<1> HIDE DEF loop, N
<1>5. loop[0] = s
  <2>1. 0 \in 0..N
    BY <1>1
  <2>2. QED
    BY <1>3, <2>1 DEF IsLoop
<1>6. ASSUME NEW k \in 1..N PROVE loop[k] = FillHour(loop[k - 1], now - Past + k, filled)
  <2>1. k \in 0..N /\ k # 0
    BY <1>1
  <2>2. QED
    BY <1>3, <2>1 DEF IsLoop
<1>7. \E g : /\ Fill(s, filled) = g[N] /\ g[0] = s
             /\ \A k \in 1..N : g[k] = FillHour(g[k - 1], now - Past + k, filled)
  BY <1>4, <1>5, <1>6
<1>8. QED
  BY <1>7 DEF N

-----------------------------------------------------------------------------
(* What an append and a fill leave in the ring.                              *)

\* An append ends in the new reading and drops at most the oldest.
LEMMA AppendFacts ==
  ASSUME NEW s \in Seq(Readings), Len(s) <= Cap, NEW r \in Readings
  PROVE  /\ AppendReading(s, r) \in Seq(Readings) /\ Len(AppendReading(s, r)) <= Cap
         /\ \E drop \in {0, 1} :
              /\ Len(AppendReading(s, r)) = Len(s) + 1 - drop
              /\ \A i \in 1..(Len(s) + 1 - drop) :
                   AppendReading(s, r)[i] = IF i + drop <= Len(s) THEN s[i + drop] ELSE r
<1> DEFINE t == Append(s, r)
<1>1. /\ t \in Seq(Readings) /\ Len(t) = Len(s) + 1 /\ Len(s) \in Nat
      /\ \A i \in 1..(Len(s) + 1) : t[i] = IF i <= Len(s) THEN s[i] ELSE r
  OBVIOUS
<1>2. AppendReading(s, r) = IF Len(t) > Cap THEN Tail(t) ELSE t
  BY DEF AppendReading
<1> HIDE DEF t
<1>3. CASE Len(t) > Cap
  <2>1. AppendReading(s, r) = Tail(t) /\ t # <<>>
    BY <1>1, <1>2, <1>3
  <2>2. /\ Tail(t) \in Seq(Readings) /\ Len(Tail(t)) = Len(s)
        /\ \A i \in 1..Len(s) : Tail(t)[i] = t[i + 1]
    BY <1>1, <2>1
  <2>3. \A i \in 1..Len(s) : Tail(t)[i] = IF i + 1 <= Len(s) THEN s[i + 1] ELSE r
    BY <1>1, <2>2
  <2>4. Len(s) + 1 - 1 = Len(s)
    BY <1>1
  <2>5. QED
    BY <2>1, <2>2, <2>3, <2>4
<1>4. CASE ~(Len(t) > Cap)
  <2>1. AppendReading(s, r) = t /\ Len(t) <= Cap
    BY <1>1, <1>2, <1>4, Sizes
  <2>2. \A i \in 1..(Len(s) + 1 - 0) : t[i] = IF i + 0 <= Len(s) THEN s[i + 0] ELSE r
    BY <1>1
  <2>3. Len(t) = Len(s) + 1 - 0
    BY <1>1
  <2>4. QED
    BY <1>1, <2>1, <2>2, <2>3
<1>5. QED
  BY <1>3, <1>4

Replayed(h) == Reading(ProvMax + h, h, "replay")

\* t holds readings of s and, of the first k hours of the window, some that s
\* was not found to have.
Topped(t, s, filled, k) ==
  \A i \in 1..Len(t) :
    \/ \E j \in 1..Len(s) : t[i] = s[j]
    \/ \E h \in (now - Past + 1)..(now - Past + k) : h \notin filled /\ t[i] = Replayed(h)

Twins(a, b) == a.own /\ b.own /\ a.src = "replay" /\ b.src = "replay" /\ a.ts = b.ts

Twinless(s) == \A i, j \in 1..Len(s) : i # j => ~Twins(s[i], s[j])

\* No hour of the window is missed by the scan that s has a replayed reading of.
Scanned(s, filled) ==
  \A h \in Window : h \notin filled => \A j \in 1..Len(s) : ~Twins(s[j], Replayed(h))

\* A replayed reading is a reading, and two of them are twins only of one hour.
LEMMA ReplayedFacts ==
  /\ \A h \in Nat : Replayed(h) \in Readings
  /\ \A g, h \in Nat : Twins(Replayed(g), Replayed(h)) => g = h
<1>1. \A h \in Nat : ProvMax + h \in Nat
  BY Sizes
<1>2. \A h \in Nat : Replayed(h) \in Readings
  BY <1>1 DEF Replayed, Reading, Readings
<1>3. \A h : Replayed(h).ts = ProvMax + h
  BY DEF Replayed, Reading
<1>4. \A g, h \in Nat : Twins(Replayed(g), Replayed(h)) => ProvMax + g = ProvMax + h
  BY <1>3 DEF Twins
<1>5. QED
  BY <1>2, <1>4, Sizes

LEMMA TwinsBothWays == \A a, b : Twins(a, b) => Twins(b, a)
BY DEF Twins

\* One hour of the loop.
LEMMA HourFacts ==
  ASSUME now \in Nat, Past <= now,
         NEW s, NEW filled, NEW t \in Seq(Readings), Len(t) <= Cap,
         NEW k \in 1..(Past + Ahead), Topped(t, s, filled, k - 1)
  PROVE  LET u == FillHour(t, now - Past + k, filled)
         IN /\ u \in Seq(Readings) /\ Len(u) <= Cap /\ Topped(u, s, filled, k)
            /\ Scanned(s, filled) /\ Twinless(t) => Twinless(u)
<1> DEFINE h == now - Past + k
           first == now - Past + 1
           u == FillHour(t, h, filled)
<1>1. h \in Nat /\ h \in Window /\ h \in first..h /\ first \in Nat /\ first..(h - 1) \subseteq first..h /\ k \in Nat
  BY Sizes DEF Window
<1>2. Topped(t, s, filled, k)
  <2>1. (now - Past + 1)..(now - Past + (k - 1)) \subseteq (now - Past + 1)..(now - Past + k)
    BY Sizes
  <2>2. QED
    BY <2>1 DEF Topped
<1>3. CASE h \in filled
  <2>1. u = t
    BY <1>3 DEF FillHour
  <2>2. QED
    BY <1>2, <2>1
<1>4. CASE h \notin filled
  <2>1. u = AppendReading(t, Replayed(h)) /\ Replayed(h) \in Readings
    BY <1>1, <1>4, ReplayedFacts DEF FillHour, Replayed
  <2> HIDE DEF u, h
  <2>2. /\ u \in Seq(Readings) /\ Len(u) <= Cap
        /\ \E drop \in {0, 1} :
             /\ Len(u) = Len(t) + 1 - drop
             /\ \A i \in 1..(Len(t) + 1 - drop) :
                  u[i] = IF i + drop <= Len(t) THEN t[i + drop] ELSE Replayed(h)
    <3>1. ASSUME NEW r \in Readings
          PROVE  /\ AppendReading(t, r) \in Seq(Readings) /\ Len(AppendReading(t, r)) <= Cap
                 /\ \E drop \in {0, 1} :
                      /\ Len(AppendReading(t, r)) = Len(t) + 1 - drop
                      /\ \A i \in 1..(Len(t) + 1 - drop) :
                           AppendReading(t, r)[i] = IF i + drop <= Len(t) THEN t[i + drop] ELSE r
      BY AppendFacts
    <3>2. QED
      BY <2>1, <3>1
  <2>3. PICK drop \in {0, 1} :
             /\ Len(u) = Len(t) + 1 - drop
             /\ \A i \in 1..(Len(t) + 1 - drop) :
                  u[i] = IF i + drop <= Len(t) THEN t[i + drop] ELSE Replayed(h)
    BY <2>2
  <2>4. Len(t) \in Nat
    OBVIOUS
  <2>5. ASSUME NEW i \in 1..Len(u)
        PROVE  \/ i + drop \in 1..Len(t) /\ u[i] = t[i + drop]
               \/ i = Len(u) /\ u[i] = Replayed(h)
    BY <2>3, <2>4
  <2>6. Topped(u, s, filled, k)
    <3> SUFFICES ASSUME NEW i \in 1..Len(u)
                 PROVE  \/ \E j \in 1..Len(s) : u[i] = s[j]
                        \/ \E g \in (now - Past + 1)..(now - Past + k) : g \notin filled /\ u[i] = Replayed(g)
      BY DEF Topped
    <3>1. CASE i + drop \in 1..Len(t) /\ u[i] = t[i + drop]
      BY <1>2, <3>1 DEF Topped
    <3>2. CASE u[i] = Replayed(h)
      BY <1>1, <1>4, <3>2 DEF h
    <3>3. QED
      BY <2>5, <3>1, <3>2
  <2>7. ASSUME Scanned(s, filled), Twinless(t) PROVE Twinless(u)
    <3>1. ASSUME NEW j \in 1..Len(t) PROVE ~Twins(t[j], Replayed(h))
      <4>1. CASE \E l \in 1..Len(s) : t[j] = s[l]
        BY <1>1, <1>4, <2>7, <4>1 DEF Scanned
      <4>2. ASSUME NEW g \in (now - Past + 1)..(now - Past + (k - 1)), t[j] = Replayed(g)
            PROVE  ~Twins(t[j], Replayed(h))
        <5>1. g \in Nat /\ g < h
          BY Sizes DEF h
        <5>2. QED
          BY <1>1, <4>2, <5>1, ReplayedFacts
      <4>3. QED
        BY <4>1, <4>2 DEF Topped
    <3> SUFFICES ASSUME NEW i \in 1..Len(u), NEW j \in 1..Len(u), i # j PROVE ~Twins(u[i], u[j])
      BY DEF Twinless
    <3>2. CASE i + drop \in 1..Len(t) /\ u[i] = t[i + drop] /\ j + drop \in 1..Len(t) /\ u[j] = t[j + drop]
      <4>1. i + drop # j + drop
        BY <2>3
      <4>2. QED
        BY <2>7, <3>2, <4>1 DEF Twinless
    <3>3. CASE i + drop \in 1..Len(t) /\ u[i] = t[i + drop] /\ u[j] = Replayed(h)
      BY <3>1, <3>3
    <3>4. CASE j + drop \in 1..Len(t) /\ u[j] = t[j + drop] /\ u[i] = Replayed(h)
      BY <3>1, <3>4, TwinsBothWays
    <3>5. QED
      BY <2>5, <3>2, <3>3, <3>4
  <2>8. QED
    BY <2>2, <2>6, <2>7 DEF u, h
<1>5. QED
  BY <1>3, <1>4

\* A fill keeps the ring's size, adds nothing but missing hours of the replay,
\* and no twin if the scan has seen what is there.
LEMMA FillFacts ==
  ASSUME now \in Nat, Past <= now, NEW s \in Seq(Readings), Len(s) <= Cap, NEW filled
  PROVE  /\ Fill(s, filled) \in Seq(Readings) /\ Len(Fill(s, filled)) <= Cap
         /\ \A i \in 1..Len(Fill(s, filled)) :
              \/ \E j \in 1..Len(s) : Fill(s, filled)[i] = s[j]
              \/ \E h \in Nat \ {0} : Fill(s, filled)[i] = Replayed(h)
         /\ Scanned(s, filled) /\ Twinless(s) => Twinless(Fill(s, filled))
<1> DEFINE N == Past + Ahead
<1>1. N \in Nat
  BY Sizes
<1>2. PICK g : /\ Fill(s, filled) = g[N] /\ g[0] = s
               /\ \A k \in 1..N : g[k] = FillHour(g[k - 1], now - Past + k, filled)
  BY FillUnfolds
<1> DEFINE Good(k) == /\ g[k] \in Seq(Readings) /\ Len(g[k]) <= Cap /\ Topped(g[k], s, filled, k)
                      /\ Scanned(s, filled) /\ Twinless(s) => Twinless(g[k])
           S == {k \in Nat : k <= N => Good(k)}
<1>3. 0 \in S
  <2>1. Topped(s, s, filled, 0)
    BY DEF Topped
  <2>2. QED
    BY <1>2, <2>1
<1>4. ASSUME NEW m \in Nat, m \in S PROVE m + 1 \in S
  <2> SUFFICES ASSUME m + 1 <= N PROVE Good(m + 1)
    OBVIOUS
  <2>1. Good(m)
    BY <1>1, <1>4
  <2>2. m + 1 \in 1..N /\ (m + 1) - 1 = m
    BY <1>1
  <2>3. g[m + 1] = FillHour(g[m], now - Past + (m + 1), filled)
    BY <1>2, <2>2
  <2>4. /\ g[m] \in Seq(Readings) /\ Len(g[m]) <= Cap /\ Topped(g[m], s, filled, (m + 1) - 1)
    BY <2>1, <2>2
  <2>5. LET u == FillHour(g[m], now - Past + (m + 1), filled)
        IN /\ u \in Seq(Readings) /\ Len(u) <= Cap /\ Topped(u, s, filled, m + 1)
           /\ Scanned(s, filled) /\ Twinless(g[m]) => Twinless(u)
    BY <2>2, <2>4, HourFacts
  <2>6. QED
    BY <2>1, <2>3, <2>5
<1>5. N \in S
  <2> HIDE DEF S
  <2>1. QED
    BY <1>1, <1>3, <1>4, AllOfNat
<1>6. Good(N)
  BY <1>1, <1>5
<1>7. ASSUME NEW i \in 1..Len(g[N])
      PROVE  \/ \E j \in 1..Len(s) : g[N][i] = s[j]
             \/ \E h \in Nat \ {0} : g[N][i] = Replayed(h)
  <2>1. (now - Past + 1)..(now - Past + N) \subseteq Nat \ {0}
    BY <1>1, Sizes
  <2> HIDE DEF N
  <2>2. QED
    BY <1>6, <2>1 DEF Topped
<1>8. QED
  BY <1>2, <1>6, <1>7

-----------------------------------------------------------------------------
(* The invariant as what may be in the ring: sets of readings.               *)

In(s, S) == \A i \in 1..Len(s) : s[i] \in S

\* Readings that stand for their hour, in a boot of hour b.
TrueOf(b) ==
  {r \in Readings : r.own => /\ r.at = IF r.ts < ProvMax THEN b + r.ts ELSE r.ts - ProvMax
                             /\ r.src = "replay" => r.ts >= ProvMax}

Walled == {r \in Readings : r.own => r.ts >= ProvMax}

OfMode(mock) == {r \in Readings : r.own => r.src = IF mock THEN "replay" ELSE "probe"}

LEMMA RingHas ==
  ASSUME IInv
  PROVE  /\ In(ring, TrueOf(born)) /\ Twinless(ring)
         /\ wasTimed \/ pc \in {"load", "window"} => In(ring, Walled)
         /\ ~strayed => In(ring, OfMode(mockActive))
<1>1. /\ ring \in Seq(Readings) /\ DOMAIN ring = 1..Len(ring)
      /\ \A i \in 1..Len(ring) : ring[i] \in Readings
  BY DEF IInv, TypeOK, RingTyped
<1>2. In(ring, TrueOf(born))
  BY <1>1 DEF IInv, OwnStampsAreTrue, ReplayIsStamped, Meant, In, TrueOf
<1>3. Twinless(ring)
  BY <1>1 DEF IInv, NoTwins, Twinless, Twins
<1>4. wasTimed \/ pc \in {"load", "window"} => In(ring, Walled)
  BY <1>1 DEF IInv, RebasedOnce, In, Walled
<1>5. ~strayed => In(ring, OfMode(mockActive))
  BY <1>1 DEF IInv, KindsKeptApart, In, OfMode
<1>6. QED
  BY <1>2, <1>3, <1>4, <1>5

RingParts == RebasedOnce /\ ReplayIsStamped /\ KindsKeptApart /\ OwnStampsAreTrue /\ NoTwins

LEMMA RingGets ==
  ASSUME ring' \in Seq(Readings), In(ring', TrueOf(born')), Twinless(ring'),
         wasTimed' \/ pc' \in {"load", "window"} => In(ring', Walled),
         ~strayed' => In(ring', OfMode(mockActive'))
  PROVE  RingParts'
<1>1. DOMAIN ring' = 1..Len(ring')
  OBVIOUS
<1>2. OwnStampsAreTrue' /\ ReplayIsStamped'
  BY <1>1 DEF OwnStampsAreTrue, ReplayIsStamped, Meant, In, TrueOf
<1>3. NoTwins'
  BY <1>1 DEF NoTwins, Twinless, Twins
<1>4. RebasedOnce'
  BY <1>1 DEF RebasedOnce, In, Walled
<1>5. KindsKeptApart'
  BY <1>1 DEF KindsKeptApart, In, OfMode
<1>6. QED
  BY <1>2, <1>3, <1>4, <1>5 DEF RingParts

\* An empty ring has all of it.
LEMMA EmptyIsGood ==
  ASSUME ring' = <<>>
  PROVE  ring' \in Seq(Readings) /\ Len(ring') <= Cap /\ RingParts'
<1>1. ring' \in Seq(Readings) /\ Len(ring') = 0
  OBVIOUS
<1>2. \A S : In(ring', S)
  BY <1>1 DEF In
<1>3. Twinless(ring')
  BY <1>1 DEF Twinless
<1>4. QED
  BY <1>1, <1>2, <1>3, RingGets, Sizes

\* A ring that stays has what it had.
LEMMA KeptIsGood ==
  ASSUME IInv, ring' = ring, born' = born,
         wasTimed' \/ pc' \in {"load", "window"} => wasTimed \/ pc \in {"load", "window"},
         ~strayed' => ~strayed /\ mockActive' = mockActive
  PROVE  RingParts'
BY RingHas, RingGets DEF IInv, TypeOK, RingTyped

\* A reading that may be in S is appended.
LEMMA AppendIn ==
  ASSUME NEW S, NEW s \in Seq(Readings), Len(s) <= Cap, In(s, S), NEW r \in Readings, r \in S
  PROVE  In(AppendReading(s, r), S)
<1>1. PICK drop \in {0, 1} :
        /\ Len(AppendReading(s, r)) = Len(s) + 1 - drop
        /\ \A i \in 1..(Len(s) + 1 - drop) :
             AppendReading(s, r)[i] = IF i + drop <= Len(s) THEN s[i + drop] ELSE r
  BY AppendFacts
<1>2. Len(s) \in Nat
  OBVIOUS
<1>3. ASSUME NEW i \in 1..Len(AppendReading(s, r)) PROVE AppendReading(s, r)[i] \in S
  <2>1. CASE i + drop <= Len(s)
    BY <1>1, <1>2, <2>1 DEF In
  <2>2. CASE ~(i + drop <= Len(s))
    BY <1>1, <1>2, <2>2
  <2>3. QED
    BY <2>1, <2>2
<1>4. QED
  BY <1>3 DEF In

\* A measured one has no twin.
LEMMA AppendTwinless ==
  ASSUME NEW s \in Seq(Readings), Len(s) <= Cap, Twinless(s), NEW r \in Readings, r.src = "probe"
  PROVE  Twinless(AppendReading(s, r))
<1>1. PICK drop \in {0, 1} :
        /\ Len(AppendReading(s, r)) = Len(s) + 1 - drop
        /\ \A i \in 1..(Len(s) + 1 - drop) :
             AppendReading(s, r)[i] = IF i + drop <= Len(s) THEN s[i + drop] ELSE r
  BY AppendFacts
<1>2. Len(s) \in Nat
  OBVIOUS
<1> DEFINE t == AppendReading(s, r)
<1> SUFFICES ASSUME NEW i \in 1..Len(t), NEW j \in 1..Len(t), i # j, Twins(t[i], t[j]) PROVE FALSE
  BY DEF Twinless
<1>3. t[i] # r /\ t[j] # r
  BY DEF Twins
<1>4. i + drop \in 1..Len(s) /\ t[i] = s[i + drop] /\ j + drop \in 1..Len(s) /\ t[j] = s[j + drop]
  BY <1>1, <1>2, <1>3
<1>5. i + drop # j + drop
  BY <1>1
<1> HIDE DEF t
<1>6. QED
  BY <1>4, <1>5 DEF Twinless

\* Replayed readings are true, walled and of the replay.
LEMMA FillIn ==
  ASSUME now \in Nat, Past <= now, NEW s \in Seq(Readings), Len(s) <= Cap, NEW filled
  PROVE  /\ \A b \in Nat : In(s, TrueOf(b)) => In(Fill(s, filled), TrueOf(b))
         /\ In(s, Walled) => In(Fill(s, filled), Walled)
         /\ In(s, OfMode(TRUE)) => In(Fill(s, filled), OfMode(TRUE))
<1>1. ASSUME NEW h \in Nat, NEW b \in Nat
      PROVE  Replayed(h) \in TrueOf(b) /\ Replayed(h) \in Walled /\ Replayed(h) \in OfMode(TRUE)
  <2>1. Replayed(h) \in Readings
    BY ReplayedFacts
  <2>2. Replayed(h).ts = ProvMax + h /\ Replayed(h).at = h /\ Replayed(h).src = "replay"
    BY DEF Replayed, Reading
  <2>3. ProvMax + h >= ProvMax /\ (ProvMax + h) - ProvMax = h /\ ~(ProvMax + h < ProvMax)
    BY Sizes
  <2>4. QED
    BY <2>1, <2>2, <2>3 DEF TrueOf, Walled, OfMode
<1>2. \A i \in 1..Len(Fill(s, filled)) :
        \/ \E j \in 1..Len(s) : Fill(s, filled)[i] = s[j]
        \/ \E h \in Nat \ {0} : Fill(s, filled)[i] = Replayed(h)
  BY FillFacts
<1>3. ASSUME NEW S, In(s, S), \A h \in Nat : Replayed(h) \in S PROVE In(Fill(s, filled), S)
  BY <1>2, <1>3 DEF In
<1>4. QED
  BY <1>1, <1>3

\* What the scan marks is what is there.
LEMMA ScanSees ==
  ASSUME ring \in Seq(Readings)
  PROVE  Scanned(ring, Filled)
<1> SUFFICES ASSUME NEW h \in Window, h \notin Filled, NEW j \in 1..Len(ring) PROVE ~Twins(ring[j], Replayed(h))
  BY DEF Scanned
<1>1. j \in DOMAIN ring
  OBVIOUS
<1>2. ring[j].ts # ProvMax + h
  BY <1>1 DEF Filled
<1>3. QED
  BY <1>2 DEF Twins, Replayed, Reading

\* A rebase turns the uptimes of this boot into the wall times they stand for.
LEMMA RebaseFacts ==
  ASSUME IInv
  PROVE  /\ Rebase(ring) \in Seq(Readings) /\ Len(Rebase(ring)) <= Cap
         /\ In(Rebase(ring), TrueOf(born)) /\ In(Rebase(ring), Walled) /\ Twinless(Rebase(ring))
         /\ \A m \in BOOLEAN : In(ring, OfMode(m)) => In(Rebase(ring), OfMode(m))
<1> DEFINE u == Rebase(ring)
<1>1. /\ ring \in Seq(Readings) /\ Len(ring) \in Nat /\ Len(ring) <= Cap /\ DOMAIN ring = 1..Len(ring)
      /\ In(ring, TrueOf(born)) /\ Twinless(ring) /\ now \in Nat /\ born \in Nat
  BY RingHas, Sizes DEF IInv, TypeOK, RingTyped, TimesTyped
<1>2. Wall - Up = ProvMax + born
  BY <1>1, Sizes DEF Wall, Up
<1>3. u = [i \in 1..Len(ring) |-> IF ring[i].ts < ProvMax THEN [ring[i] EXCEPT !.ts = ring[i].ts + (ProvMax + born)]
                                                        ELSE ring[i]]
  BY <1>1, <1>2 DEF Rebase, Provisional
<1> HIDE DEF u
<1>4. ASSUME NEW i \in 1..Len(ring)
      PROVE  /\ u[i] \in Readings /\ u[i] \in TrueOf(born) /\ u[i] \in Walled
             /\ u[i].src = ring[i].src /\ u[i].own = ring[i].own
             /\ ring[i].own /\ ring[i].src = "replay" => u[i] = ring[i]
  <2>1. ring[i] \in Readings /\ ring[i] \in TrueOf(born)
    BY <1>1 DEF In
  <2> DEFINE r == ring[i]
             v == [r EXCEPT !.ts = r.ts + (ProvMax + born)]
  <2>2. CASE r.ts < ProvMax
    <3>1. u[i] = v
      BY <1>3, <2>2
    <3>2. r.ts + (ProvMax + born) \in Nat /\ r.ts + (ProvMax + born) >= ProvMax
      BY <1>1, <2>1, Sizes DEF Readings
    <3>3. v \in Readings /\ v.ts = r.ts + (ProvMax + born) /\ v.at = r.at /\ v.src = r.src /\ v.own = r.own
      BY <2>1, <3>2 DEF Readings
    <3>4. r.own => r.at = born + r.ts /\ ~(r.src = "replay")
      <4>1. r.own => /\ r.at = IF r.ts < ProvMax THEN born + r.ts ELSE r.ts - ProvMax
                     /\ r.src = "replay" => r.ts >= ProvMax
        BY <2>1 DEF TrueOf
      <4>2. ~(r.ts >= ProvMax)
        BY <2>1, <2>2, Sizes DEF Readings
      <4>3. QED
        BY <2>2, <4>1, <4>2
    <3>5. (r.ts + (ProvMax + born)) - ProvMax = born + r.ts /\ ~(r.ts + (ProvMax + born) < ProvMax)
      BY <1>1, <2>1, <3>2, Sizes DEF Readings
    <3> HIDE DEF r, v
    <3>6. v \in TrueOf(born)
      BY <3>2, <3>3, <3>4, <3>5 DEF TrueOf
    <3>7. v \in Walled
      BY <3>2, <3>3 DEF Walled
    <3>8. QED
      BY <3>1, <3>3, <3>4, <3>6, <3>7 DEF r
  <2>3. CASE ~(r.ts < ProvMax)
    <3>1. u[i] = r
      BY <1>3, <2>3
    <3>2. r.ts >= ProvMax
      BY <2>1, <2>3, Sizes DEF Readings
    <3>3. QED
      BY <2>1, <3>1, <3>2 DEF Walled
  <2>4. QED
    BY <2>2, <2>3
<1>5. u \in Seq(Readings) /\ Len(u) = Len(ring)
  <2>1. u \in [1..Len(ring) -> Readings]
    BY <1>3, <1>4
  <2>2. QED
    BY <1>1, <2>1
<1>6. In(u, TrueOf(born)) /\ In(u, Walled)
  BY <1>4, <1>5 DEF In
<1>7. \A m \in BOOLEAN : In(ring, OfMode(m)) => In(u, OfMode(m))
  <2> SUFFICES ASSUME NEW m \in BOOLEAN, In(ring, OfMode(m)), NEW i \in 1..Len(u) PROVE u[i] \in OfMode(m)
    BY DEF In
  <2>1. ring[i] \in OfMode(m)
    BY <1>5 DEF In
  <2>2. QED
    BY <1>4, <1>5, <2>1 DEF OfMode
<1>8. Twinless(u)
  <2> SUFFICES ASSUME NEW i \in 1..Len(u), NEW j \in 1..Len(u), i # j, Twins(u[i], u[j]) PROVE FALSE
    BY DEF Twinless
  <2>1. i \in 1..Len(ring) /\ j \in 1..Len(ring)
    BY <1>5
  <2>2. u[i] = ring[i] /\ u[j] = ring[j]
    BY <1>4, <2>1 DEF Twins
  <2>3. QED
    BY <1>1, <2>1, <2>2 DEF Twinless
<1>9. QED
  BY <1>1, <1>5, <1>6, <1>7, <1>8 DEF u

-----------------------------------------------------------------------------
(* The times.                                                                *)

LEMMA Hours ==
  ASSUME IInv
  PROVE  /\ now \in Nat /\ born \in Nat /\ boots \in Nat /\ Past <= now /\ now <= MaxNow
         /\ born <= now /\ Past <= born /\ now < ProvMax
         /\ Up \in Nat /\ Up < ProvMax /\ Wall \in Nat /\ Wall >= ProvMax
         /\ isSet \in BOOLEAN /\ topAt \in Nat /\ nowMs \in Nat
BY Sizes DEF IInv, TypeOK, TimesTyped, FlagsTyped, Up, Wall

LEMMA ResetTimes ==
  ASSUME IInv, NEW at \in Nat, NEW carried, now <= at, Reset(at, carried)
  PROVE  TimesTyped' /\ StampIsOfItsHour'
<1>1. boots' \in 0..MaxBoots
  BY Sizes, Hours DEF Reset
<1>2. now' \in Past..MaxNow /\ born' \in Past..now'
  BY Sizes, Hours DEF Reset
<1>3. topAt' = 0 /\ nowMs' = 0 /\ pc' = "load"
  BY DEF Reset
<1>4. QED
  BY <1>1, <1>2, <1>3 DEF TimesTyped, StampIsOfItsHour

\* The iteration's stamp is the one of the hour it is taken in.
LEMMA TopTimes ==
  ASSUME IInv, Top
  PROVE  TimesTyped' /\ StampIsOfItsHour'
<1>1. /\ now' = now /\ born' = born /\ boots' = boots /\ topAt' = now /\ nowMs' = Stamp
      /\ timed' = isSet /\ wasTimed' = wasTimed
  BY DEF Top, time
<1>2. Stamp = IF isSet THEN ProvMax + now ELSE now - born
  BY DEF Stamp, Wall, Up
<1>3. Stamp \in Nat
  BY Hours DEF Stamp
<1>4. TimesTyped'
  BY <1>1, <1>3, Hours DEF TimesTyped, IInv, TypeOK
<1>5. wasTimed' => timed'
  BY <1>1 DEF IInv, ClockNoticed, TypeOK, FlagsTyped
<1>6. topAt' \in born'..now'
  BY <1>1, Hours
<1>7. QED
  BY <1>1, <1>2, <1>4, <1>5, <1>6 DEF StampIsOfItsHour

\* The steps of an iteration up to its capture.
Early == {"rebase", "snapshot", "notice", "acquire"}

LEMMA TimesStep ==
  ASSUME IInv, Next
  PROVE  TimesTyped' /\ StampIsOfItsHour'
<1>1. CASE Top
  BY <1>1, TopTimes
<1>2. CASE Tick
  <2>1. now + 1 \in Past..MaxNow /\ born \in Past..(now + 1) /\ born..now \subseteq born..(now + 1)
    BY <1>2, Hours, Sizes DEF Tick
  <2>2. now' = now + 1 /\ UNCHANGED <<born, boots, pc, timed, nowMs, topAt, wasTimed>>
    BY <1>2 DEF Tick, iter
  <2>3. QED
    BY <2>1, <2>2 DEF TimesTyped, StampIsOfItsHour, IInv, TypeOK
<1>3. CASE DeepSleep
  BY <1>3, ResetTimes, Hours DEF DeepSleep
<1>4. CASE PowerCut
  <2>1. PICK gap \in 0..1 : Reset(now + gap, FALSE)
    BY <1>4 DEF PowerCut
  <2>2. now + gap \in Nat /\ now <= now + gap
    BY Hours
  <2>3. QED
    BY <2>1, <2>2, ResetTimes
<1>5. ASSUME UNCHANGED <<now, born, boots, timed, nowMs, topAt>>,
             pc' \in Early => pc \in Early /\ (wasTimed' => wasTimed \/ timed)
      PROVE  TimesTyped' /\ StampIsOfItsHour'
  BY <1>5 DEF TimesTyped, StampIsOfItsHour, IInv, TypeOK, Early
<1>6. CASE \/ Load \/ StartLoop \/ BackFill \/ Snapshot \/ NoticeMock \/ Capture \/ TopUp \/ TopUpAppends
          \/ Lora \/ Poll \/ Persist \/ Nap \/ Serve \/ Ping
  <2>1. UNCHANGED <<now, born, boots, timed, nowMs, topAt>>
    BY <1>6 DEF Load, StartLoop, BackFill, Snapshot, NoticeMock, Capture, TopUp, TopUpAppends, Lora, Poll, Persist, Nap, Serve, Ping, time, iter
  <2>2. pc' \in Early => pc \in Early /\ (wasTimed' => wasTimed \/ timed)
    <3>1. CASE TopUp \/ TopUpAppends
      BY <3>1 DEF TopUp, TopUpAppends, After, iter, IInv, ScanIsFresh, Early
    <3>2. CASE Load \/ StartLoop \/ Capture \/ Lora \/ Poll \/ Persist \/ Nap \/ Serve \/ Ping
      BY <3>2 DEF Load, StartLoop, Capture, Lora, Poll, Persist, Nap, Serve, Ping, Early
    <3>3. CASE BackFill
      BY <3>3 DEF BackFill, Early
    <3>4. CASE Snapshot \/ NoticeMock
      BY <3>4 DEF Snapshot, NoticeMock, Early
    <3>5. QED
      BY <1>6, <3>1, <3>2, <3>3, <3>4
  <2>3. QED
    BY <1>5, <2>1, <2>2
<1>7. CASE Ble
  <2>1. UNCHANGED <<now, born, boots, timed, nowMs, topAt, pc, wasTimed>>
    BY <1>7 DEF Ble, TimeSync, SwitchMock, AskInference, Clear, time, iter
  <2>2. QED
    BY <1>5, <2>1
<1>8. QED
  BY <1>1, <1>2, <1>3, <1>4, <1>6, <1>7 DEF Next, Loop

-----------------------------------------------------------------------------
(* The flags, the clock's state and the lock.                                *)

LEMMA LoopFlags ==
  ASSUME FlagsTyped, Loop
  PROVE  FlagsTyped'
<1> USE DEF FlagsTyped, time, iter, store, cfg, fill
<1>1. CASE Load
  BY <1>1 DEF Load, Downlink
<1>2. CASE StartLoop
  BY <1>2 DEF StartLoop, SaveConfig
<1>3. CASE Top
  BY <1>3 DEF Top
<1>4. CASE Capture
  BY <1>4 DEF Capture, Store
<1>5. CASE TopUp
  BY <1>5 DEF TopUp
<1>6. CASE TopUpAppends
  BY <1>6 DEF TopUpAppends, Store
<1>7. CASE Lora
  <2>1. isSet' \in BOOLEAN /\ savedMock' \in BOOLEAN
    BY <1>7 DEF Lora, Downlink
  <2>2. QED
    BY <1>7, <2>1 DEF Lora
<1>8. CASE Poll
  BY <1>8 DEF Poll, SaveConfig
<1>9. CASE Persist
  BY <1>9 DEF Persist
<1>10. CASE Nap
  <2>1. cfgMock' \in BOOLEAN /\ cfgDirty' \in BOOLEAN /\ savedMock' \in BOOLEAN
    BY <1>10 DEF Nap, SaveConfig
  <2>2. QED
    BY <1>10, <2>1 DEF Nap
<1>11. CASE Serve
  BY <1>11 DEF Serve, Store
<1>12. CASE Ping
  <2>1. isSet' \in BOOLEAN /\ savedMock' \in BOOLEAN
    BY <1>12 DEF Ping, Downlink
  <2>2. QED
    BY <1>12, <2>1 DEF Ping
<1>13. CASE BackFill
  BY <1>13 DEF BackFill, Store
<1>14. CASE Snapshot
  BY <1>14 DEF Snapshot
<1>15. CASE NoticeMock
  BY <1>15 DEF NoticeMock, EmptyRing
<1>16. QED
  BY <1>1, <1>2, <1>3, <1>4, <1>5, <1>6, <1>7, <1>8, <1>9, <1>10, <1>11, <1>12, <1>13, <1>14, <1>15 DEF Loop

LEMMA OtherFlags ==
  ASSUME FlagsTyped, Ble \/ DeepSleep \/ PowerCut \/ Tick
  PROVE  FlagsTyped'
<1> USE DEF FlagsTyped, time, iter, store, cfg, fill
<1>1. CASE TimeSync
  BY <1>1 DEF TimeSync, Store
<1>2. CASE SwitchMock
  BY <1>2 DEF SwitchMock
<1>3. CASE AskInference
  BY <1>3 DEF AskInference
<1>4. CASE Clear
  BY <1>4 DEF Clear, EmptyRing
<1>5. ASSUME NEW at, NEW carried \in BOOLEAN, Reset(at, carried) PROVE FlagsTyped'
  BY <1>5 DEF Reset
<1>6. CASE Tick
  BY <1>6 DEF Tick
<1>7. QED
  BY <1>1, <1>2, <1>3, <1>4, <1>5, <1>6 DEF Ble, DeepSleep, PowerCut

\* Inside the fill, only the fill goes on, or the station goes down.
LEMMA ScanStep ==
  ASSUME IInv, Next
  PROVE  ScanIsFresh'
<1>1. CASE TopUp
  <2>1. UNCHANGED <<now, ring, mockActive>> /\ mockActive /\ ~locked /\ pc \in DOMAIN After
    BY <1>1 DEF TopUp, time, store, iter
  <2>2. locked' => pc' = pc /\ have' = Filled
    BY <1>1, <2>1 DEF TopUp, fill
  <2>3. Filled' = Filled
    BY <2>1 DEF Filled, Window
  <2>4. QED
    BY <2>1, <2>2, <2>3 DEF ScanIsFresh
<1>2. CASE TopUpAppends \/ DeepSleep \/ PowerCut
  <2>1. ~locked'
    BY <1>2 DEF TopUpAppends, DeepSleep, PowerCut, Reset
  <2>2. QED
    BY <2>1 DEF ScanIsFresh
<1>3. CASE \/ Load \/ StartLoop \/ Top \/ BackFill \/ Snapshot \/ NoticeMock \/ Capture \/ Lora \/ Poll \/ Persist
          \/ Nap \/ Serve \/ Ping
  <2>1. ~locked
    BY <1>3 DEF Load, StartLoop, Top, BackFill, Snapshot, NoticeMock, Capture, Lora, Poll, Persist, Nap, Serve, Ping, IInv, ScanIsFresh, After
  <2>2. locked' = locked
    BY <1>3 DEF Load, StartLoop, Top, BackFill, Snapshot, NoticeMock, Capture, Lora, Poll, Persist, Nap, Serve,
                Ping, fill
  <2>3. QED
    BY <2>1, <2>2 DEF ScanIsFresh
<1>4. CASE Ble \/ Tick
  <2>1. ~locked /\ locked' = locked
    BY <1>4 DEF Ble, TimeSync, SwitchMock, AskInference, Clear, BleRuns, Tick, fill
  <2>2. QED
    BY <2>1 DEF ScanIsFresh
<1>5. QED
  BY <1>1, <1>2, <1>3, <1>4 DEF Next, Loop

\* The clock, once set, stays set until a reset, which forgets it all.
LEMMA ClockStep ==
  ASSUME IInv, Next
  PROVE  ClockNoticed'
<1> USE DEF ClockNoticed
<1>0. ClockNoticed
  BY DEF IInv
<1>1. CASE Top
  <2>1. timed' = isSet /\ wasTimed' = wasTimed /\ isSet' = isSet /\ pc' = "rebase"
    BY <1>1 DEF Top
  <2>2. QED
    BY <1>0, <2>1
<1>2. CASE StartLoop
  <2>1. timed' = timed /\ wasTimed' = isSet /\ isSet' = isSet /\ pc' = "top" /\ pc = "window"
    BY <1>2 DEF StartLoop
  <2>2. QED
    BY <1>0, <2>1
<1>3. CASE DeepSleep \/ PowerCut
  <2>1. ~timed' /\ ~wasTimed' /\ ring' = <<>>
    BY <1>3 DEF DeepSleep, PowerCut, Reset
  <2>2. QED
    BY <2>1
<1>4. CASE Load \/ Snapshot \/ NoticeMock \/ Capture \/ Lora \/ Poll \/ Persist \/ Nap \/ Serve \/ Ping
  <2>1. timed' = timed /\ wasTimed' = wasTimed /\ pc' # "load" /\ pc # "rebase"
    BY <1>4 DEF Load, Snapshot, NoticeMock, Capture, Lora, Poll, Persist, Nap, Serve, Ping, iter
  <2>2. isSet => isSet'
    BY <1>4 DEF Load, Snapshot, NoticeMock, Capture, Lora, Poll, Persist, Nap, Serve, Ping, Downlink
  <2>3. QED
    BY <1>0, <2>1, <2>2
<1>5. CASE TopUp \/ TopUpAppends
  <2>1. timed' = timed /\ wasTimed' = wasTimed /\ isSet' = isSet /\ pc' # "load" /\ pc # "rebase"
    BY <1>5 DEF TopUp, TopUpAppends, iter, After, IInv, ScanIsFresh
  <2>2. QED
    BY <1>0, <2>1
<1>6. CASE Ble
  <2>1. timed' = timed /\ wasTimed' = wasTimed /\ pc' # "load" /\ pc' = pc
    BY <1>6 DEF Ble, TimeSync, SwitchMock, AskInference, Clear, BleRuns, iter
  <2>2. isSet => isSet'
    BY <1>6 DEF Ble, TimeSync, SwitchMock, AskInference, Clear
  <2>3. QED
    BY <1>0, <2>1, <2>2
<1>7. CASE Tick
  <2>1. UNCHANGED <<timed, wasTimed, isSet, pc, ring>>
    BY <1>7 DEF Tick, iter, store
  <2>2. QED
    BY <1>0, <2>1
<1>8. CASE BackFill
  <2>1. timed' = timed /\ wasTimed' = (wasTimed \/ timed) /\ isSet' = isSet /\ pc' = "snapshot"
    BY <1>8 DEF BackFill
  <2>2. QED
    BY <1>0, <2>1
<1>9. QED
  BY <1>1, <1>2, <1>3, <1>4, <1>5, <1>6, <1>7, <1>8 DEF Next, Loop

-----------------------------------------------------------------------------
(* The ring.                                                                 *)

RingIsFit == ring \in Seq(Readings) /\ Len(ring) <= Cap

LEMMA NowFit ==
  ASSUME IInv
  PROVE  RingIsFit /\ image \in Seq(Readings) /\ Len(image) <= Cap
BY DEF IInv, TypeOK, RingTyped, RingIsFit

\* A reading taken now, or with the stamp of the iteration, may be in the ring.
LEMMA ProbeIn ==
  ASSUME IInv, NEW at \in Nat, NEW ts \in Nat, NEW isWall \in BOOLEAN, born <= at, at <= now,
         ts = IF isWall THEN ProvMax + at ELSE at - born
  PROVE  LET r == Reading(ts, at, "probe")
         IN /\ r \in Readings /\ r.src = "probe" /\ r \in TrueOf(born) /\ r \in OfMode(FALSE)
            /\ isWall => r \in Walled
<1> DEFINE r == Reading(ts, at, "probe")
<1>1. r \in Readings /\ r.src = "probe" /\ r.ts = ts /\ r.at = at
  BY DEF Reading, Readings
<1>2. isWall => ts >= ProvMax /\ ~(ts < ProvMax) /\ ts - ProvMax = at
  BY Sizes
<1>3. ~isWall => ts < ProvMax /\ born + ts = at
  BY Sizes, Hours
<1> HIDE DEF r
<1>4. at = IF ts < ProvMax THEN born + ts ELSE ts - ProvMax
  BY <1>2, <1>3
<1>5. r \in TrueOf(born)
  BY <1>1, <1>4 DEF TrueOf
<1>6. r \in OfMode(FALSE) /\ (isWall => r \in Walled)
  BY <1>1, <1>2 DEF OfMode, Walled
<1>7. QED
  BY <1>1, <1>5, <1>6 DEF r

\* A measured reading goes into a ring of the measuring mode.
LEMMA CaptureRing ==
  ASSUME IInv, Capture \/ Serve
  PROVE  RingIsFit' /\ RingParts'
<1>1. /\ UNCHANGED <<born, wasTimed, strayed, mockActive>>
      /\ pc \notin {"load", "window"} /\ pc' \notin {"load", "window"}
  BY DEF Capture, Serve, Store, time, iter, store
<1>2. CASE ring' = ring
  <2>1. RingIsFit'
    BY <1>2, NowFit DEF RingIsFit
  <2>2. RingParts'
    BY <1>1, <1>2, KeptIsGood
  <2>3. QED
    BY <2>1, <2>2
<1>3. ASSUME NEW at \in Nat, NEW ts \in Nat, NEW isWall \in BOOLEAN, born <= at, at <= now,
             ts = IF isWall THEN ProvMax + at ELSE at - born,
             wasTimed => isWall, ~mockActive,
             ring' = AppendReading(ring, Reading(ts, at, "probe"))
      PROVE  RingIsFit' /\ RingParts'
  <2> DEFINE r == Reading(ts, at, "probe")
  <2>1. /\ r \in Readings /\ r.src = "probe" /\ r \in TrueOf(born) /\ r \in OfMode(FALSE)
        /\ isWall => r \in Walled
    BY <1>3, ProbeIn
  <2> HIDE DEF r
  <2>2. ring' = AppendReading(ring, r)
    BY <1>3 DEF r
  <2>3. ring' \in Seq(Readings) /\ Len(ring') <= Cap
    BY <2>1, <2>2, NowFit, AppendFacts DEF RingIsFit
  <2>4. In(ring', TrueOf(born'))
    BY <1>1, <2>1, <2>2, NowFit, RingHas, AppendIn DEF RingIsFit
  <2>5. Twinless(ring')
    BY <2>1, <2>2, NowFit, RingHas, AppendTwinless DEF RingIsFit
  <2>6. wasTimed' \/ pc' \in {"load", "window"} => In(ring', Walled)
    BY <1>1, <1>3, <2>1, <2>2, NowFit, RingHas, AppendIn DEF RingIsFit
  <2>7. ~strayed' => In(ring', OfMode(mockActive'))
    <3>1. mockActive = FALSE
      BY <1>3 DEF IInv, TypeOK, FlagsTyped
    <3>2. QED
      BY <1>1, <2>1, <2>2, <3>1, NowFit, RingHas, AppendIn DEF RingIsFit
  <2>8. QED
    BY <2>3, <2>4, <2>5, <2>6, <2>7, RingGets DEF RingIsFit
<1>4. CASE Capture
  <2>1. CASE ring' = ring
    BY <1>2, <2>1
  <2>2. CASE ring' = AppendReading(ring, Reading(nowMs, topAt, "probe"))
    <3>1. /\ topAt \in Nat /\ nowMs \in Nat /\ timed \in BOOLEAN /\ born <= topAt /\ topAt <= now
          /\ nowMs = IF timed THEN ProvMax + topAt ELSE topAt - born
          /\ (wasTimed => timed) /\ ~mockActive
      BY <1>4, Hours DEF Capture, IInv, StampIsOfItsHour, TypeOK, FlagsTyped
    <3>2. QED
      BY <1>3, <2>2, <3>1
  <2>3. QED
    BY <1>4, <2>1, <2>2 DEF Capture, Store, store
<1>5. CASE Serve
  <2>1. CASE ring' = ring
    BY <1>2, <2>1
  <2>2. CASE ring' = AppendReading(ring, Reading(Stamp, now, "probe")) /\ ~mockActive
    <3>1. /\ now \in Nat /\ Stamp \in Nat /\ isSet \in BOOLEAN /\ born <= now /\ now <= now
          /\ Stamp = IF isSet THEN ProvMax + now ELSE now - born
          /\ wasTimed => isSet
      BY Hours DEF Stamp, Wall, Up, IInv, ClockNoticed
    <3>2. QED
      BY <1>3, <2>2, <3>1
  <2>3. QED
    BY <1>5, <2>1, <2>2 DEF Serve, Store, store
<1>6. QED
  BY <1>4, <1>5

\* A fill of what a scan has missed.
LEMMA FillRing ==
  ASSUME IInv, ring' = Fill(ring, Filled), UNCHANGED <<born, wasTimed, mockActive>>,
         pc' = pc \/ (pc \notin {"load", "window"} /\ pc' \notin {"load", "window"}),
         ~strayed' => ~strayed /\ mockActive
  PROVE  RingIsFit' /\ RingParts'
<1>1. /\ now \in Nat /\ Past <= now /\ born \in Nat /\ ring \in Seq(Readings) /\ Len(ring) <= Cap
  BY Hours, NowFit DEF RingIsFit
<1>2. ring' \in Seq(Readings) /\ Len(ring') <= Cap /\ Twinless(ring')
  BY <1>1, FillFacts, ScanSees, RingHas
<1>3. In(ring', TrueOf(born'))
  BY <1>1, FillIn, RingHas
<1>4. wasTimed' \/ pc' \in {"load", "window"} => In(ring', Walled)
  BY <1>1, FillIn, RingHas
<1>5. ~strayed' => In(ring', OfMode(mockActive'))
  <2>1. mockActive => mockActive = TRUE
    BY DEF IInv, TypeOK, FlagsTyped
  <2>2. QED
    BY <1>1, <2>1, FillIn, RingHas
<1>6. QED
  BY <1>2, <1>3, <1>4, <1>5, RingGets DEF RingIsFit

\* What comes back from flash is not of this boot.
LEMMA LoadRing ==
  ASSUME IInv, Load
  PROVE  RingIsFit' /\ RingParts'
<1>1. image \in Seq(Readings) /\ Len(image) \in Nat /\ Len(image) <= Cap /\ DOMAIN image = 1..Len(image)
  BY NowFit
<1>2. ring' = [i \in 1..Len(image) |-> [image[i] EXCEPT !.own = FALSE]]
  BY <1>1 DEF Load
<1>3. ASSUME NEW i \in 1..Len(image) PROVE ring'[i] \in Readings /\ ring'[i].own = FALSE
  <2>1. image[i] \in Readings
    BY <1>1
  <2>2. ring'[i] = [image[i] EXCEPT !.own = FALSE]
    BY <1>2
  <2>3. QED
    BY <2>1, <2>2 DEF Readings
<1>4. ring' \in Seq(Readings) /\ Len(ring') = Len(image)
  <2>1. ring' \in [1..Len(image) -> Readings]
    BY <1>2, <1>3
  <2>2. QED
    BY <1>1, <2>1
<1>5. \A b, m : In(ring', TrueOf(b)) /\ In(ring', Walled) /\ In(ring', OfMode(m))
  BY <1>3, <1>4 DEF In, TrueOf, Walled, OfMode
<1>6. Twinless(ring')
  BY <1>3, <1>4 DEF Twinless, Twins
<1>7. QED
  BY <1>1, <1>4, <1>5, <1>6, RingGets DEF RingIsFit

\* The rebase is done once, or has nothing to do.
LEMMA BackFillRing ==
  ASSUME IInv, BackFill
  PROVE  RingIsFit' /\ RingParts'
<1>1. /\ UNCHANGED <<born, strayed, mockActive>> /\ wasTimed' = (wasTimed \/ timed)
      /\ pc' = "snapshot" /\ mockActive \in BOOLEAN
      /\ ring' = IF timed /\ ~wasTimed THEN Rebase(ring) ELSE ring
  BY DEF BackFill, Store, time, IInv, TypeOK, FlagsTyped
<1>2. CASE timed /\ ~wasTimed
  <2>1. ring' = Rebase(ring)
    BY <1>1, <1>2
  <2>2. /\ ring' \in Seq(Readings) /\ RingIsFit' /\ In(ring', TrueOf(born')) /\ Twinless(ring')
        /\ In(ring', Walled)
    BY <1>1, <2>1, RebaseFacts DEF RingIsFit
  <2>3. ~strayed' => In(ring', OfMode(mockActive'))
    BY <1>1, <2>1, RebaseFacts, RingHas
  <2>4. QED
    BY <2>2, <2>3, RingGets
<1>3. CASE ~(timed /\ ~wasTimed)
  <2>1. ring' = ring /\ (wasTimed' => wasTimed)
    BY <1>1, <1>3
  <2>2. RingParts'
    BY <1>1, <2>1, KeptIsGood
  <2>3. QED
    BY <2>1, <2>2, NowFit DEF RingIsFit
<1>4. QED
  BY <1>2, <1>3

\* A change of mode starts from an empty ring.
LEMMA NoticeRing ==
  ASSUME IInv, NoticeMock
  PROVE  RingIsFit' /\ RingParts'
<1>1. CASE live # mockActive
  BY <1>1, EmptyIsGood DEF NoticeMock, EmptyRing, RingIsFit
<1>2. CASE live = mockActive
  <2>1. /\ UNCHANGED <<ring, born, strayed, mockActive, wasTimed>>
        /\ pc' = "acquire"
    BY <1>2 DEF NoticeMock, store, time
  <2>2. RingParts'
    BY <2>1, KeptIsGood
  <2>3. QED
    BY <2>1, <2>2, NowFit DEF RingIsFit
<1>3. QED
  BY <1>1, <1>2

LEMMA RingStep ==
  ASSUME IInv, Next
  PROVE  RingIsFit' /\ RingParts'
<1>1. CASE Load
  BY <1>1, LoadRing
<1>2. CASE BackFill \/ NoticeMock
  BY <1>2, BackFillRing, NoticeRing
<1>3. CASE Capture \/ Serve
  BY <1>3, CaptureRing
<1>4. CASE TopUpAppends
  <2>1. mockActive /\ have = Filled
    BY <1>4 DEF TopUpAppends, IInv, ScanIsFresh
  <2>2. ring' = Fill(ring, Filled) /\ UNCHANGED <<born, wasTimed, strayed, mockActive>>
    BY <1>4, <2>1 DEF TopUpAppends, Store, time, iter
  <2>3. pc \notin {"load", "window"} /\ pc' \notin {"load", "window"}
    BY <1>4 DEF TopUpAppends, After, IInv, ScanIsFresh
  <2>4. QED
    BY <2>1, <2>2, <2>3, FillRing
<1>5. CASE TimeSync
  <2>1. UNCHANGED <<born, pc, wasTimed, mockActive>> /\ (~strayed' => ~strayed)
    BY <1>5 DEF TimeSync, time, iter
  <2>2. CASE cfgMock
    <3>1. ring' = Fill(ring, Filled) /\ (~strayed' => mockActive)
      BY <1>5, <2>2 DEF TimeSync
    <3>2. QED
      BY <2>1, <2>2, <3>1, FillRing
  <2>3. CASE ~cfgMock
    <3>1. ring' = ring
      BY <1>5, <2>3 DEF TimeSync
    <3>2. RingParts'
      BY <2>1, <3>1, KeptIsGood
    <3>3. QED
      BY <3>1, <3>2, NowFit DEF RingIsFit
  <2>4. QED
    BY <2>2, <2>3
<1>6. CASE Clear \/ DeepSleep \/ PowerCut
  <2>1. ring' = <<>>
    BY <1>6 DEF Clear, EmptyRing, DeepSleep, PowerCut, Reset
  <2>2. QED
    BY <2>1, EmptyIsGood DEF RingIsFit
<1>7. CASE \/ StartLoop \/ Top \/ Snapshot \/ TopUp \/ Lora \/ Poll \/ Persist \/ Nap \/ Ping
          \/ SwitchMock \/ AskInference \/ Tick
  <2>1. UNCHANGED <<ring, born, strayed, mockActive>>
    BY <1>7 DEF StartLoop, Top, Snapshot, TopUp, Lora, Poll, Persist, Nap, Ping, SwitchMock, AskInference, Tick,
                SaveConfig, time, iter, store
  <2>2. wasTimed' \/ pc' \in {"load", "window"} => wasTimed \/ pc \in {"load", "window"}
    BY <1>7 DEF StartLoop, Top, Snapshot, TopUp, Lora, Poll, Persist, Nap, Ping, SwitchMock, AskInference, Tick,
                After, iter
  <2>3. RingParts'
    BY <2>1, <2>2, KeptIsGood
  <2>4. QED
    BY <2>1, <2>3, NowFit DEF RingIsFit
<1>8. QED
  BY <1>1, <1>2, <1>3, <1>4, <1>5, <1>6, <1>7 DEF Next, Loop, Ble

LEMMA ImageStep ==
  ASSUME IInv, Next
  PROVE  image' \in Seq(Readings) /\ Len(image') <= Cap
<1>1. image' \in {image, ring}
  BY DEF Next, Loop, Ble, Load, StartLoop, Top, BackFill, Snapshot, NoticeMock, Capture, TopUp, TopUpAppends, Lora, Poll, Persist, Nap, Serve,
         Ping, TimeSync, SwitchMock, AskInference, Clear, DeepSleep, PowerCut, Reset, Tick
<1>2. QED
  BY <1>1, NowFit DEF RingIsFit

-----------------------------------------------------------------------------
LEMMA InitIsGood == Init => IInv
<1> SUFFICES ASSUME Init PROVE IInv
  OBVIOUS
<1>1. ring = <<>> /\ image = <<>> /\ <<>> \in Seq(Readings) /\ Len(<<>>) = 0 /\ DOMAIN ring = {}
  BY DEF Init
<1>2. RingTyped
  BY <1>1, Sizes DEF RingTyped
<1>3. TimesTyped
  BY Sizes DEF Init, TimesTyped
<1>4. FlagsTyped
  BY DEF Init, FlagsTyped
<1>5. StampIsOfItsHour /\ ClockNoticed /\ ScanIsFresh
  BY DEF Init, StampIsOfItsHour, ClockNoticed, ScanIsFresh
<1>6. RebasedOnce /\ ReplayIsStamped /\ KindsKeptApart /\ OwnStampsAreTrue /\ NoTwins
  BY <1>1 DEF RebasedOnce, ReplayIsStamped, KindsKeptApart, OwnStampsAreTrue, NoTwins
<1>7. QED
  BY <1>2, <1>3, <1>4, <1>5, <1>6 DEF IInv, TypeOK

LEMMA StepIsGood ==
  ASSUME IInv, [Next]_vars
  PROVE  IInv'
<1>1. CASE Next
  <2>1. TimesTyped' /\ StampIsOfItsHour'
    BY <1>1, TimesStep
  <2>2. FlagsTyped'
    BY <1>1, LoopFlags, OtherFlags DEF Next, IInv, TypeOK
  <2>3. ScanIsFresh' /\ ClockNoticed'
    BY <1>1, ScanStep, ClockStep
  <2>4. RingTyped' /\ RingParts'
    BY <1>1, RingStep, ImageStep DEF RingTyped, RingIsFit
  <2>5. QED
    BY <2>1, <2>2, <2>3, <2>4 DEF IInv, TypeOK, RingParts
<1>2. CASE UNCHANGED vars
  <2>1. TypeOK' /\ StampIsOfItsHour' /\ ClockNoticed'
    BY <1>2 DEF vars, time, iter, store, cfg, fill, IInv, TypeOK, RingTyped, TimesTyped, FlagsTyped,
                StampIsOfItsHour, ClockNoticed
  <2>2. ScanIsFresh'
    BY <1>2 DEF vars, time, iter, store, cfg, fill, IInv, ScanIsFresh, Filled, Window
  <2>3. RebasedOnce' /\ ReplayIsStamped' /\ KindsKeptApart' /\ OwnStampsAreTrue' /\ NoTwins'
    BY <1>2 DEF vars, time, iter, store, cfg, fill, IInv, RebasedOnce, ReplayIsStamped, KindsKeptApart,
                OwnStampsAreTrue, NoTwins, Meant
  <2>4. QED
    BY <2>1, <2>2, <2>3 DEF IInv
<1>3. QED
  BY <1>1, <1>2

\* Station!IInv is inductive.
THEOREM InductiveInvariant == Spec => []IInv
BY InitIsGood, StepIsGood, PTL DEF Spec

\* The ring and the image in flash never hold more than Cap readings, and no
\* stamp is below zero.
THEOREM TypeCorrect == Spec => []TypeOK
<1>1. IInv => TypeOK
  BY DEF IInv
<1>2. QED
  BY <1>1, InductiveInvariant, PTL

\* A reading of this boot stands for the hour it was taken in, however the
\* clock got set (storage_rebase_provisional).
THEOREM StampsAreTrue == Spec => []OwnStampsAreTrue
<1>1. IInv => OwnStampsAreTrue
  BY DEF IInv
<1>2. QED
  BY <1>1, InductiveInvariant, PTL

\* No uptime of this boot is left once an iteration has begun with the clock
\* set (src/src/main.c, the top of the loop).
THEOREM NoneIsLeftBehind == Spec => []CaughtUp
<1>1. IInv => CaughtUp
  BY DEF IInv, CaughtUp, ClockNoticed, RebasedOnce
<1>2. QED
  BY <1>1, InductiveInvariant, PTL

\* The two top-ups never put in the same hour twice (mock_soil_fill under
\* cfg_lock).
THEOREM TopUpsAgree == Spec => []NoTwins
<1>1. IInv => NoTwins
  BY DEF IInv
<1>2. QED
  BY <1>1, InductiveInvariant, PTL

\* What this boot has put into the ring is of the mode the loop works in, at
\* every step and however the app switches it, but for what a time sync has filled
\* in before the loop had noticed (main.c, the comparison with mock_active).
THEOREM KindsStayApart == Spec => []KindsKeptApart
<1>1. IInv => KindsKeptApart
  BY DEF IInv
<1>2. QED
  BY <1>1, InductiveInvariant, PTL
=============================================================================
