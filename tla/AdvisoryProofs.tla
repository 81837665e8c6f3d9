---------------------------- MODULE AdvisoryProofs ----------------------------
(***************************************************************************)
(* Proofs about AdvisoryRefresh and AdvisoryFindings, for any packages,    *)
(* advisories, workers and batch sizes: a snapshot that does not say       *)
(* "partial" is whole, a ready answer leaves no advisory out, the ranges   *)
(* of an advisory are read as documented, and the progress of a refresh    *)
(* adds up.                                                                *)
(***************************************************************************)
EXTENDS AdvisoryFindings, FiniteSetTheorems, TLAPS

-----------------------------------------------------------------------------
(* Induction over the length of a list, as the absence of a least          *)
(* counterexample: the order of the numbers is well-founded.               *)
LEMMA LeastNat ==
  ASSUME NEW S \in SUBSET Nat, S # {}
  PROVE  \E m \in S : \A k \in S : m <= k
<1> DEFINE R == {p \in Nat \X Nat : p[1] < p[2]}
<1>1. IsWellFoundedOn(R, Nat)  BY NatLessThanWellFounded DEF OpToRel
<1>2. \E m \in S : \A k \in S : <<k, m>> \notin R
  <2> HIDE DEF R
  <2> QED  BY <1>1, WFMin
<1>3. PICK m \in S : \A k \in S : <<k, m>> \notin R
  BY <1>2
<1>4. ASSUME NEW k \in S PROVE m <= k
  <2>1. ~(k < m)  BY <1>3
  <2> QED  BY <2>1
<1> QED  BY <1>4

(* A set with 0 and every successor has every number.                      *)
LEMMA Inductive ==
  ASSUME NEW S, NEW L \in Nat, 0 \in S,
         \A n \in 1..L : n - 1 \in S => n \in S
  PROVE  0..L \subseteq S
<1> SUFFICES ASSUME (0..L) \ S # {} PROVE FALSE
  OBVIOUS
<1>1. (0..L) \ S \in SUBSET Nat  OBVIOUS
<1>2. PICK m \in (0..L) \ S : \A k \in (0..L) \ S : m <= k
  BY <1>1, LeastNat
<1>3. m # 0 /\ m \in 1..L /\ m - 1 \in 0..L /\ ~(m <= m - 1)  BY <1>2
<1>4. m - 1 \in S  BY <1>2, <1>3
<1> QED  BY <1>2, <1>3, <1>4

-----------------------------------------------------------------------------
(* The sort.                                                               *)

(* The order of two events of a list is strict and total.                  *)
LEMMA FirstIsOrder ==
  ASSUME NEW events \in Seq(EventType), NEW i \in DOMAIN events, NEW j \in DOMAIN events
  PROVE  /\ ~First(events, i, i)
         /\ First(events, i, j) => ~First(events, j, i) /\ ~Before(events[j], events[i])
         /\ i # j => First(events, i, j) \/ First(events, j, i)
         /\ \A k \in DOMAIN events :
              First(events, i, j) /\ First(events, j, k) => First(events, i, k)
<1>1. \A k \in DOMAIN events : k \in Nat /\ events[k] \in EventType
  OBVIOUS
<1>2. \A k \in DOMAIN events : k \in Nat /\ events[k].version \in Nat
  BY <1>1 DEF EventType
<1> QED  BY <1>2 DEF First, Before

(* Every place is taken by one event, and the order of places is that of   *)
(* events.                                                                 *)
LEMMA PlaceIsOrder ==
  ASSUME NEW events \in Seq(EventType)
  PROVE  /\ \A i \in DOMAIN events : Place(events, i) \in DOMAIN events
         /\ \A n \in DOMAIN events : \E i \in DOMAIN events : Place(events, i) = n
         /\ \A i, j \in DOMAIN events :
              First(events, i, j) <=> Place(events, i) < Place(events, j)
<1> DEFINE D == DOMAIN events
           P(i) == {j \in D : First(events, j, i)}
<1>1. D = 1..Len(events) /\ Len(events) \in Nat  OBVIOUS
<1>2. IsFiniteSet(D) /\ Cardinality(D) = Len(events)
  <2> DEFINE L == Len(events)
  <2>1. L \in Nat /\ D = 1..L  BY <1>1
  <2> HIDE DEF L, D
  <2>2. IsFiniteSet(1..L) /\ Cardinality(1..L) = IF 1 > L THEN 0 ELSE L - 1 + 1
    BY <2>1, FS_Interval
  <2> QED  BY <2>1, <2>2 DEF L
<1>3. ASSUME NEW i \in D PROVE IsFiniteSet(P(i)) /\ Cardinality(P(i)) \in Nat
  BY <1>2, FS_Subset, FS_CardinalityType
<1>4. ASSUME NEW i \in D, NEW j \in D, First(events, i, j)
      PROVE  Cardinality(P(i)) < Cardinality(P(j))
  <2>1. P(i) \in SUBSET P(j)  BY <1>4, FirstIsOrder
  <2>2. i \in P(j) /\ i \notin P(i)  BY <1>4, FirstIsOrder
  <2>3. Cardinality(P(i)) <= Cardinality(P(j)) /\ Cardinality(P(i)) # Cardinality(P(j))
    BY <1>3, <2>1, <2>2, FS_Subset
  <2>4. Cardinality(P(i)) \in Nat /\ Cardinality(P(j)) \in Nat  BY <1>3
  <2> HIDE DEF P
  <2> QED  BY <2>3, <2>4
<1>5. ASSUME NEW i \in D
      PROVE  Place(events, i) = Cardinality(P(i)) + 1 /\ Place(events, i) \in Nat
  <2>1. Place(events, i) = Cardinality(P(i)) + 1  BY DEF Place
  <2>2. Cardinality(P(i)) \in Nat  BY <1>3
  <2> HIDE DEF P
  <2> QED  BY <2>1, <2>2
<1>a. ASSUME NEW i \in D, NEW j \in D, First(events, i, j)
      PROVE  Place(events, i) < Place(events, j)
  <2>1. Cardinality(P(i)) \in Nat /\ Cardinality(P(j)) \in Nat  BY <1>3
  <2>2. /\ Cardinality(P(i)) < Cardinality(P(j))
        /\ Place(events, i) = Cardinality(P(i)) + 1 /\ Place(events, j) = Cardinality(P(j)) + 1
    BY <1>4, <1>5, <1>a
  <2> HIDE DEF P
  <2> QED  BY <2>1, <2>2
<1>6. ASSUME NEW i \in D, NEW j \in D
      PROVE  First(events, i, j) <=> Place(events, i) < Place(events, j)
  <2>1. Place(events, i) \in Nat /\ Place(events, j) \in Nat  BY <1>5
  <2>2. First(events, i, j) => Place(events, i) < Place(events, j)  BY <1>a
  <2>3. First(events, j, i) => Place(events, j) < Place(events, i)  BY <1>a
  <2>4. i # j => First(events, i, j) \/ First(events, j, i)  BY FirstIsOrder
  <2>5. i = j => ~First(events, i, j)  BY FirstIsOrder
  <2> QED  BY <2>1, <2>2, <2>3, <2>4, <2>5
<1>7. ASSUME NEW i \in D PROVE Place(events, i) \in D
  <2>1. P(i) \in SUBSET D /\ i \in D /\ i \notin P(i)  BY FirstIsOrder
  <2>2. Cardinality(P(i)) <= Cardinality(D) /\ Cardinality(P(i)) # Cardinality(D)
    BY <1>2, <2>1, FS_Subset
  <2>3. Cardinality(P(i)) \in Nat /\ Place(events, i) = Cardinality(P(i)) + 1  BY <1>3, <1>5
  <2> HIDE DEF P
  <2> QED  BY <1>1, <1>2, <2>2, <2>3
<1> DEFINE f == [i \in D |-> Place(events, i)]
<1>8. f \in Injection(D, D)
  <2>1. f \in [D -> D]  BY <1>7
  <2>2. ASSUME NEW i \in D, NEW j \in D, f[i] = f[j] PROVE i = j
    <3>1. Place(events, i) = Place(events, j) /\ Place(events, i) \in Nat  BY <1>5, <2>2
    <3>2. ~First(events, i, j) /\ ~First(events, j, i)  BY <1>6, <3>1
    <3> QED  BY <3>2, FirstIsOrder
  <2> HIDE DEF f
  <2> QED  BY <2>1, <2>2 DEF Injection, IsInjective
<1>9. f \in Surjection(D, D)
  <2> HIDE DEF f, D
  <2> QED  BY <1>2, <1>8, FS_Injection
<1>10. ASSUME NEW n \in D PROVE \E i \in D : Place(events, i) = n
  BY <1>9 DEF Surjection
<1> QED  BY <1>6, <1>7, <1>10

Sorted(s) == \A m, n \in DOMAIN s : m < n => ~Before(s[n], s[m])

(* sortedOSVEvents: the same events, each not before those to its left.    *)
LEMMA SortIsRight ==
  ASSUME NEW events \in Seq(EventType), NEW s, s = SortedOSVEvents(events)
  PROVE  /\ s \in Seq(EventType) /\ Len(s) = Len(events) /\ DOMAIN s = DOMAIN events
         /\ \A n \in DOMAIN s : \E i \in DOMAIN events : s[n] = events[i]
         /\ \A i \in DOMAIN events : \E n \in DOMAIN s : s[n] = events[i]
         /\ Sorted(s)
<1> DEFINE D == DOMAIN events
           p(n) == CHOOSE i \in D : Place(events, i) = n
<1>1. D = 1..Len(events) /\ Len(events) \in Nat  OBVIOUS
<1>2. ASSUME NEW n \in D PROVE p(n) \in D /\ Place(events, p(n)) = n
  BY PlaceIsOrder
<1>3. s = [n \in D |-> events[p(n)]]  BY DEF SortedOSVEvents
<1>4. s \in Seq(EventType) /\ Len(s) = Len(events) /\ DOMAIN s = D
  <2>1. \A n \in D : events[p(n)] \in EventType  BY <1>2
  <2> HIDE DEF p
  <2> QED  BY <1>1, <1>3, <2>1
<1>5. ASSUME NEW n \in D PROVE \E i \in D : s[n] = events[i]
  BY <1>2, <1>3
<1>6. ASSUME NEW i \in D PROVE \E n \in D : s[n] = events[i]
  <2> DEFINE n == Place(events, i)
  <2>1. n \in D  BY PlaceIsOrder
  <2>2. p(n) \in D /\ Place(events, p(n)) = n  BY <1>2, <2>1
  <2>3. p(n) = i
    <3> HIDE DEF p
    <3>1. /\ First(events, i, p(n)) <=> Place(events, i) < Place(events, p(n))
          /\ First(events, p(n), i) <=> Place(events, p(n)) < Place(events, i)
      BY <2>2, PlaceIsOrder
    <3>2. ~(n < n)  BY <1>1, <2>1
    <3> QED  BY <2>2, <3>1, <3>2, FirstIsOrder
  <2> QED  BY <1>3, <2>1, <2>3
<1>7. ASSUME NEW m \in D, NEW n \in D, m < n PROVE ~Before(s[n], s[m])
  <2>1. p(m) \in D /\ p(n) \in D /\ Place(events, p(m)) = m /\ Place(events, p(n)) = n
    BY <1>2
  <2>2. First(events, p(m), p(n))
    <3> HIDE DEF p
    <3> QED  BY <1>7, <2>1, PlaceIsOrder
  <2>3. ~Before(events[p(n)], events[p(m)])  BY <2>1, <2>2, FirstIsOrder
  <2> QED  BY <1>3, <2>3
<1> QED  BY <1>4, <1>5, <1>6, <1>7 DEF Sorted

-----------------------------------------------------------------------------
(* The scan.                                                               *)

Founds == [active : BOOLEAN, matched : BOOLEAN, fixed : Nat]

(* The types of an event and of what is known after it.                    *)
LEMMA BeforeEndType ==
  ASSUME NEW v \in Nat, NEW e \in EventType
  PROVE  BeforeEnd(v, e) \in BOOLEAN
<1>1. CASE e.kind = "last_affected"  BY <1>1 DEF BeforeEnd
<1>2. CASE e.kind # "last_affected"  BY <1>2 DEF BeforeEnd
<1> QED  BY <1>1, <1>2

LEMMA ReadEventType ==
  ASSUME NEW v \in Nat, NEW f \in Founds, NEW e \in EventType
  PROVE  ReadEvent(v, f, e) \in Founds
<1>1. e.version \in Nat  BY DEF EventType
<1>2. CASE f.matched  BY <1>2 DEF ReadEvent
<1>3. CASE ~f.matched /\ Introduces(e)
  <2> DEFINE a == e.version <= v
  <2>1. a \in BOOLEAN  BY <1>1
  <2>2. ReadEvent(v, f, e) = [f EXCEPT !.active = a]  BY <1>3 DEF ReadEvent
  <2> HIDE DEF a
  <2> QED  BY <2>1, <2>2 DEF Founds
<1>4. CASE ~f.matched /\ ~Introduces(e)
  <2> DEFINE hit == f.active /\ BeforeEnd(v, e)
             fix == IF hit /\ e.kind = "fixed" THEN e.version ELSE NoFix
  <2>1. hit \in BOOLEAN  BY BeforeEndType DEF Founds
  <2>2. fix \in Nat  BY <1>1 DEF NoFix
  <2>3. ReadEvent(v, f, e) = [active |-> hit, matched |-> hit, fixed |-> fix]
    BY <1>4 DEF ReadEvent
  <2> HIDE DEF hit, fix
  <2> QED  BY <2>1, <2>2, <2>3 DEF Founds
<1> QED  BY <1>2, <1>3, <1>4

(* The loop of eventsContain ends, and is what Found says.                 *)
LEMMA FoundIsScan ==
  ASSUME NEW v \in Nat, NEW s \in Seq(EventType)
  PROVE  /\ Found(v, s) \in [0..Len(s) -> Founds]
         /\ Found(v, s)[0] = NothingFound
         /\ \A n \in 1..Len(s) : Found(v, s)[n] = ReadEvent(v, Found(v, s)[n - 1], s[n])
<1> DEFINE L == Len(s)
           Scans(g, n) == /\ g \in [0..n -> Founds] /\ g[0] = NothingFound
                          /\ \A i \in 1..n : g[i] = ReadEvent(v, g[i - 1], s[i])
           S == {n \in 0..L : \E g \in [0..n -> Founds] : Scans(g, n)}
<1>1. L \in Nat /\ \A n \in 1..L : s[n] \in EventType  OBVIOUS
<1>2. 0 \in S
  <2>1. NothingFound \in Founds  BY DEF NothingFound, Founds, NoFix
  <2> DEFINE g == [i \in 0..0 |-> NothingFound]
  <2>2. g \in [0..0 -> Founds] /\ g[0] = NothingFound /\ 1..0 = {}  BY <2>1
  <2>3. Scans(g, 0) /\ 0 \in 0..L  BY <1>1, <2>2
  <2> HIDE DEF g, Scans
  <2> QED  BY <2>2, <2>3
<1>3. ASSUME NEW n \in 1..L, n - 1 \in S PROVE n \in S
  <2>1. PICK g \in [0..(n - 1) -> Founds] : Scans(g, n - 1)  BY <1>3
  <2> DEFINE h == [i \in 0..n |-> IF i = n THEN ReadEvent(v, g[n - 1], s[n]) ELSE g[i]]
  <2>2. n - 1 \in 0..(n - 1) /\ n \in 0..L /\ n \in Nat /\ n # 0  BY <1>1
  <2>3. ReadEvent(v, g[n - 1], s[n]) \in Founds  BY <1>1, <2>2, ReadEventType
  <2>4. h \in [0..n -> Founds]
    <3>1. ASSUME NEW i \in 0..n PROVE h[i] \in Founds
      <4>1. CASE i = n  BY <2>3, <4>1
      <4>2. CASE i # n
        <5>1. i \in 0..(n - 1)  BY <2>2, <4>2
        <5> QED  BY <4>2, <5>1
      <4> QED  BY <4>1, <4>2
    <3> QED  BY <3>1
  <2>5. h[0] = NothingFound  BY <2>1, <2>2
  <2>6. ASSUME NEW i \in 1..n PROVE h[i] = ReadEvent(v, h[i - 1], s[i])
    <3>1. i - 1 \in 0..n /\ i - 1 # n /\ h[i - 1] = g[i - 1]  BY <2>2
    <3>2. CASE i = n  BY <2>2, <3>1, <3>2
    <3>3. CASE i # n
      <4>1. i \in 1..(n - 1) /\ i \in 0..n  BY <2>2, <3>3
      <4>2. h[i] = g[i]  BY <3>3, <4>1
      <4> QED  BY <2>1, <3>1, <4>1, <4>2
    <3> QED  BY <3>2, <3>3
  <2>7. Scans(h, n)  BY <2>4, <2>5, <2>6
  <2> HIDE DEF h, Scans
  <2> QED  BY <2>2, <2>4, <2>7
<1>4. L \in S
  <2> HIDE DEF S, L
  <2>1. 0..L \subseteq S  BY <1>1, <1>2, <1>3, Inductive
  <2> QED  BY <1>1, <2>1
<1>5. PICK g \in [0..L -> Founds] : Scans(g, L)  BY <1>4
<1> DEFINE Def(f) == [n \in 0..L |-> IF n = 0 THEN NothingFound ELSE ReadEvent(v, f[n - 1], s[n])]
<1>6. g = Def(g)
  <2>1. ASSUME NEW n \in 0..L PROVE g[n] = Def(g)[n]
    <3>1. CASE n = 0  BY <1>5, <3>1
    <3>2. CASE n # 0
      <4>1. n \in 1..L  BY <1>1, <3>2
      <4>2. g[n] = ReadEvent(v, g[n - 1], s[n])  BY <1>5, <4>1
      <4> QED  BY <3>2, <4>2
    <3> QED  BY <3>1, <3>2
  <2> QED  BY <2>1
<1>7. Found(v, s) = CHOOSE f : f = Def(f)
  BY DEF Found
<1>8. Found(v, s) = Def(Found(v, s))
  <2> HIDE DEF Def
  <2> QED  BY <1>6, <1>7
<1> DEFINE F == Found(v, s)
           T == {n \in 0..L : F[n] \in Founds}
<1> HIDE DEF F
<1>9. F = Def(F)  BY <1>8 DEF F
<1>10. F[0] = NothingFound  BY <1>1, <1>9
<1>11. ASSUME NEW n \in 1..L PROVE F[n] = ReadEvent(v, F[n - 1], s[n])
  <2>1. n \in 0..L /\ n # 0  BY <1>1
  <2> QED  BY <1>9, <2>1
<1>12. 0..L \subseteq T
  <2>1. 0 \in T
    <3>1. NothingFound \in Founds  BY DEF NothingFound, Founds, NoFix
    <3> QED  BY <1>1, <1>10, <3>1
  <2>2. ASSUME NEW n \in 1..L, n - 1 \in T PROVE n \in T
    <3>1. F[n - 1] \in Founds /\ s[n] \in EventType /\ n \in 0..L  BY <1>1, <2>2
    <3>2. F[n] = ReadEvent(v, F[n - 1], s[n])  BY <1>11
    <3>3. ReadEvent(v, F[n - 1], s[n]) \in Founds  BY <3>1, ReadEventType
    <3> QED  BY <3>1, <3>2, <3>3
  <2> HIDE DEF T, L
  <2> QED  BY <1>1, <2>1, <2>2, Inductive
<1>13. F \in [0..L -> Founds]
  <2>1. \A n \in 0..L : F[n] \in Founds  BY <1>12
  <2>2. DOMAIN F = 0..L /\ F = [n \in 0..L |-> F[n]]  BY <1>9
  <2> HIDE DEF L, Def
  <2> QED  BY <2>1, <2>2
<1> QED  BY <1>10, <1>11, <1>13 DEF F

(* An end of a range that v is in.                                         *)
HitAt(v, s, k) ==
  /\ Introduces(s[k - 1]) /\ s[k - 1].version <= v
  /\ ~Introduces(s[k]) /\ BeforeEnd(v, s[k])

FixAt(s, k) == IF s[k].kind = "fixed" THEN s[k].version ELSE NoFix

(* What is known after n events (eventsContain).                           *)
Read(v, s, n, f) ==
  IF f.matched
    THEN f.active /\ \E k \in 2..n : HitAt(v, s, k) /\ f.fixed = FixAt(s, k)
    ELSE /\ f.active <=> n > 0 /\ Introduces(s[n]) /\ s[n].version <= v
         /\ f.fixed = NoFix
         /\ \A k \in 2..n : ~HitAt(v, s, k)

(* One event more keeps what is known.                                     *)
LEMMA ReadOn ==
  ASSUME NEW v \in Nat, NEW s \in Seq(EventType), NEW n \in 1..Len(s),
         NEW f \in Founds, Read(v, s, n - 1, f)
  PROVE  Read(v, s, n, ReadEvent(v, f, s[n]))
<1> DEFINE g == ReadEvent(v, f, s[n])
<1>1. n \in Nat /\ s[n] \in EventType /\ 2..(n - 1) \subseteq 2..n /\ n > 0
      /\ \A k \in 2..n : k = n \/ k \in 2..(n - 1)
  OBVIOUS
<1>2. g \in Founds  BY <1>1, ReadEventType
<1>3. CASE f.matched
  <2>1. g = f  BY <1>3 DEF ReadEvent
  <2> HIDE DEF g
  <2> QED  BY <1>1, <1>3, <2>1 DEF Read, g
<1>4. CASE ~f.matched /\ Introduces(s[n])
  <2>1. g = [f EXCEPT !.active = s[n].version <= v]  BY <1>4 DEF ReadEvent
  <2> HIDE DEF g
  <2>2. ~g.matched /\ g.fixed = NoFix /\ (g.active <=> s[n].version <= v)
    BY <1>4, <2>1 DEF Founds, Read
  <2>3. \A k \in 2..n : ~HitAt(v, s, k)
    BY <1>1, <1>4 DEF Read, HitAt
  <2> QED  BY <1>1, <1>4, <2>2, <2>3 DEF Read, g
<1>5. CASE ~f.matched /\ ~Introduces(s[n])
  <2> DEFINE hit == f.active /\ BeforeEnd(v, s[n])
  <2>1. g = [active |-> hit, matched |-> hit,
             fixed |-> IF hit /\ s[n].kind = "fixed" THEN s[n].version ELSE NoFix]
    BY <1>5 DEF ReadEvent
  <2>2. hit <=> n \in 2..n /\ HitAt(v, s, n)
    <3>1. f.active <=> n - 1 > 0 /\ Introduces(s[n - 1]) /\ s[n - 1].version <= v
      BY <1>5 DEF Read
    <3>2. n \in 2..n <=> n - 1 > 0  BY <1>1
    <3> QED  BY <1>5, <3>1, <3>2 DEF HitAt
  <2>3. hit \in BOOLEAN  BY <1>1, BeforeEndType DEF Founds
  <2>4. CASE hit
    <3>1. g = [active |-> TRUE, matched |-> TRUE, fixed |-> FixAt(s, n)]
      <4> HIDE DEF hit, g
      <4> QED  BY <2>1, <2>3, <2>4 DEF FixAt
    <3> HIDE DEF g, hit
    <3> QED  BY <2>2, <2>4, <3>1 DEF Read, g
  <2>5. CASE ~hit
    <3>1. g = [active |-> FALSE, matched |-> FALSE, fixed |-> NoFix]
      <4> HIDE DEF hit, g
      <4> QED  BY <2>1, <2>3, <2>5
    <3>2. \A k \in 2..n : ~HitAt(v, s, k)
      BY <1>1, <1>5, <2>2, <2>5 DEF Read
    <3> HIDE DEF g, hit
    <3> QED  BY <1>1, <1>5, <3>1, <3>2 DEF Read, g
  <2> QED  BY <2>4, <2>5
<1> QED  BY <1>3, <1>4, <1>5

(* eventsContain: which end, or which last introduction, decides.          *)
LEMMA ContainsIsRead ==
  ASSUME NEW v \in Nat, NEW s \in Seq(EventType)
  PROVE  LET c == EventsContain(v, s)
             last == Len(s) > 0 /\ Introduces(s[Len(s)]) /\ s[Len(s)].version <= v
         IN  /\ c.matched <=> last \/ \E k \in 2..Len(s) : HitAt(v, s, k)
             /\ c.fixed # NoFix =>
                  \E k \in 2..Len(s) : HitAt(v, s, k) /\ c.fixed = FixAt(s, k)
<1> DEFINE F == Found(v, s)
           L == Len(s)
           S == {n \in 0..L : Read(v, s, n, F[n])}
<1>1. L \in Nat  OBVIOUS
<1>2. /\ F \in [0..L -> Founds] /\ F[0] = NothingFound
      /\ \A n \in 1..L : F[n] = ReadEvent(v, F[n - 1], s[n])
  BY FoundIsScan
<1>3. EventsContain(v, s) = [matched |-> F[L].active, fixed |-> F[L].fixed]
  BY DEF EventsContain
<1> HIDE DEF F
<1>4. 0 \in S
  <2>1. 2..0 = {} /\ ~(0 > 0) /\ 0 \in 0..L  BY <1>1
  <2> QED  BY <1>2, <2>1 DEF Read, NothingFound
<1>5. ASSUME NEW n \in 1..L, n - 1 \in S PROVE n \in S
  <2>1. n - 1 \in 0..L /\ n \in 0..L /\ F[n - 1] \in Founds /\ Read(v, s, n - 1, F[n - 1])
    BY <1>1, <1>2, <1>5
  <2>2. Read(v, s, n, ReadEvent(v, F[n - 1], s[n]))  BY <2>1, ReadOn
  <2> QED  BY <1>2, <2>1, <2>2
<1>6. Read(v, s, L, F[L]) /\ F[L] \in Founds
  <2>1. L \in S
    <3> HIDE DEF S, L
    <3>1. 0..L \subseteq S  BY <1>1, <1>4, <1>5, Inductive
    <3> QED  BY <1>1, <3>1
  <2> QED  BY <1>1, <1>2, <2>1
<1> DEFINE last == L > 0 /\ Introduces(s[L]) /\ s[L].version <= v
<1>7. F[L].active <=> last \/ \E k \in 2..L : HitAt(v, s, k)
  <2>1. CASE F[L].matched  BY <1>6, <2>1 DEF Read
  <2>2. CASE ~F[L].matched  BY <1>6, <2>2 DEF Read
  <2> QED  BY <2>1, <2>2
<1>8. F[L].fixed # NoFix => \E k \in 2..L : HitAt(v, s, k) /\ F[L].fixed = FixAt(s, k)
  BY <1>6 DEF Read
<1> QED  BY <1>3, <1>7, <1>8

-----------------------------------------------------------------------------
(* What the ranges mean, and what was read.                                *)

(* Whoever is before an end is before every later end.                     *)
LEMMA EndOrder ==
  ASSUME NEW u \in Nat, NEW d \in EventType, NEW e \in EventType, BeforeEnd(u, d),
         d.version < e.version \/ (d.version = e.version /\ d.kind = e.kind)
  PROVE  BeforeEnd(u, e)
<1>1. d.version \in Nat /\ e.version \in Nat  BY DEF EventType
<1>2. u <= d.version  BY <1>1 DEF BeforeEnd
<1>3. CASE d.version < e.version  BY <1>1, <1>2, <1>3 DEF BeforeEnd
<1>4. CASE d.version = e.version /\ d.kind = e.kind  BY <1>4 DEF BeforeEnd
<1> QED  BY <1>3, <1>4

(* What ends a range is to the right of what introduces it.                *)
LEMMA EndsAreRight ==
  ASSUME NEW s \in Seq(EventType), Sorted(s),
         NEW p \in DOMAIN s, NEW r \in DOMAIN s, Introduces(s[p]), ~Introduces(s[r]),
         s[p].version <= s[r].version
  PROVE  p < r
<1>1. p \in Nat /\ r \in Nat /\ s[p] \in EventType /\ s[r] \in EventType
  OBVIOUS
<1>2. s[p].version \in Nat /\ s[r].version \in Nat  BY <1>1 DEF EventType
<1>3. Before(s[p], s[r])  BY <1>2 DEF Before
<1>4. ~(r < p)  BY <1>3 DEF Sorted
<1>5. r # p  OBVIOUS
<1> QED  BY <1>1, <1>4, <1>5

(* The scan finds what a range covers: after the introduction comes, at    *)
(* the next event of another kind or version, the end that v is before.    *)
LEMMA CoversIsRead ==
  ASSUME NEW v \in Nat, NEW events \in Seq(EventType), EndedBetween(events),
         Covers(v, events)
  PROVE  EventsContain(v, SortedOSVEvents(events)).matched
<1> DEFINE s == SortedOSVEvents(events)
           L == Len(s)
<1>1. /\ s \in Seq(EventType) /\ DOMAIN s = DOMAIN events
      /\ \A n \in DOMAIN s : \E i \in DOMAIN events : s[n] = events[i]
      /\ \A i \in DOMAIN events : \E n \in DOMAIN s : s[n] = events[i]
      /\ Sorted(s)
  BY SortIsRight
<1> HIDE DEF s
<1>2. L \in Nat /\ DOMAIN s = 1..L /\ \A n \in 1..L : s[n] \in EventType
  BY <1>1
<1>3. PICK i \in DOMAIN events :
        /\ Introduces(events[i]) /\ events[i].version <= v
        /\ \A j \in DOMAIN events :
             ~Introduces(events[j]) /\ events[j].version >= events[i].version
               => BeforeEnd(v, events[j])
  BY DEF Covers
<1>4. PICK q \in DOMAIN s : s[q] = events[i]  BY <1>1
<1> DEFINE a == events[i].version
           Same(n) == Introduces(s[n]) /\ s[n].version = a
           T == {n \in q..L : ~Same(n)}
<1>5. a \in Nat /\ q \in 1..L /\ Same(q)
  BY <1>1, <1>2, <1>3, <1>4 DEF EventType
<1> DEFINE last == L > 0 /\ Introduces(s[L]) /\ s[L].version <= v
<1>6. last \/ \E k \in 2..L : HitAt(v, s, k)
  <2>1. CASE T = {}
    <3>1. L \in q..L  BY <1>2, <1>5
    <3>2. Same(L)  BY <2>1, <3>1
    <3> QED  BY <1>2, <1>3, <1>5, <3>2
  <2>2. CASE T # {}
    <3>1. T \in SUBSET Nat  BY <1>2, <1>5
    <3>2. PICK m \in T : \A k \in T : m <= k
      <4> HIDE DEF T
      <4> QED  BY <2>2, <3>1, LeastNat
    <3>3. m \in q..L /\ ~Same(m) /\ m # q  BY <1>5, <3>2
    <3>4. m \in 2..L /\ m - 1 \in q..L /\ m - 1 \in 1..L /\ ~(m <= m - 1)
      BY <1>2, <1>5, <3>3
    <3>5. Same(m - 1)  BY <3>2, <3>4
    <3>a. m \in DOMAIN s /\ m - 1 \in DOMAIN s /\ m \in Nat /\ m - 1 < m  BY <1>2, <3>4
    <3>b. s[m] \in EventType  BY <1>2, <3>a
    <3>6. s[m].version \in Nat  BY <3>b DEF EventType
    <3>7. ~Before(s[m], s[m - 1])  BY <1>1, <3>a DEF Sorted
    <3>c. Introduces(s[m - 1]) /\ s[m - 1].version = a  BY <3>5
    <3>8. s[m].version >= a
      <4> HIDE DEF a
      <4> QED  BY <1>5, <3>c, <3>6, <3>7 DEF Before
    <3>9. CASE ~Introduces(s[m])
      <4>1. PICK j \in DOMAIN events : s[m] = events[j]  BY <1>1, <3>a
      <4>2. BeforeEnd(v, s[m])  BY <1>3, <3>8, <3>9, <4>1
      <4>3. HitAt(v, s, m)  BY <1>3, <3>c, <3>9, <4>2 DEF HitAt
      <4> QED  BY <3>4, <4>3
    <3>10. CASE Introduces(s[m])
      <4>1. a < s[m].version
        <5>1. s[m].version # a  BY <3>3, <3>10
        <5> HIDE DEF a
        <5> QED  BY <1>5, <3>6, <3>8, <5>1
      <4>2. PICK j \in DOMAIN events : s[m] = events[j]  BY <1>1, <3>a
      <4>3. PICK k \in DOMAIN events :
              ~Introduces(events[k]) /\ a <= events[k].version /\ events[k].version < s[m].version
        BY <1>3, <3>10, <4>1, <4>2 DEF EndedBetween
      <4>4. PICK r \in DOMAIN s : s[r] = events[k]  BY <1>1
      <4>5. ~Introduces(s[r]) /\ s[m - 1].version <= s[r].version  BY <3>c, <4>3, <4>4
      <4>6. m - 1 < r  BY <1>1, <3>a, <3>c, <4>5, EndsAreRight
      <4>7. r # m  BY <3>10, <4>3, <4>4
      <4>8. Before(s[r], s[m])  BY <4>3, <4>4 DEF Before
      <4>9. ~(m < r)  BY <1>1, <3>a, <4>8 DEF Sorted
      <4>10. r \in Nat  BY <1>2
      <4> QED  BY <3>a, <4>6, <4>7, <4>9, <4>10
    <3> QED  BY <3>9, <3>10
  <2> QED  BY <2>1, <2>2
<1>7. EventsContain(v, s).matched <=> last \/ \E k \in 2..L : HitAt(v, s, k)
  BY <1>1, ContainsIsRead
<1> QED  BY <1>6, <1>7 DEF s

(* A version between an introduction and the end read next is covered: all *)
(* other ends are to the left of the introduction or after that end.       *)
LEMMA HitCovers ==
  ASSUME NEW u \in Nat, NEW events \in Seq(EventType), OneEndEach(events),
         NEW k \in 2..Len(SortedOSVEvents(events)), HitAt(u, SortedOSVEvents(events), k)
  PROVE  Covers(u, events)
<1> DEFINE s == SortedOSVEvents(events)
           L == Len(s)
<1>1. /\ s \in Seq(EventType) /\ DOMAIN s = DOMAIN events
      /\ \A n \in DOMAIN s : \E i \in DOMAIN events : s[n] = events[i]
      /\ \A i \in DOMAIN events : \E n \in DOMAIN s : s[n] = events[i]
      /\ Sorted(s)
  BY SortIsRight
<1>2. HitAt(u, s, k) /\ k \in 2..L  OBVIOUS
<1> HIDE DEF s
<1>3. L \in Nat /\ DOMAIN s = 1..L /\ \A n \in 1..L : s[n] \in EventType
  BY <1>1
<1>4. k \in DOMAIN s /\ k - 1 \in DOMAIN s  BY <1>2, <1>3
<1>5. PICK i \in DOMAIN events : s[k - 1] = events[i]  BY <1>1, <1>4
<1>6. Introduces(events[i]) /\ events[i].version <= u  BY <1>2, <1>5 DEF HitAt
<1>7. ASSUME NEW j \in DOMAIN events,
             ~Introduces(events[j]), events[j].version >= events[i].version
      PROVE  BeforeEnd(u, events[j])
  <2>1. PICK r \in DOMAIN s : s[r] = events[j]  BY <1>1
  <2>2. s[r] \in EventType /\ s[k] \in EventType /\ s[k - 1] \in EventType
    BY <1>3, <1>4, <2>1
  <2>3. /\ s[r].version \in Nat /\ s[k].version \in Nat /\ s[k - 1].version \in Nat
        /\ r \in Nat /\ k \in Nat
    BY <1>3, <1>4, <2>1, <2>2 DEF EventType
  <2>4. s[k - 1].version <= s[r].version  BY <1>5, <1>7, <2>1, <2>3
  <2>5. k - 1 < r
    <3>1. Introduces(s[k - 1]) /\ ~Introduces(s[r])  BY <1>5, <1>6, <1>7, <2>1
    <3> QED  BY <1>1, <1>4, <2>1, <2>4, <3>1, EndsAreRight
  <2>6. BeforeEnd(u, s[k]) /\ ~Introduces(s[k])  BY <1>2 DEF HitAt
  <2>7. CASE r = k  BY <2>1, <2>6, <2>7
  <2>8. CASE r # k
    <3>1. k < r  BY <2>3, <2>5, <2>8
    <3>2. ~Before(s[r], s[k])  BY <1>1, <1>4, <2>1, <3>1 DEF Sorted
    <3>3. s[k].version <= s[r].version  BY <2>3, <3>2 DEF Before
    <3>4. s[k].version = s[r].version => s[k].kind = s[r].kind
      <4>1. PICK h \in DOMAIN events : s[k] = events[h]  BY <1>1, <1>4
      <4> QED  BY <1>7, <2>1, <2>6, <4>1 DEF OneEndEach
    <3>5. s[k].version < s[r].version \/ (s[k].version = s[r].version /\ s[k].kind = s[r].kind)
      BY <2>3, <3>3, <3>4
    <3> QED  BY <2>1, <2>2, <2>6, <3>5, EndOrder
  <2> QED  BY <2>7, <2>8
<1> QED  BY <1>6, <1>7 DEF Covers

(* The scan finds nothing else.                                            *)
LEMMA ReadIsCovered ==
  ASSUME NEW v \in Nat, NEW events \in Seq(EventType), OneEndEach(events),
         EventsContain(v, SortedOSVEvents(events)).matched
  PROVE  Covers(v, events)
<1> DEFINE s == SortedOSVEvents(events)
           L == Len(s)
<1>1. /\ s \in Seq(EventType) /\ DOMAIN s = DOMAIN events
      /\ \A n \in DOMAIN s : \E i \in DOMAIN events : s[n] = events[i]
      /\ \A i \in DOMAIN events : \E n \in DOMAIN s : s[n] = events[i]
      /\ Sorted(s)
  BY SortIsRight
<1> DEFINE last == L > 0 /\ Introduces(s[L]) /\ s[L].version <= v
<1>2. CASE \E k \in 2..L : HitAt(v, s, k)  BY <1>2, HitCovers
<1>3. CASE last
  <2> HIDE DEF s
  <2>1. L \in DOMAIN s /\ L \in Nat /\ DOMAIN s = 1..L  BY <1>1, <1>3
  <2>2. PICK i \in DOMAIN events : s[L] = events[i]  BY <1>1, <2>1
  <2>3. ASSUME NEW j \in DOMAIN events,
               ~Introduces(events[j]), events[j].version >= events[i].version
        PROVE  FALSE
    <3>1. PICK r \in DOMAIN s : s[r] = events[j]  BY <1>1
    <3>2. s[r] \in EventType /\ s[L] \in EventType
      <4> HIDE DEF L
      <4>1. \A n \in DOMAIN s : s[n] \in EventType  BY <1>1
      <4> QED  BY <2>1, <3>1, <4>1
    <3>3. s[r].version \in Nat /\ s[L].version \in Nat  BY <3>2 DEF EventType
    <3>4. s[L].version <= s[r].version  BY <2>2, <2>3, <3>1, <3>3
    <3>5. Introduces(s[L]) /\ ~Introduces(s[r])  BY <1>3, <2>3, <3>1
    <3>6. L < r  BY <1>1, <2>1, <3>1, <3>4, <3>5, EndsAreRight
    <3> QED  BY <2>1, <3>1, <3>6
  <2> QED  BY <1>3, <2>2, <2>3 DEF Covers
<1>4. EventsContain(v, s).matched <=> last \/ \E k \in 2..L : HitAt(v, s, k)
  BY <1>1, ContainsIsRead
<1> QED  BY <1>2, <1>3, <1>4

(* eventsContain: the fix that it returns is the end of the range v is in. *)
LEMMA FixIsNearest ==
  ASSUME NEW v \in Nat, NEW events \in Seq(EventType), OneEndEach(events),
         NEW f, f = EventsContain(v, SortedOSVEvents(events)).fixed, f # NoFix
  PROVE  /\ f \in Nat /\ v < f /\ ~Covers(f, events)
         /\ \A u \in v..(f - 1) : Covers(u, events)
<1> DEFINE s == SortedOSVEvents(events)
           L == Len(s)
<1>1. /\ s \in Seq(EventType) /\ DOMAIN s = DOMAIN events
      /\ \A n \in DOMAIN s : \E i \in DOMAIN events : s[n] = events[i]
  BY SortIsRight
<1>2. PICK k \in 2..L : HitAt(v, s, k) /\ f = FixAt(s, k)
  BY <1>1, ContainsIsRead
<1>3. k \in DOMAIN s /\ k - 1 \in DOMAIN s /\ s[k] \in EventType /\ s[k - 1] \in EventType
  <2> HIDE DEF s
  <2> QED  BY <1>1, <1>2
<1>4. s[k].version \in Nat /\ s[k - 1].version \in Nat  BY <1>3 DEF EventType
<1>5. s[k].kind = "fixed" /\ f = s[k].version  BY <1>2 DEF FixAt
<1>6. f \in Nat /\ v < f  BY <1>2, <1>4, <1>5 DEF HitAt, BeforeEnd
<1>7. ~Covers(f, events)
  <2>1. PICK j \in DOMAIN events : s[k] = events[j]  BY <1>1, <1>3
  <2>2. ~Introduces(events[j])  BY <1>2, <2>1 DEF HitAt
  <2>3. ~BeforeEnd(f, events[j])  BY <1>5, <1>6, <2>1 DEF BeforeEnd
  <2>4. ASSUME NEW i \in DOMAIN events, events[i].version <= f
        PROVE  events[j].version >= events[i].version
    <3>0. events[i] \in EventType  OBVIOUS
    <3>1. events[i].version \in Nat  BY <3>0 DEF EventType
    <3> QED  BY <1>5, <1>6, <2>1, <2>4, <3>1
  <2> QED  BY <2>2, <2>3, <2>4 DEF Covers
<1>8. ASSUME NEW u \in v..(f - 1) PROVE Covers(u, events)
  <2>1. u \in Nat /\ v <= u /\ u < f  BY <1>6
  <2>2. HitAt(u, s, k)
    <3> HIDE DEF s
    <3>1. BeforeEnd(u, s[k])  BY <1>5, <2>1 DEF BeforeEnd
    <3> QED  BY <1>2, <1>4, <2>1, <3>1 DEF HitAt
  <2> QED  BY <2>1, <2>2, HitCovers
<1> QED  BY <1>6, <1>7, <1>8

(* affectedVersion.                                                        *)
LEMMA MinIsLeast ==
  ASSUME NEW S \in SUBSET Nat, S # {}
  PROVE  Min(S) \in S
<1>1. \E m \in S : \A k \in S : m <= k  BY LeastNat
<1> QED  BY <1>1 DEF Min

(* Any range decides, and a fix is the one that its range ends with.       *)
LEMMA AffectedIsAny ==
  ASSUME NEW v \in Nat, NEW affected \in AffectedType
  PROVE  LET In(k) == EventsContain(v, SortedOSVEvents(affected.ranges[k].events))
             hits == {k \in DOMAIN affected.ranges : ~affected.ranges[k].git /\ In(k).matched}
             result == AffectedVersion(v, affected)
         IN  /\ result.matched <=> v \in affected.versions \/ hits # {}
             /\ v \notin affected.versions /\ result.fixed # NoFix =>
                  \E k \in hits : result.fixed = In(k).fixed
<1> DEFINE In(k) == EventsContain(v, SortedOSVEvents(affected.ranges[k].events))
           hits == {k \in DOMAIN affected.ranges : ~affected.ranges[k].git /\ In(k).matched}
           result == AffectedVersion(v, affected)
<1>1. result = IF v \in affected.versions
                 THEN [matched |-> TRUE, fixed |-> NearestFixed(v, affected.ranges)]
               ELSE IF hits # {} THEN In(Min(hits))
               ELSE [matched |-> FALSE, fixed |-> NoFix]
  BY DEF AffectedVersion
<1>2. hits \in SUBSET Nat
  <2>1. affected.ranges \in Seq([git : BOOLEAN, events : Seq(EventType)])  BY DEF AffectedType
  <2>2. DOMAIN affected.ranges \subseteq Nat  BY <2>1
  <2> QED  BY <2>2
<1>3. hits # {} => Min(hits) \in hits
  <2> HIDE DEF hits
  <2> QED  BY <1>2, MinIsLeast
<1>4. hits # {} => In(Min(hits)).matched  BY <1>3
<1> HIDE DEF In, hits, result
<1>5. result.matched <=> v \in affected.versions \/ hits # {}
  BY <1>1, <1>4
<1>6. v \notin affected.versions /\ result.fixed # NoFix =>
        \E k \in hits : result.fixed = In(k).fixed
  BY <1>1, <1>3
<1> QED  BY <1>5, <1>6 DEF In, hits, result

(* The events of a range are events.                                       *)
LEMMA EventsOfRange ==
  ASSUME NEW affected \in AffectedType, NEW k \in DOMAIN affected.ranges
  PROVE  affected.ranges[k].events \in Seq(EventType)
<1>1. affected.ranges \in Seq([git : BOOLEAN, events : Seq(EventType)])  BY DEF AffectedType
<1>2. affected.ranges[k] \in [git : BOOLEAN, events : Seq(EventType)]
  <2> DEFINE T == [git : BOOLEAN, events : Seq(EventType)]
  <2>1. affected.ranges \in Seq(T)  BY <1>1
  <2> HIDE DEF T
  <2>2. affected.ranges[k] \in T  BY <2>1
  <2> QED  BY <2>2 DEF T
<1> QED  BY <1>2

(* affectedVersion misses nothing that is affected where ranges end.       *)
LEMMA AffectedIsMatched ==
  ASSUME NEW v \in Nat, NEW affected \in AffectedType, Affects(v, affected),
         \A k \in DOMAIN affected.ranges :
           ~affected.ranges[k].git => EndedBetween(affected.ranges[k].events)
  PROVE  AffectedVersion(v, affected).matched
<1> DEFINE In(k) == EventsContain(v, SortedOSVEvents(affected.ranges[k].events))
           hits == {k \in DOMAIN affected.ranges : ~affected.ranges[k].git /\ In(k).matched}
<1>1. AffectedVersion(v, affected).matched <=> v \in affected.versions \/ hits # {}
  BY AffectedIsAny
<1>2. CASE v \in affected.versions  BY <1>1, <1>2
<1>3. CASE \E k \in DOMAIN affected.ranges :
             ~affected.ranges[k].git /\ Covers(v, affected.ranges[k].events)
  <2>1. PICK k \in DOMAIN affected.ranges :
          ~affected.ranges[k].git /\ Covers(v, affected.ranges[k].events)
    BY <1>3
  <2>2. In(k).matched  BY <2>1, EventsOfRange, CoversIsRead
  <2>3. k \in hits  BY <2>1, <2>2
  <2> QED  BY <1>1, <2>3
<1> QED  BY <1>2, <1>3 DEF Affects

(* It matches nothing else where no version ends a range in two ways.      *)
LEMMA MatchedIsAffected ==
  ASSUME NEW v \in Nat, NEW affected \in AffectedType, AffectedVersion(v, affected).matched,
         \A k \in DOMAIN affected.ranges :
           ~affected.ranges[k].git => OneEndEach(affected.ranges[k].events)
  PROVE  Affects(v, affected)
<1> DEFINE In(k) == EventsContain(v, SortedOSVEvents(affected.ranges[k].events))
           hits == {k \in DOMAIN affected.ranges : ~affected.ranges[k].git /\ In(k).matched}
<1>1. AffectedVersion(v, affected).matched <=> v \in affected.versions \/ hits # {}
  BY AffectedIsAny
<1>2. CASE v \in affected.versions  BY <1>2 DEF Affects
<1>3. CASE hits # {}
  <2>1. PICK k \in hits : TRUE  BY <1>3
  <2>2. k \in DOMAIN affected.ranges /\ ~affected.ranges[k].git /\ In(k).matched  BY <2>1
  <2>3. Covers(v, affected.ranges[k].events)  BY <2>2, EventsOfRange, ReadIsCovered
  <2> QED  BY <2>2, <2>3 DEF Affects
<1> QED  BY <1>1, <1>2, <1>3

-----------------------------------------------------------------------------
(* The invariant of the refresh.                                           *)

Fetching == run.stage \in {"fetch", "write", "report"}

(* queryAdvisoryIDs: what is not asked for any more is known.              *)
Queried ==
  /\ run.pending \subseteq run.packages
  /\ run.ids \subseteq Advised(run.packages)
  /\ run.stage = "query" => Advised(run.packages \ run.pending) \subseteq run.ids
  /\ Fetching => run.ids = Advised(run.packages)

(* Nothing moves in the pool outside of fetchAdvisories, and what moves is *)
(* of the run.                                                             *)
PoolOfRun ==
  /\ run.stage # "fetch" =>
       ~open /\ results = {} /\ \A w \in Workers : worker[w] = Exited
  /\ ~Fetching => todo = {} /\ fetched = {}
  /\ todo \subseteq run.ids /\ fetched \subseteq run.ids
  /\ \A w \in Workers : worker[w] \in run.ids \cup {NoJob, Exited}
  /\ \A r \in results : r.id \in run.ids

(* Where an identifier may be that was not fetched yet.                    *)
UnderWay(id) ==
  \/ id \in todo \cup fetched
  \/ \E w \in Workers : worker[w] = id
  \/ \E r \in results : r.id = id

(* fetchAdvisories: a failure is counted or will be, and without one every *)
(* identifier is fetched or on its way.                                    *)
NothingLost ==
  /\ fatal => failed > 0 \/ \E r \in results : ~r.ok
  /\ todo # {} /\ ~open => fatal
  /\ Fetching => failed > 0 \/ \A id \in run.ids : UnderWay(id)

IInv == TypeOK /\ Queried /\ PoolOfRun /\ NothingLost /\ CompleteIsWhole

USE OsvAssumption, SizesAssumption, NamesAssumption
-----------------------------------------------------------------------------
(* Every set of packages, advisories and workers has a size.               *)
LEMMA Sizes ==
  /\ \A S \in SUBSET Packages : Cardinality(S) \in Nat
  /\ \A S \in SUBSET Advisories : IsFiniteSet(S) /\ Cardinality(S) \in Nat
  /\ \A S \in SUBSET Workers : IsFiniteSet(S) /\ Cardinality(S) \in Nat
<1>1. ASSUME NEW T, IsFiniteSet(T), NEW S \in SUBSET T
      PROVE  IsFiniteSet(S) /\ Cardinality(S) \in Nat
  BY <1>1, FS_Subset, FS_CardinalityType
<1>2. IsFiniteSet(Packages) /\ IsFiniteSet(Advisories) /\ IsFiniteSet(Workers)
  BY SizesAssumption
<1>3. \A S \in SUBSET Packages : Cardinality(S) \in Nat  BY <1>1, <1>2
<1>4. \A S \in SUBSET Advisories : IsFiniteSet(S) /\ Cardinality(S) \in Nat  BY <1>1, <1>2
<1>5. \A S \in SUBSET Workers : IsFiniteSet(S) /\ Cardinality(S) \in Nat  BY <1>1, <1>2
<1> QED  BY <1>3, <1>4, <1>5

LEMMA AdvisedTypes ==
  ASSUME NEW ps \in SUBSET Packages
  PROVE  Advised(ps) \subseteq Advisories
BY DEF Advised

(* The starting state.                                                     *)
LEMMA InitHolds == Init => IInv
<1> SUFFICES ASSUME Init PROVE IInv
  OBVIOUS
<1>1. TypeOK
  BY DEF Init, TypeOK, Snapshots, NoSnapshot, Idle, States, Runs, NoRun, Exited
<1>2. Queried
  BY DEF Init, Queried, NoRun, Fetching
<1>3. PoolOfRun /\ NothingLost /\ CompleteIsWhole
  BY DEF Init, PoolOfRun, NothingLost, CompleteIsWhole, NoRun, NoSnapshot, Fetching
<1> QED  BY <1>1, <1>2, <1>3 DEF IInv

(* Neither the run, its pool nor the snapshot's contents change.           *)
LEMMA Elsewhere ==
  ASSUME IInv, UNCHANGED <<run, pool>>, TypeOK',
         snapshot' = snapshot \/ snapshot' = [snapshot EXCEPT !.fresh = FALSE]
  PROVE  IInv'
<1>1. Queried' /\ PoolOfRun' /\ NothingLost'
  BY DEF IInv, pool, Queried, PoolOfRun, NothingLost, Fetching, UnderWay
<1>2. CompleteIsWhole'
  BY DEF IInv, CompleteIsWhole, TypeOK, Snapshots
<1> QED  BY <1>1, <1>2 DEF IInv

(* A run ends, or the process.                                             *)
LEMMA RunEnds ==
  ASSUME IInv, run' = NoRun, TypeOK', snapshot' = snapshot,
         EmptyPool \/ (run.stage = "query" /\ UNCHANGED pool)
  PROVE  IInv'
<1>1. Queried'  BY DEF Queried, NoRun, Fetching
<1>2. /\ ~open' /\ results' = {} /\ todo' = {} /\ fetched' = {} /\ ~Fetching'
      /\ \A w \in Workers : worker'[w] = Exited
  BY DEF EmptyPool, IInv, PoolOfRun, pool, NoRun, Fetching
<1>3. fatal' => failed' > 0
  BY DEF EmptyPool, IInv, NothingLost, PoolOfRun, pool
<1>4. PoolOfRun' /\ NothingLost'
  BY <1>2, <1>3 DEF PoolOfRun, NothingLost, NoRun
<1>5. CompleteIsWhole'  BY DEF IInv, CompleteIsWhole
<1> QED  BY <1>1, <1>4, <1>5 DEF IInv
-----------------------------------------------------------------------------
(* Types.                                                                  *)

Progress == [state : States, total : Nat, completed : Nat, packages : Nat,
             advisories : Nat, failed : Nat, skipped : Nat]

(* The progress is counts.                                                 *)
LEMMA ProgressCounts ==
  ASSUME TypeOK
  PROVE  /\ progress \in Progress /\ progress.packages \in Nat /\ progress.advisories \in Nat
         /\ progress.failed \in Nat /\ progress.total \in Nat
BY DEF TypeOK, Progress

LEMMA OutsideTypes ==
  ASSUME TypeOK, Redeclare \/ Expire \/ Shutdown \/ Restart
  PROVE  TypeOK'
<1> USE DEF TypeOK, pool
<1>1. CASE Redeclare  BY <1>1 DEF Redeclare
<1>2. CASE Expire  BY <1>2 DEF Expire, Snapshots
<1>3. CASE Shutdown  BY <1>3 DEF Shutdown
<1>4. CASE Restart
  BY <1>4 DEF Restart, EmptyPool, Idle, NoRun, States, Runs, Exited
<1> QED  BY <1>1, <1>2, <1>3, <1>4

LEMMA StartTypes ==
  ASSUME TypeOK, NEW ps \in SUBSET Packages, NEW force \in BOOLEAN, Start(ps, force)
  PROVE  TypeOK'
<1> DEFINE n == Cardinality(ps)
<1>1. n \in Nat  BY Sizes
<1>2. run.stage = "none"  BY DEF Start, TypeOK, Runs
<1> HIDE DEF n
<1>3. CASE run' = run /\ progress' = [Idle EXCEPT !.state = "complete", !.total = n,
                                        !.completed = n, !.packages = n, !.skipped = n]
  <2>1. progress' \in Progress /\ progress'.state = "complete"
    BY <1>1, <1>3 DEF Idle, States, Progress
  <2> QED  BY <1>2, <1>3, <2>1 DEF TypeOK, Start, pool, Progress
<1>4. CASE /\ run' = [stage |-> "query", packages |-> ps, pending |-> ps, ids |-> {}]
           /\ progress' = [Idle EXCEPT !.state = "running", !.total = n]
  <2>1. progress' \in Progress /\ progress'.state = "running"
    BY <1>1, <1>4 DEF Idle, States, Progress
  <2>2. run' \in Runs /\ run'.stage = "query"  BY <1>4 DEF Runs
  <2> QED  BY <1>4, <2>1, <2>2 DEF TypeOK, Start, pool, Progress
<1>5. (~force /\ Cached(ps)) \/ ~(~force /\ Cached(ps))
  OBVIOUS
<1> QED  BY <1>3, <1>4, <1>5 DEF Start, n

LEMMA FailsTypes ==
  ASSUME TypeOK, Fails
  PROVE  progress' \in Progress /\ run' \in Runs /\ progress'.state # "running" /\ run'.stage = "none"
<1> DEFINE a == progress.failed + 1
<1>1. a \in Nat /\ progress' = [progress EXCEPT !.state = "error", !.failed = a]
  BY ProgressCounts DEF Fails
<1> HIDE DEF a
<1>2. progress' \in Progress  BY <1>1, ProgressCounts DEF Progress, States
<1>3. progress'.state = "error"  BY <1>1, ProgressCounts DEF Progress
<1>4. run' \in Runs /\ run'.stage = "none"  BY DEF Fails, NoRun, Runs
<1> QED  BY <1>2, <1>3, <1>4

LEMMA QueryTypes ==
  ASSUME TypeOK, Query \/ QueryFails
  PROVE  TypeOK'
<1>1. CASE Query
  <2>a. PICK batch \in SUBSET run.pending :
          \E done \in SUBSET batch : \E paged \in SUBSET Advised(batch \ done) :
          /\ run' = [run EXCEPT !.pending = (@ \ batch) \cup (batch \ done),
                                !.ids = run.ids \cup Advised(done) \cup paged]
          /\ progress' = [progress EXCEPT !.packages = @ + Cardinality(done),
                                          !.completed = progress.packages + Cardinality(done)]
    BY <1>1 DEF Query
  <2>b. PICK done \in SUBSET batch : \E paged \in SUBSET Advised(batch \ done) :
          /\ run' = [run EXCEPT !.pending = (@ \ batch) \cup (batch \ done),
                                !.ids = run.ids \cup Advised(done) \cup paged]
          /\ progress' = [progress EXCEPT !.packages = @ + Cardinality(done),
                                          !.completed = progress.packages + Cardinality(done)]
    BY <2>a
  <2>1. PICK paged \in SUBSET Advised(batch \ done) :
          /\ run' = [run EXCEPT !.pending = (@ \ batch) \cup (batch \ done),
                                !.ids = run.ids \cup Advised(done) \cup paged]
          /\ progress' = [progress EXCEPT !.packages = @ + Cardinality(done),
                                          !.completed = progress.packages + Cardinality(done)]
    BY <2>b
  <2>2. batch \subseteq Packages /\ done \subseteq Packages  BY DEF TypeOK, Runs
  <2>3. Advised(done) \subseteq Advisories /\ paged \subseteq Advisories
    BY <2>2, AdvisedTypes
  <2>4. run' \in Runs /\ run'.stage = run.stage
    BY <2>1, <2>2, <2>3 DEF TypeOK, Runs
  <2>5. progress' \in Progress /\ progress'.state = progress.state
    <3>1. Cardinality(done) \in Nat  BY <2>2, Sizes
    <3> DEFINE a == progress.packages + Cardinality(done)
    <3>2. a \in Nat  BY <3>1, ProgressCounts
    <3>3. progress' = [progress EXCEPT !.packages = a, !.completed = a]  BY <2>1
    <3> HIDE DEF a
    <3>4. progress' \in Progress  BY <3>2, <3>3, ProgressCounts DEF Progress
    <3> QED  BY <3>3, <3>4, ProgressCounts DEF Progress
  <2> QED  BY <1>1, <2>4, <2>5 DEF TypeOK, Query, pool, Progress
<1>2. CASE QueryFails
  BY <1>2, FailsTypes DEF QueryFails, pool, TypeOK, Progress
<1> QED  BY <1>1, <1>2

LEMMA StartFetchTypes == ASSUME TypeOK, StartFetch PROVE TypeOK'
<1>1. run' = [run EXCEPT !.stage = IF run.ids = {} THEN "write" ELSE "fetch"]
  BY DEF StartFetch
<1>2. run' \in Runs /\ run'.stage # "none" /\ run.stage # "none" /\ run.ids \subseteq Advisories
  BY <1>1 DEF TypeOK, Runs, StartFetch
<1>3. progress' \in Progress /\ progress'.state = progress.state
  <2>1. Cardinality(run.packages) \in Nat /\ Cardinality(run.ids) \in Nat
    BY Sizes DEF TypeOK, Runs
  <2> DEFINE a == Cardinality(run.packages) + Cardinality(run.ids)
  <2>2. /\ a \in Nat /\ progress.packages \in Nat
        /\ progress' = [progress EXCEPT !.total = a, !.completed = progress.packages]
    <3>1. a \in Nat /\ progress.packages \in Nat  BY <2>1, ProgressCounts
    <3>2. progress' = [progress EXCEPT !.total = a, !.completed = progress.packages]
      BY DEF StartFetch
    <3> QED  BY <3>1, <3>2
  <2> HIDE DEF a
  <2>3. progress' \in Progress  BY <2>2, ProgressCounts DEF Progress
  <2> QED  BY <2>2, <2>3, ProgressCounts DEF Progress
<1>4. worker' \in [Workers -> Advisories \cup {NoJob, Exited}]
  BY DEF StartFetch
<1> QED  BY <1>2, <1>3, <1>4 DEF TypeOK, StartFetch, Progress

LEMMA PoolTypes ==
  ASSUME TypeOK, CloseJobs \/ Collect \/ CollectEnds \/ \E w \in Workers : Worker(w)
  PROVE  TypeOK'
<1> USE DEF TypeOK
<1>1. CASE CloseJobs  BY <1>1 DEF CloseJobs
<1>2. CASE Collect
  <2>1. PICK r \in results :
          /\ results' = results \ {r}
          /\ IF r.ok
               THEN /\ fetched' = fetched \cup {r.id}
                    /\ progress' = [progress EXCEPT !.advisories = @ + 1,
                         !.completed = progress.packages + progress.advisories + 1]
                    /\ UNCHANGED failed
               ELSE failed' = failed + 1 /\ UNCHANGED <<fetched, progress>>
    BY <1>2 DEF Collect
  <2>2. progress' \in Progress /\ progress'.state = progress.state
    <3>1. CASE r.ok
      <4> DEFINE a == progress.advisories + 1
                 b == progress.packages + progress.advisories + 1
      <4>1. /\ a \in Nat /\ b \in Nat
            /\ progress' = [progress EXCEPT !.advisories = a, !.completed = b]
        BY <2>1, <3>1, ProgressCounts
      <4> HIDE DEF a, b
      <4>2. progress' \in Progress  BY <4>1, ProgressCounts DEF Progress
      <4> QED  BY <4>1, <4>2, ProgressCounts DEF Progress
    <3>2. CASE ~r.ok  BY <2>1, <3>2, ProgressCounts
    <3> QED  BY <3>1, <3>2
  <2>3. r.id \in Advisories /\ fetched' \subseteq Advisories /\ failed' \in Nat
    BY <2>1
  <2> QED  BY <1>2, <2>1, <2>2, <2>3 DEF Collect, Progress
<1>3. CASE CollectEnds  BY <1>3 DEF CollectEnds, pool, Runs
<1>4. ASSUME NEW w \in Workers, Dispatch(w) PROVE TypeOK'
  BY <1>4 DEF Dispatch
<1>5. ASSUME NEW w \in Workers, Fetch(w) \/ FetchIsFatal(w) PROVE TypeOK'
  <2>1. PICK ok \in BOOLEAN, next \in {NoJob, Exited} : Sends(w, ok, next)
    BY <1>5 DEF Fetch, FetchIsFatal
  <2>2. worker[w] \in Advisories  BY <1>5 DEF Fetch, FetchIsFatal
  <2>3. results' \subseteq [id : Advisories, ok : BOOLEAN]
        /\ worker' \in [Workers -> Advisories \cup {NoJob, Exited}]
    BY <2>1, <2>2 DEF Sends
  <2> QED  BY <1>5, <2>3 DEF Fetch, FetchIsFatal
<1>6. ASSUME NEW w \in Workers, Exit(w) PROVE TypeOK'
  BY <1>6 DEF Exit
<1> QED  BY <1>1, <1>2, <1>3, <1>4, <1>5, <1>6 DEF Worker

LEMMA WriteTypes == ASSUME TypeOK, Write \/ WriteFails PROVE TypeOK'
<1>1. CASE Write  BY <1>1 DEF Write, TypeOK, Runs, Snapshots, pool
<1>2. CASE WriteFails
  BY <1>2, FailsTypes DEF WriteFails, EmptyPool, TypeOK, Progress
<1> QED  BY <1>1, <1>2

LEMMA ReportTypes == ASSUME TypeOK, Report PROVE TypeOK'
<1> DEFINE left == Cardinality(run.ids) - progress.advisories
           skipped == IF left > failed THEN left - failed ELSE 0
           completed == progress.packages + progress.advisories
<1>1. left \in Int /\ failed \in Nat /\ completed \in Nat
  BY Sizes, ProgressCounts DEF TypeOK, Runs
<1>2. /\ failed > 0 => progress' = [progress EXCEPT !.state = "partial", !.failed = failed,
                        !.skipped = skipped, !.completed = completed]
      /\ ~(failed > 0) => progress' = [progress EXCEPT !.state = "complete", !.completed = progress.total]
  BY DEF Report
<1>3. skipped \in Nat
  <2> HIDE DEF left
  <2> QED  BY <1>1
<1> HIDE DEF left, skipped, completed
<1>4. progress' \in Progress /\ progress'.state # "running"
  <2>1. CASE failed > 0  BY <1>1, <1>2, <1>3, <2>1, ProgressCounts DEF Progress, States
  <2>2. CASE ~(failed > 0)  BY <1>2, <2>2, ProgressCounts DEF Progress, States
  <2> QED  BY <2>1, <2>2
<1> QED  BY <1>4 DEF Report, EmptyPool, TypeOK, NoRun, Runs, Exited, Progress

-----------------------------------------------------------------------------
(* The refresh.                                                            *)

LEMMA StartHolds ==
  ASSUME IInv, NEW ps \in SUBSET Packages, NEW force \in BOOLEAN, Start(ps, force)
  PROVE  IInv'
<1>1. TypeOK' /\ snapshot' = snapshot /\ UNCHANGED pool /\ run.stage = "none"
  BY StartTypes DEF IInv, Start, TypeOK, Runs
<1>2. CASE run' = run  BY <1>1, <1>2, Elsewhere
<1>3. CASE run' = [stage |-> "query", packages |-> ps, pending |-> ps, ids |-> {}]
  <2>1. Queried'  BY <1>3 DEF Queried, Fetching, Advised
  <2>2. PoolOfRun' /\ NothingLost'
    BY <1>1, <1>3 DEF IInv, PoolOfRun, NothingLost, Fetching, pool, TypeOK
  <2>3. CompleteIsWhole'  BY <1>1 DEF IInv, CompleteIsWhole
  <2> QED  BY <1>1, <2>1, <2>2, <2>3 DEF IInv
<1>4. (~force /\ Cached(ps)) \/ ~(~force /\ Cached(ps))
  OBVIOUS
<1> QED  BY <1>2, <1>3, <1>4 DEF Start

LEMMA QueryHolds == ASSUME IInv, Query PROVE IInv'
<1>1. PICK batch \in SUBSET run.pending : \E done \in SUBSET batch :
        \E paged \in SUBSET Advised(batch \ done) :
          run' = [run EXCEPT !.pending = (@ \ batch) \cup (batch \ done),
                             !.ids = run.ids \cup Advised(done) \cup paged]
  BY DEF Query
<1>2. PICK done \in SUBSET batch : \E paged \in SUBSET Advised(batch \ done) :
          run' = [run EXCEPT !.pending = (@ \ batch) \cup (batch \ done),
                             !.ids = run.ids \cup Advised(done) \cup paged]
  BY <1>1
<1>3. PICK paged \in SUBSET Advised(batch \ done) :
          run' = [run EXCEPT !.pending = (@ \ batch) \cup (batch \ done),
                             !.ids = run.ids \cup Advised(done) \cup paged]
  BY <1>2
<1>4. /\ run.stage = "query" /\ run'.stage = "query" /\ run'.packages = run.packages
      /\ run'.pending = (run.pending \ batch) \cup (batch \ done)
      /\ run'.ids = run.ids \cup Advised(done) \cup paged
  BY <1>3 DEF Query, IInv, TypeOK, Runs
<1>5. /\ run.pending \subseteq run.packages /\ run.ids \subseteq Advised(run.packages)
      /\ Advised(run.packages \ run.pending) \subseteq run.ids
  BY <1>4 DEF IInv, Queried
<1>6. Queried'
  <2>1. run'.pending \subseteq run'.packages  BY <1>4, <1>5
  <2>2. run'.ids \subseteq Advised(run'.packages)  BY <1>4, <1>5 DEF Advised
  <2>3. Advised(run'.packages \ run'.pending) \subseteq run'.ids
    <3>1. run'.packages \ run'.pending \subseteq (run.packages \ run.pending) \cup done
      BY <1>4, <1>5
    <3> QED  BY <1>4, <1>5, <3>1 DEF Advised
  <2> QED  BY <1>4, <2>1, <2>2, <2>3 DEF Queried, Fetching
<1>7. UNCHANGED pool /\ snapshot' = snapshot  BY DEF Query
<1>8. PoolOfRun'
  BY <1>4, <1>7 DEF IInv, PoolOfRun, Fetching, pool, TypeOK
<1>9. NothingLost'
  BY <1>4, <1>7 DEF IInv, NothingLost, Fetching, pool
<1>10. CompleteIsWhole'  BY <1>7 DEF IInv, CompleteIsWhole
<1>11. TypeOK'  BY QueryTypes DEF IInv
<1> QED  BY <1>6, <1>8, <1>9, <1>10, <1>11 DEF IInv

LEMMA StartFetchHolds == ASSUME IInv, StartFetch PROVE IInv'
<1>1. /\ run.stage = "query" /\ run'.packages = run.packages /\ run'.pending = {}
      /\ run'.ids = run.ids
      /\ run'.stage = IF run.ids = {} THEN "write" ELSE "fetch"
      /\ run.ids \subseteq Advisories
  BY DEF StartFetch, IInv, TypeOK, Runs
<1>2. run.ids = Advised(run.packages)
  BY <1>1 DEF StartFetch, IInv, Queried
<1>3. Queried'  BY <1>1, <1>2 DEF Queried, Fetching
<1>4. /\ todo' = run.ids /\ (open' <=> run.ids # {}) /\ ~fatal' /\ results' = {} /\ fetched' = {}
      /\ snapshot' = snapshot
  BY DEF StartFetch
<1>5. \A w \in Workers : worker'[w] \in {NoJob, Exited}
  BY DEF StartFetch
<1>6. run.ids = {} => \A w \in Workers : worker'[w] = Exited
  <2> SUFFICES ASSUME run.ids = {} PROVE \A w \in Workers : worker'[w] = Exited
    OBVIOUS
  <2>1. PICK started \in SUBSET Workers :
          /\ \/ Cardinality(started) = Cardinality(run.ids)
             \/ started = Workers /\ Cardinality(Workers) < Cardinality(run.ids)
          /\ worker' = [w \in Workers |-> IF w \in started THEN NoJob ELSE Exited]
    BY DEF StartFetch
  <2>2. Cardinality(run.ids) = 0 /\ Cardinality(Workers) \in Nat /\ IsFiniteSet(started)
    BY FS_EmptySet, Sizes
  <2>3. Cardinality(started) = 0
    <3>1. ~(Cardinality(Workers) < Cardinality(run.ids))  BY <2>2
    <3> QED  BY <2>1, <2>2, <3>1
  <2>4. started = {}  BY <2>2, <2>3, FS_EmptySet
  <2> QED  BY <2>1, <2>4
<1>7. PoolOfRun'
  BY <1>1, <1>4, <1>5, <1>6 DEF PoolOfRun, Fetching
<1>8. NothingLost'
  BY <1>1, <1>4 DEF NothingLost, UnderWay
<1>9. TypeOK' /\ CompleteIsWhole'
  BY <1>4, StartFetchTypes DEF IInv, CompleteIsWhole
<1> QED  BY <1>3, <1>7, <1>8, <1>9 DEF IInv

(* A step of the pool that keeps the run.                                  *)
LEMMA PoolStep ==
  ASSUME IInv, TypeOK', run' = run, snapshot' = snapshot, PoolOfRun', NothingLost'
  PROVE  IInv'
BY DEF IInv, Queried, Fetching, CompleteIsWhole

LEMMA WorkerHolds == ASSUME IInv, NEW w \in Workers, Worker(w) PROVE IInv'
<1>0. /\ TypeOK' /\ run' = run /\ snapshot' = snapshot /\ run.ids \subseteq Advisories
      /\ worker \in [Workers -> Advisories \cup {NoJob, Exited}]
  BY PoolTypes DEF IInv, Worker, Dispatch, Fetch, FetchIsFatal, Exit, TypeOK, Runs
<1>a. Exited # NoJob /\ NoJob \notin Advisories /\ Exited \notin Advisories
  BY DEF NoJob, Exited
<1>1. CASE Dispatch(w)
  <2>1. PICK id \in todo : worker' = [worker EXCEPT ![w] = id] /\ todo' = todo \ {id}
    BY <1>1 DEF Dispatch
  <2>2. /\ open /\ (open' <=> ~fatal) /\ worker[w] = NoJob
        /\ UNCHANGED <<fatal, results, fetched, failed>>
    BY <1>1 DEF Dispatch
  <2>3. run.stage = "fetch" /\ id \in run.ids  BY <2>2 DEF IInv, PoolOfRun
  <2>4. PoolOfRun'  BY <1>0, <2>1, <2>2, <2>3 DEF IInv, PoolOfRun, Fetching
  <2>5. ASSUME NEW i \in run.ids, UnderWay(i) PROVE UnderWay(i)'
    BY <1>0, <1>a, <2>1, <2>2, <2>5 DEF UnderWay
  <2>6. NothingLost'  BY <1>0, <2>2, <2>5 DEF IInv, NothingLost, Fetching
  <2> QED  BY <1>0, <2>4, <2>6, PoolStep
<1>2. CASE Fetch(w) \/ FetchIsFatal(w)
  <2>1. PICK ok \in BOOLEAN, next \in {NoJob, Exited} :
          /\ Sends(w, ok, next)
          /\ fatal' => fatal \/ ~ok
    <3>1. CASE Fetch(w)
      <4>1. PICK ok \in BOOLEAN : Sends(w, ok, NoJob)  BY <3>1 DEF Fetch
      <4>2. fatal' = fatal  BY <3>1 DEF Fetch
      <4> QED  BY <4>1, <4>2
    <3>2. CASE FetchIsFatal(w)
      <4>1. Sends(w, FALSE, Exited)  BY <3>2 DEF FetchIsFatal
      <4> QED  BY <4>1
    <3> QED  BY <1>2, <3>1, <3>2
  <2>2. worker[w] \in Advisories /\ UNCHANGED <<todo, open, fetched, failed>>
    BY <1>2 DEF Fetch, FetchIsFatal
  <2>2a. (fatal => fatal')
    BY <1>2 DEF Fetch, FetchIsFatal
  <2>3. worker[w] \in run.ids /\ run.stage = "fetch"
    BY <1>a, <2>2 DEF IInv, PoolOfRun
  <2> DEFINE r == [id |-> worker[w], ok |-> ok]
  <2>4. /\ results' = results \cup {r} /\ r.id = worker[w] /\ r.ok = ok
        /\ worker' = [worker EXCEPT ![w] = next]
    BY <2>1 DEF Sends
  <2> HIDE DEF r
  <2>5. PoolOfRun'  BY <1>0, <2>2, <2>3, <2>4 DEF IInv, PoolOfRun, Fetching
  <2>6. ASSUME NEW i \in run.ids, UnderWay(i) PROVE UnderWay(i)'
    BY <1>0, <2>2, <2>4, <2>6 DEF UnderWay
  <2>7. fatal' => failed' > 0 \/ \E q \in results' : ~q.ok
    BY <2>1, <2>2, <2>4 DEF IInv, NothingLost
  <2>8. NothingLost'  BY <1>0, <2>2, <2>2a, <2>6, <2>7 DEF IInv, NothingLost, Fetching
  <2> QED  BY <1>0, <2>5, <2>8, PoolStep
<1>3. CASE Exit(w)
  <2>1. /\ worker[w] = NoJob /\ worker' = [worker EXCEPT ![w] = Exited]
        /\ UNCHANGED <<todo, open, fatal, results, fetched, failed>>
    BY <1>3 DEF Exit
  <2>2. PoolOfRun'  BY <1>0, <2>1 DEF IInv, PoolOfRun, Fetching
  <2>3. ASSUME NEW i \in run.ids, UnderWay(i) PROVE UnderWay(i)'
    BY <1>0, <1>a, <2>1, <2>3 DEF UnderWay
  <2>4. NothingLost'  BY <1>0, <2>1, <2>3 DEF IInv, NothingLost, Fetching
  <2> QED  BY <1>0, <2>2, <2>4, PoolStep
<1> QED  BY <1>1, <1>2, <1>3 DEF Worker

LEMMA CloseHolds == ASSUME IInv, CloseJobs PROVE IInv'
<1>1. /\ TypeOK' /\ run' = run /\ snapshot' = snapshot /\ ~open'
      /\ todo = {} \/ fatal
      /\ UNCHANGED <<todo, fatal, worker, results, fetched, failed>>
  BY PoolTypes DEF IInv, CloseJobs
<1>2. PoolOfRun'  BY <1>1 DEF IInv, PoolOfRun, Fetching
<1>3. NothingLost'  BY <1>1 DEF IInv, NothingLost, Fetching, UnderWay
<1> QED  BY <1>1, <1>2, <1>3, PoolStep

LEMMA CollectHolds == ASSUME IInv, Collect PROVE IInv'
<1>1. PICK r \in results :
        /\ results' = results \ {r}
        /\ r.ok => fetched' = fetched \cup {r.id} /\ failed' = failed
        /\ ~r.ok => fetched' = fetched /\ failed' = failed + 1
  BY DEF Collect
<1>2. /\ TypeOK' /\ run' = run /\ snapshot' = snapshot /\ failed \in Nat
      /\ UNCHANGED <<todo, open, fatal, worker>>
  BY PoolTypes DEF IInv, Collect, TypeOK
<1>3. run.stage = "fetch" /\ r.id \in run.ids
  BY <1>1 DEF IInv, PoolOfRun
<1>4. PoolOfRun'
  BY <1>1, <1>2, <1>3 DEF IInv, PoolOfRun, Fetching
<1>5. CASE r.ok
  <2>1. ASSUME NEW i \in run.ids, UnderWay(i) PROVE UnderWay(i)'
    BY <1>1, <1>2, <1>5, <2>1 DEF UnderWay
  <2>2. NothingLost'  BY <1>1, <1>2, <1>5, <2>1 DEF IInv, NothingLost, Fetching
  <2> QED  BY <1>2, <1>4, <2>2, PoolStep
<1>6. CASE ~r.ok
  <2>1. failed' > 0  BY <1>1, <1>2, <1>6
  <2>2. NothingLost'  BY <1>1, <1>2, <2>1 DEF IInv, NothingLost, Fetching
  <2> QED  BY <1>2, <1>4, <2>2, PoolStep
<1> QED  BY <1>5, <1>6

(* When all is collected and nothing failed, everything was fetched.       *)
LEMMA AllFetched ==
  ASSUME IInv, run.stage \in {"write", "report"}, ~(failed > 0)
  PROVE  fetched = Advised(run.packages)
<1>1. /\ ~open /\ results = {} /\ \A w \in Workers : worker[w] = Exited
      /\ run.ids = Advised(run.packages) /\ run.ids \subseteq Advisories
      /\ fetched \subseteq run.ids
  BY DEF IInv, PoolOfRun, Queried, Fetching, TypeOK, Runs
<1>2. todo = {}  BY <1>1 DEF IInv, NothingLost
<1>3. \A id \in run.ids : UnderWay(id)  BY DEF IInv, NothingLost, Fetching
<1>4. \A id \in run.ids : id \in fetched
  BY <1>1, <1>2, <1>3 DEF UnderWay, Exited
<1> QED  BY <1>1, <1>4

LEMMA CollectEndsHolds == ASSUME IInv, CollectEnds PROVE IInv'
<1>1. /\ run.stage = "fetch" /\ run'.stage = "write" /\ run'.ids = run.ids
      /\ run'.packages = run.packages /\ run'.pending = run.pending
      /\ ~open /\ results = {} /\ \A w \in Workers : worker[w] = Exited
      /\ UNCHANGED pool /\ snapshot' = snapshot
  BY DEF CollectEnds, IInv, TypeOK, Runs
<1>2. Queried'  BY <1>1 DEF IInv, Queried, Fetching
<1>3. PoolOfRun'  BY <1>1 DEF IInv, PoolOfRun, Fetching, pool
<1>4. NothingLost'  BY <1>1 DEF IInv, NothingLost, Fetching, pool, UnderWay
<1>5. TypeOK' /\ CompleteIsWhole'
  BY <1>1, PoolTypes DEF IInv, CompleteIsWhole
<1> QED  BY <1>2, <1>3, <1>4, <1>5 DEF IInv

LEMMA WriteHolds == ASSUME IInv, Write PROVE IInv'
<1>1. /\ run.stage = "write" /\ run'.stage = "report" /\ run'.ids = run.ids
      /\ run'.packages = run.packages /\ run'.pending = run.pending
      /\ UNCHANGED pool
  BY DEF Write, IInv, TypeOK, Runs
<1>2. Queried'  BY <1>1 DEF IInv, Queried, Fetching
<1>3. PoolOfRun'  BY <1>1 DEF IInv, PoolOfRun, Fetching, pool
<1>4. NothingLost'  BY <1>1 DEF IInv, NothingLost, Fetching, pool, UnderWay
<1>5. CompleteIsWhole'
  <2>1. /\ snapshot'.ids = fetched /\ (snapshot'.partial <=> failed > 0)
        /\ snapshot'.packages = run.packages
    BY DEF Write
  <2> QED  BY <1>1, <2>1, AllFetched DEF CompleteIsWhole
<1>6. TypeOK'  BY WriteTypes DEF IInv
<1> QED  BY <1>2, <1>3, <1>4, <1>5, <1>6 DEF IInv

LEMMA StepHolds == IInv /\ [Next]_vars => IInv'
<1> SUFFICES ASSUME IInv, [Next]_vars PROVE IInv'
  OBVIOUS
<1>1. CASE Redeclare \/ Expire \/ Shutdown
  <2>1. TypeOK'  BY <1>1, OutsideTypes DEF IInv
  <2> QED  BY <1>1, <2>1, Elsewhere DEF Redeclare, Expire, Shutdown
<1>2. CASE Restart
  <2>1. TypeOK'  BY <1>2, OutsideTypes DEF IInv
  <2> QED  BY <1>2, <2>1, RunEnds DEF Restart
<1>3. CASE Request \/ Tick
  <2>1. declared \subseteq Packages  BY DEF IInv, TypeOK
  <2>2. PICK ps \in SUBSET Packages, force \in BOOLEAN : Start(ps, force)
    BY <1>3, <2>1 DEF Request, Tick
  <2> QED  BY <2>2, StartHolds
<1>4. CASE QueryFails
  <2>1. TypeOK'  BY <1>4, QueryTypes DEF IInv
  <2> QED  BY <1>4, <2>1, RunEnds DEF QueryFails, Fails
<1>5. CASE WriteFails
  <2>1. TypeOK'  BY <1>5, WriteTypes DEF IInv
  <2> QED  BY <1>5, <2>1, RunEnds DEF WriteFails, Fails
<1>6. CASE Report
  <2>1. TypeOK'  BY <1>6, ReportTypes DEF IInv
  <2> QED  BY <1>6, <2>1, RunEnds DEF Report
<1>7. CASE Query \/ StartFetch \/ CloseJobs \/ Collect \/ CollectEnds \/ Write
             \/ \E w \in Workers : Worker(w)
  BY <1>7, QueryHolds, StartFetchHolds, CloseHolds, CollectHolds, CollectEndsHolds,
     WriteHolds, WorkerHolds
<1>8. CASE UNCHANGED vars
  BY <1>8 DEF vars, pool, IInv, TypeOK, Queried, PoolOfRun, NothingLost, Fetching, UnderWay,
              CompleteIsWhole
<1> QED  BY <1>1, <1>2, <1>3, <1>4, <1>5, <1>6, <1>7, <1>8 DEF Next, Refresh

-----------------------------------------------------------------------------
(* The progress that the user is shown.                                    *)

(* AdvisoryRefreshProgress adds up.                                        *)
ProgressAddsUp ==
  /\ progress.completed <= progress.total
  /\ progress.state = "complete" =>
       /\ progress.completed = progress.total
       /\ progress.packages + progress.advisories = progress.total
  /\ progress.state = "partial" =>
       progress.packages + progress.advisories + progress.failed + progress.skipped
         = progress.total

(* fetchAdvisories: an identifier is waiting, with one worker, in one      *)
(* result or fetched.                                                      *)
OnePlace ==
  /\ todo \cap fetched = {}
  /\ \A w \in Workers :
       /\ worker[w] \notin todo \cup fetched
       /\ \A v \in Workers : worker[v] = worker[w] /\ worker[w] \in Advisories => v = w
  /\ \A r \in results :
       /\ r.id \notin todo \cup fetched
       /\ \A w \in Workers : worker[w] # r.id
       /\ \A q \in results : q.id = r.id => q = r

(* The identifiers of the failures that were counted.                      *)
Gone == {id \in run.ids : ~UnderWay(id)}

(* The counts of a run that is under way.                                  *)
Counted ==
  /\ run.stage = "query" =>
       /\ progress.total = Cardinality(run.packages)
       /\ progress.packages = Cardinality(run.packages \ run.pending)
       /\ progress.completed = progress.packages
       /\ progress.advisories = 0
  /\ Fetching =>
       /\ progress.total = Cardinality(run.packages) + Cardinality(run.ids)
       /\ progress.packages = Cardinality(run.packages)
       /\ progress.advisories = Cardinality(fetched)
       /\ progress.completed = progress.packages + progress.advisories
       /\ failed = Cardinality(Gone)

Adds == OnePlace /\ Counted /\ ProgressAddsUp

(* Two sets that have nothing in common.                                   *)
LEMMA Apart ==
  ASSUME NEW S, NEW T, IsFiniteSet(S), IsFiniteSet(T), S \cap T = {}
  PROVE  /\ Cardinality(S \cup T) = Cardinality(S) + Cardinality(T)
         /\ Cardinality(S) \in Nat /\ Cardinality(T) \in Nat
<1>1. Cardinality(S \cup T) = Cardinality(S) + Cardinality(T) - Cardinality(S \cap T)
  BY FS_Union
<1>2. Cardinality(S) \in Nat /\ Cardinality(T) \in Nat  BY FS_CardinalityType
<1>3. Cardinality(S \cap T) = 0  BY FS_EmptySet
<1> QED  BY <1>1, <1>2, <1>3

LEMMA PartSizes ==
  ASSUME NEW S, S \in SUBSET Packages \/ S \in SUBSET Advisories, NEW T \in SUBSET S
  PROVE  /\ IsFiniteSet(S) /\ IsFiniteSet(T) /\ Cardinality(S) \in Nat /\ Cardinality(T) \in Nat
         /\ Cardinality(T) <= Cardinality(S)
<1>1. IsFiniteSet(S)  BY FS_Subset, SizesAssumption
<1> QED  BY <1>1, FS_Subset, FS_CardinalityType

(* The pool in motion: who has an identifier, and who had it.              *)
LEMMA Moves ==
  ASSUME IInv, OnePlace, CloseJobs \/ \E w \in Workers : Worker(w)
  PROVE  /\ OnePlace' /\ UNCHANGED <<run, progress, fetched, failed>>
         /\ \A id \in run.ids : UnderWay(id)' = UnderWay(id)
<1>a. /\ Exited # NoJob /\ NoJob \notin Advisories /\ Exited \notin Advisories
      /\ run.ids \subseteq Advisories /\ todo \subseteq Advisories
      /\ worker \in [Workers -> Advisories \cup {NoJob, Exited}]
  BY DEF NoJob, Exited, IInv, TypeOK, Runs
<1>b. /\ fetched \subseteq Advisories /\ \A r \in results : r.id \in Advisories
  BY DEF IInv, TypeOK
<1>1. CASE CloseJobs
  BY <1>1 DEF CloseJobs, OnePlace, UnderWay
<1>2. ASSUME NEW w \in Workers, Dispatch(w)
      PROVE  /\ OnePlace' /\ UNCHANGED <<run, progress, fetched, failed>>
             /\ \A id \in run.ids : UnderWay(id)' = UnderWay(id)
  <2>1. PICK id \in todo : worker' = [worker EXCEPT ![w] = id] /\ todo' = todo \ {id}
    BY <1>2 DEF Dispatch
  <2>2. worker[w] = NoJob /\ UNCHANGED <<run, progress, fetched, failed, results>>
    BY <1>2 DEF Dispatch
  <2>3. OnePlace'  BY <1>a, <1>b, <2>1, <2>2 DEF OnePlace
  <2>4. \A i \in run.ids : UnderWay(i)' = UnderWay(i)
    BY <1>a, <2>1, <2>2 DEF UnderWay
  <2> QED  BY <2>2, <2>3, <2>4
<1>3. ASSUME NEW w \in Workers, Fetch(w) \/ FetchIsFatal(w)
      PROVE  /\ OnePlace' /\ UNCHANGED <<run, progress, fetched, failed>>
             /\ \A id \in run.ids : UnderWay(id)' = UnderWay(id)
  <2>1. PICK ok \in BOOLEAN, next \in {NoJob, Exited} : Sends(w, ok, next)
    BY <1>3 DEF Fetch, FetchIsFatal
  <2>2. worker[w] \in Advisories /\ UNCHANGED <<run, progress, todo, fetched, failed>>
    BY <1>3 DEF Fetch, FetchIsFatal
  <2> DEFINE r == [id |-> worker[w], ok |-> ok]
  <2>3. /\ results' = results \cup {r} /\ r.id = worker[w]
        /\ worker' = [worker EXCEPT ![w] = next]
    BY <2>1 DEF Sends
  <2> HIDE DEF r
  <2>4. OnePlace'  BY <1>a, <1>b, <2>2, <2>3 DEF OnePlace
  <2>5. \A i \in run.ids : UnderWay(i)' = UnderWay(i)
    BY <1>a, <2>2, <2>3 DEF UnderWay
  <2> QED  BY <2>2, <2>4, <2>5
<1>4. ASSUME NEW w \in Workers, Exit(w)
      PROVE  /\ OnePlace' /\ UNCHANGED <<run, progress, fetched, failed>>
             /\ \A id \in run.ids : UnderWay(id)' = UnderWay(id)
  <2>1. /\ worker[w] = NoJob /\ worker' = [worker EXCEPT ![w] = Exited]
        /\ UNCHANGED <<run, progress, todo, fetched, failed, results>>
    BY <1>4 DEF Exit
  <2>2. OnePlace'  BY <1>a, <1>b, <2>1 DEF OnePlace
  <2>3. \A i \in run.ids : UnderWay(i)' = UnderWay(i)
    BY <1>a, <2>1 DEF UnderWay
  <2> QED  BY <2>1, <2>2, <2>3
<1> QED  BY <1>1, <1>2, <1>3, <1>4 DEF Worker

(* A result is collected: fetched, or gone.                                *)
LEMMA Collected ==
  ASSUME IInv, Adds, Collect
  PROVE  OnePlace' /\ Counted'
<1>1. PICK r \in results :
        /\ results' = results \ {r}
        /\ IF r.ok
             THEN /\ fetched' = fetched \cup {r.id}
                  /\ progress' = [progress EXCEPT !.advisories = @ + 1,
                       !.completed = progress.packages + progress.advisories + 1]
                  /\ UNCHANGED failed
             ELSE failed' = failed + 1 /\ UNCHANGED <<fetched, progress>>
  BY DEF Collect
<1>2. UNCHANGED <<run, todo, worker>>  BY DEF Collect
<1>3. run.stage = "fetch" /\ r.id \in run.ids /\ run.ids \subseteq Advisories /\ fetched \subseteq run.ids
  BY <1>1 DEF IInv, PoolOfRun, TypeOK, Runs
<1>4. r.id \notin todo \cup fetched /\ (\A w \in Workers : worker[w] # r.id)
      /\ \A q \in results : q.id = r.id => q = r
  BY <1>1 DEF Adds, OnePlace
<1>5. CASE r.ok
  <2>1. OnePlace'  BY <1>1, <1>2, <1>4, <1>5 DEF Adds, OnePlace
  <2>2. \A id \in run.ids : UnderWay(id)' = UnderWay(id)
    BY <1>1, <1>2, <1>4, <1>5 DEF UnderWay
  <2>3. Gone' = Gone  BY <1>2, <2>2 DEF Gone
  <2>4. Cardinality(fetched') = Cardinality(fetched) + 1
    <3>1. IsFiniteSet(fetched)  BY <1>3, PartSizes
    <3> QED  BY <1>1, <1>4, <1>5, <3>1, FS_AddElement
  <2> DEFINE a == progress.advisories + 1
             b == progress.packages + progress.advisories + 1
  <2>5. progress' = [progress EXCEPT !.advisories = a, !.completed = b]
    BY <1>1, <1>5
  <2>6. a \in Nat /\ b = progress.packages + a
    BY ProgressCounts DEF IInv
  <2>7. a = Cardinality(fetched')
    BY <1>3, <2>4 DEF Adds, Counted, Fetching
  <2> HIDE DEF a, b
  <2>8. /\ progress'.total = progress.total /\ progress'.packages = progress.packages
        /\ progress'.advisories = a /\ progress'.completed = b
    BY <2>5, ProgressCounts DEF IInv, Progress
  <2>9. Counted'
    BY <1>1, <1>2, <1>3, <1>5, <2>3, <2>6, <2>7, <2>8 DEF Adds, Counted, Fetching
  <2> QED  BY <2>1, <2>9
<1>6. CASE ~r.ok
  <2>1. OnePlace'  BY <1>1, <1>2, <1>4, <1>6 DEF Adds, OnePlace
  <2>2. \A id \in run.ids : UnderWay(id)' <=> UnderWay(id) /\ id # r.id
    BY <1>1, <1>2, <1>4, <1>6 DEF UnderWay
  <2>3. Gone' = Gone \cup {r.id} /\ r.id \notin Gone
    BY <1>1, <1>2, <1>3, <2>2 DEF Gone, UnderWay
  <2>4. Cardinality(Gone') = Cardinality(Gone) + 1
    <3>1. IsFiniteSet(Gone)  BY <1>3, PartSizes DEF Gone
    <3> QED  BY <2>3, <3>1, FS_AddElement
  <2>5. Counted'
    BY <1>1, <1>2, <1>3, <1>6, <2>4 DEF Adds, Counted, Fetching
  <2> QED  BY <2>1, <2>5
<1> QED  BY <1>5, <1>6

(* A query: the packages that were answered.                               *)
LEMMA QueryCounted ==
  ASSUME IInv, Counted, Query
  PROVE  Counted' /\ progress'.state = progress.state
<1>1. PICK batch \in SUBSET run.pending : \E done \in SUBSET batch :
        \E paged \in SUBSET Advised(batch \ done) :
          /\ run' = [run EXCEPT !.pending = (@ \ batch) \cup (batch \ done),
                                !.ids = run.ids \cup Advised(done) \cup paged]
          /\ progress' = [progress EXCEPT !.packages = @ + Cardinality(done),
                                          !.completed = progress.packages + Cardinality(done)]
  BY DEF Query
<1>2. PICK done \in SUBSET batch :
        \E paged \in SUBSET Advised(batch \ done) :
          /\ run' = [run EXCEPT !.pending = (@ \ batch) \cup (batch \ done),
                                !.ids = run.ids \cup Advised(done) \cup paged]
          /\ progress' = [progress EXCEPT !.packages = @ + Cardinality(done),
                                          !.completed = progress.packages + Cardinality(done)]
  BY <1>1
<1>3. PICK paged \in SUBSET Advised(batch \ done) :
          /\ run' = [run EXCEPT !.pending = (@ \ batch) \cup (batch \ done),
                                !.ids = run.ids \cup Advised(done) \cup paged]
          /\ progress' = [progress EXCEPT !.packages = @ + Cardinality(done),
                                          !.completed = progress.packages + Cardinality(done)]
  BY <1>2
<1>4. /\ run.stage = "query" /\ run'.stage = "query" /\ run'.packages = run.packages
      /\ run'.pending = (run.pending \ batch) \cup (batch \ done)
      /\ run.packages \subseteq Packages /\ run.pending \subseteq run.packages
  BY <1>3 DEF Query, IInv, TypeOK, Runs, Queried
<1> DEFINE n == progress.packages + Cardinality(done)
<1>5. progress' = [progress EXCEPT !.packages = n, !.completed = n]
  BY <1>3
<1>6. n = Cardinality(run'.packages \ run'.pending)
  <2>1. /\ run'.packages \ run'.pending = (run.packages \ run.pending) \cup done
        /\ (run.packages \ run.pending) \cap done = {}
    BY <1>4
  <2>2. IsFiniteSet(run.packages \ run.pending) /\ IsFiniteSet(done)
    BY <1>4, PartSizes
  <2>3. progress.packages = Cardinality(run.packages \ run.pending)
    BY <1>4 DEF Counted
  <2> QED  BY <2>1, <2>2, <2>3, Apart
<1> HIDE DEF n
<1>7. /\ progress'.total = progress.total /\ progress'.packages = n /\ progress'.completed = n
      /\ progress'.advisories = progress.advisories /\ progress'.state = progress.state
  BY <1>5, ProgressCounts DEF IInv, Progress
<1> QED  BY <1>4, <1>6, <1>7 DEF Counted, Fetching

(* The fetches start: every identifier has one place.                      *)
LEMMA StartFetchCounted ==
  ASSUME IInv, Counted, StartFetch
  PROVE  OnePlace' /\ Counted' /\ progress'.state = progress.state
<1>1. /\ run.stage = "query" /\ run.pending = {} /\ run'.stage \in {"write", "fetch"}
      /\ run'.ids = run.ids /\ run'.packages = run.packages
      /\ run.ids \subseteq Advisories /\ run.packages \subseteq Packages
  BY DEF StartFetch, IInv, TypeOK, Runs
<1>2. todo' = run.ids /\ results' = {} /\ fetched' = {} /\ failed' = 0
  BY DEF StartFetch
<1>3. \A w \in Workers : worker'[w] \in {NoJob, Exited}
  BY DEF StartFetch
<1>4. OnePlace'  BY <1>1, <1>2, <1>3 DEF OnePlace
<1>5. Gone' = {}  BY <1>1, <1>2 DEF Gone, UnderWay
<1> DEFINE n == Cardinality(run.packages) + Cardinality(run.ids)
<1>6. n \in Nat  BY <1>1, Sizes
<1>7. progress' = [progress EXCEPT !.total = n, !.completed = progress.packages]
  BY DEF StartFetch
<1>8. progress.packages = Cardinality(run.packages) /\ progress.advisories = 0
  BY <1>1 DEF Counted
<1>9. n = Cardinality(run'.packages) + Cardinality(run'.ids)  BY <1>1
<1> HIDE DEF n
<1>10. /\ progress'.total = n /\ progress'.packages = progress.packages
       /\ progress'.completed = progress.packages
       /\ progress'.advisories = progress.advisories /\ progress'.state = progress.state
  BY <1>7, ProgressCounts DEF IInv, Progress
<1>11. progress'.completed = progress'.packages + progress'.advisories
  BY <1>8, <1>10, ProgressCounts DEF IInv
<1>12. Counted'
  BY <1>1, <1>2, <1>5, <1>8, <1>9, <1>10, <1>11, FS_EmptySet DEF Counted, Fetching
<1> QED  BY <1>4, <1>10, <1>12

(* A run that is under way has not completed more than there is.           *)
LEMMA RunningAdds ==
  ASSUME IInv', Counted', progress'.state = "running"
  PROVE  ProgressAddsUp'
<1>1. /\ run'.stage \in {"query", "fetch", "write", "report"}
      /\ run'.packages \subseteq Packages /\ run'.ids \subseteq Advisories
  BY DEF IInv, TypeOK, Runs
<1>2. CASE run'.stage = "query"
  <2>1. Cardinality(run'.packages \ run'.pending) <= Cardinality(run'.packages)
    BY <1>1, PartSizes
  <2> QED  BY <1>2, <2>1 DEF Counted, ProgressAddsUp
<1>3. CASE Fetching'
  <2>1. fetched' \subseteq run'.ids  BY DEF IInv, PoolOfRun
  <2>2. /\ Cardinality(fetched') <= Cardinality(run'.ids)
        /\ Cardinality(fetched') \in Nat /\ Cardinality(run'.ids) \in Nat
        /\ Cardinality(run'.packages) \in Nat
    BY <1>1, <2>1, PartSizes, Sizes
  <2> QED  BY <1>3, <2>2 DEF Counted, ProgressAddsUp
<1> QED  BY <1>1, <1>2, <1>3 DEF Fetching

(* The end of a run: what was neither fetched nor failed was skipped, and  *)
(* there is never more of the two than there are identifiers.              *)
LEMMA ReportAdds == ASSUME IInv, Adds, Report PROVE ProgressAddsUp'
<1> DEFINE left == Cardinality(run.ids) - progress.advisories
           skipped == IF left > failed THEN left - failed ELSE 0
           completed == progress.packages + progress.advisories
<1>1. /\ run.stage = "report" /\ run.packages \subseteq Packages /\ run.ids \subseteq Advisories
      /\ fetched \subseteq run.ids /\ Gone \subseteq run.ids
  BY DEF Report, IInv, TypeOK, Runs, PoolOfRun, Gone
<1>2. /\ progress.total = Cardinality(run.packages) + Cardinality(run.ids)
      /\ progress.packages = Cardinality(run.packages)
      /\ progress.advisories = Cardinality(fetched)
      /\ failed = Cardinality(Gone)
  BY <1>1 DEF Adds, Counted, Fetching
<1>3. /\ Cardinality(fetched) + Cardinality(Gone) <= Cardinality(run.ids)
      /\ Cardinality(fetched) \in Nat /\ Cardinality(Gone) \in Nat
      /\ Cardinality(run.ids) \in Nat /\ Cardinality(run.packages) \in Nat
  <2>1. fetched \cap Gone = {} /\ (fetched \cup Gone) \in SUBSET run.ids
    BY <1>1 DEF Gone, UnderWay
  <2>2. IsFiniteSet(fetched) /\ IsFiniteSet(Gone)
    BY <1>1, PartSizes
  <2>3. Cardinality(fetched \cup Gone) <= Cardinality(run.ids)
    BY <1>1, <2>1, PartSizes
  <2> QED  BY <1>1, <2>1, <2>2, <2>3, Apart, Sizes
<1>4. CASE failed > 0
  <2>1. progress' = [progress EXCEPT !.state = "partial", !.failed = failed,
                        !.skipped = skipped, !.completed = completed]
    BY <1>4 DEF Report
  <2>2. /\ completed <= progress.total
        /\ completed + failed + skipped = progress.total
        /\ skipped \in Nat /\ failed \in Nat
    BY <1>2, <1>3
  <2>3. completed = progress.packages + progress.advisories
    OBVIOUS
  <2> HIDE DEF left, skipped, completed
  <2>4. /\ progress'.state = "partial" /\ progress'.completed = completed
        /\ progress'.total = progress.total /\ progress'.packages = progress.packages
        /\ progress'.advisories = progress.advisories
        /\ progress'.failed = failed /\ progress'.skipped = skipped
    BY <2>1, ProgressCounts DEF IInv, Progress
  <2> QED  BY <2>2, <2>3, <2>4 DEF ProgressAddsUp
<1>5. CASE ~(failed > 0)
  <2>1. progress' = [progress EXCEPT !.state = "complete", !.completed = progress.total]
    BY <1>5 DEF Report
  <2>2. /\ progress'.state = "complete" /\ progress'.completed = progress.total
        /\ progress'.total = progress.total /\ progress'.packages = progress.packages
        /\ progress'.advisories = progress.advisories
    BY <2>1, ProgressCounts DEF IInv, Progress
  <2>3. fetched = run.ids
    BY <1>1, <1>5, AllFetched DEF IInv, Queried, Fetching
  <2> QED  BY <1>2, <1>3, <2>2, <2>3 DEF ProgressAddsUp
<1> QED  BY <1>4, <1>5

(* An empty pool holds nothing twice.                                      *)
LEMMA EmptyIsOnePlace == EmptyPool => OnePlace'
BY DEF EmptyPool, OnePlace

LEMMA StartAdds ==
  ASSUME IInv, Adds, NEW ps \in SUBSET Packages, NEW force \in BOOLEAN, Start(ps, force)
  PROVE  Adds'
<1> DEFINE n == Cardinality(ps)
<1>1. n \in Nat /\ UNCHANGED pool  BY Sizes DEF Start
<1>2. OnePlace'  BY <1>1 DEF Adds, OnePlace, pool
<1>3. CASE /\ run' = run
           /\ progress' = [Idle EXCEPT !.state = "complete", !.total = n,
                                       !.completed = n, !.packages = n, !.skipped = n]
  <2> HIDE DEF n
  <2>1. run.stage = "none"  BY DEF Start, IInv, TypeOK, Runs
  <2>2. ProgressAddsUp'  BY <1>1, <1>3 DEF ProgressAddsUp, Idle
  <2> QED  BY <1>2, <1>3, <2>1, <2>2 DEF Adds, Counted, Fetching
<1>4. CASE /\ run' = [stage |-> "query", packages |-> ps, pending |-> ps, ids |-> {}]
           /\ progress' = [Idle EXCEPT !.state = "running", !.total = n]
  <2>1. run'.packages \ run'.pending = {}  BY <1>4
  <2>2. Counted'
    <3>1. /\ progress'.total = n /\ progress'.packages = 0 /\ progress'.completed = 0
          /\ progress'.advisories = 0
      BY <1>4 DEF Idle
    <3> QED  BY <1>4, <2>1, <3>1, FS_EmptySet DEF Counted, Fetching
  <2> HIDE DEF n
  <2>3. ProgressAddsUp'  BY <1>1, <1>4 DEF ProgressAddsUp, Idle
  <2> QED  BY <1>2, <2>2, <2>3 DEF Adds
<1>5. (~force /\ Cached(ps)) \/ ~(~force /\ Cached(ps))
  OBVIOUS
<1> QED  BY <1>3, <1>4, <1>5 DEF Start

LEMMA FailsAdds ==
  ASSUME IInv, Adds, Fails
  PROVE  Counted' /\ ProgressAddsUp'
<1> DEFINE a == progress.failed + 1
<1>1. progress' = [progress EXCEPT !.state = "error", !.failed = a] /\ run'.stage = "none"
  BY DEF Fails, NoRun
<1> HIDE DEF a
<1>2. /\ progress'.state = "error" /\ progress'.completed = progress.completed
      /\ progress'.total = progress.total
  BY <1>1, ProgressCounts DEF IInv, Progress
<1> QED  BY <1>1, <1>2 DEF Adds, Counted, Fetching, ProgressAddsUp

LEMMA AddsStep == IInv /\ Adds /\ [Next]_vars => Adds'
<1> SUFFICES ASSUME IInv, Adds, [Next]_vars PROVE Adds'
  OBVIOUS
<1>0. IInv'  BY StepHolds
<1>1. CASE Redeclare \/ Expire \/ Shutdown \/ UNCHANGED vars
  <2>1. UNCHANGED <<run, progress, pool>>
    BY <1>1 DEF Redeclare, Expire, Shutdown, vars
  <2> QED  BY <2>1 DEF Adds, OnePlace, Counted, ProgressAddsUp, Fetching, Gone, UnderWay, pool
<1>2. CASE Restart
  <2>1. OnePlace'  BY <1>2, EmptyIsOnePlace DEF Restart
  <2>2. Counted' /\ ProgressAddsUp'
    BY <1>2 DEF Restart, NoRun, Idle, Counted, Fetching, ProgressAddsUp
  <2> QED  BY <2>1, <2>2 DEF Adds
<1>3. CASE Request \/ Tick
  <2>1. declared \subseteq Packages  BY DEF IInv, TypeOK
  <2>2. PICK ps \in SUBSET Packages, force \in BOOLEAN : Start(ps, force)
    BY <1>3, <2>1 DEF Request, Tick
  <2> QED  BY <2>2, StartAdds
<1>4. CASE Query
  <2>1. Counted' /\ progress'.state = "running"
    BY <1>4, QueryCounted DEF Adds, IInv, TypeOK, Query
  <2>2. OnePlace'  BY <1>4 DEF Query, Adds, OnePlace, pool
  <2> QED  BY <1>0, <2>1, <2>2, RunningAdds DEF Adds
<1>5. CASE StartFetch
  <2>1. OnePlace' /\ Counted' /\ progress'.state = "running"
    BY <1>5, StartFetchCounted DEF Adds, IInv, TypeOK, StartFetch
  <2> QED  BY <1>0, <2>1, RunningAdds DEF Adds
<1>6. CASE CloseJobs \/ \E w \in Workers : Worker(w)
  <2>1. /\ OnePlace' /\ UNCHANGED <<run, progress, fetched, failed>>
        /\ \A id \in run.ids : UnderWay(id)' = UnderWay(id)
    BY <1>6, Moves DEF Adds
  <2>2. Gone' = Gone  BY <2>1 DEF Gone
  <2> QED  BY <2>1, <2>2 DEF Adds, Counted, Fetching, ProgressAddsUp
<1>7. CASE Collect
  <2>1. OnePlace' /\ Counted'  BY <1>7, Collected
  <2>2. progress'.state = "running"
    <3>1. run.stage = "fetch" /\ run' = run
      BY <1>7 DEF Collect, IInv, PoolOfRun
    <3> QED  BY <1>0, <3>1 DEF IInv, TypeOK
  <2> QED  BY <1>0, <2>1, <2>2, RunningAdds DEF Adds
<1>8. CASE CollectEnds \/ Write
  <2>1. /\ Fetching /\ Fetching' /\ run'.ids = run.ids /\ run'.packages = run.packages
        /\ run'.stage # "query" /\ UNCHANGED <<pool, progress>>
    BY <1>8 DEF CollectEnds, Write, Fetching, IInv, TypeOK, Runs
  <2>2. Gone' = Gone  BY <2>1 DEF Gone, UnderWay, pool
  <2> QED  BY <2>1, <2>2 DEF Adds, OnePlace, Counted, ProgressAddsUp, pool
<1>9. CASE QueryFails
  <2>1. OnePlace'  BY <1>9 DEF QueryFails, Adds, OnePlace, pool
  <2> QED  BY <1>9, <2>1, FailsAdds DEF QueryFails, Adds
<1>10. CASE WriteFails
  <2>1. OnePlace'  BY <1>10, EmptyIsOnePlace DEF WriteFails
  <2> QED  BY <1>10, <2>1, FailsAdds DEF WriteFails, Adds
<1>11. CASE Report
  <2>1. OnePlace' /\ ProgressAddsUp'  BY <1>11, EmptyIsOnePlace, ReportAdds DEF Report
  <2>2. Counted'  BY <1>11 DEF Report, NoRun, Counted, Fetching
  <2> QED  BY <2>1, <2>2 DEF Adds
<1> QED  BY <1>1, <1>2, <1>3, <1>4, <1>5, <1>6, <1>7, <1>8, <1>9, <1>10, <1>11
         DEF Next, Refresh

LEMMA InitAdds == Init => Adds
BY DEF Init, Adds, OnePlace, Counted, ProgressAddsUp, NoRun, Idle, Fetching, NoJob, Exited

-----------------------------------------------------------------------------
(* The theorems, of the refresh beside which findings are asked for.       *)

LEMMA FindingsStep == IInv /\ [FindingsNext]_<<vars, answer>> => IInv'
<1>1. [FindingsNext]_<<vars, answer>> => [Next]_vars
  BY DEF FindingsNext, Findings, Match
<1> QED  BY <1>1, StepHolds

LEMMA Holds == FindingsSpec => []IInv
<1>1. FindingsInit => IInv  BY InitHolds DEF FindingsInit
<1> QED  BY <1>1, FindingsStep, PTL DEF FindingsSpec

(* Every state is of its types, and the progress says "running" exactly    *)
(* while a run is under way (dependencies/advisories.go).                  *)
THEOREM TypesHold == FindingsSpec => []TypeOK
<1>1. IInv => TypeOK  BY DEF IInv
<1> QED  BY <1>1, Holds, PTL

(* A snapshot that does not say "partial" has every advisory of its        *)
(* packages, whichever workers of fetchAdvisories gave up, and when.       *)
THEOREM CompleteSnapshotsAreWhole == FindingsSpec => []CompleteIsWhole
<1>1. IInv => CompleteIsWhole  BY DEF IInv
<1> QED  BY <1>1, Holds, PTL

(* A declaration that is checked has an exact version.                     *)
LEMMA CheckedIsExact ==
  ASSUME NEW D \in Inventories, NEW d \in Checked(D)
  PROVE  d \in D /\ d.known = "exact" /\ d.version \in Nat /\ d.package \in Packages
BY InventoriesAssumption DEF Checked, Valid, Versioned, Covered

LEMMA EntriesTyped ==
  ASSUME NEW id \in Advisories, NEW p \in Packages, NEW k \in DOMAIN Affected[id][p]
  PROVE  Affected[id][p][k] \in AffectedType
<1>1. Affected[id][p] \in Seq(AffectedType)  BY AffectedAssumption
<1> HIDE DEF AffectedType
<1> QED  BY <1>1

(* buildFindings: where a range ends before it is introduced again, a      *)
(* ready answer has every advisory that affects a declaration, with the    *)
(* location of the declaration.                                            *)
THEOREM ReadyAnswersAreClean == ASSUME RangesEnd PROVE FindingsSpec => []ReadyIsClean
<1>1. FindingsInit => ReadyIsClean
  BY DEF FindingsInit, ReadyIsClean, NoAnswer
<1>2. ASSUME IInv, ReadyIsClean, [FindingsNext]_<<vars, answer>> PROVE ReadyIsClean'
  <2>1. CASE UNCHANGED answer
    BY <1>2, <2>1 DEF ReadyIsClean
  <2>2. CASE Match \/ answer' = NoAnswer
    BY <2>2 DEF Match, ReadyIsClean, NoAnswer
  <2>3. CASE Findings
    <3>1. PICK D \in Inventories : answer' = BuildFindings(D)
      BY <2>3 DEF Findings
    <3>2. /\ answer'.declarations = D /\ answer'.state = State(D)
          /\ answer'.findings = IF snapshot.exists THEN Deduplicated(D) ELSE {}
      BY <3>1 DEF BuildFindings
    <3> SUFFICES ASSUME State(D) = "ready",
                        NEW d \in D, NEW id \in Osv[d.package] \ Withdrawn,
                        d.known = "exact", IsAffected(d, id)
                 PROVE  \E f \in answer'.findings :
                          f.group = Group(d, id) /\ d.location \in f.occurrences
      BY <3>2 DEF ReadyIsClean
    <3>3. Checked(D) = D /\ snapshot.exists /\ ~snapshot.partial
      BY DEF State, SnapshotState
    <3>4. d.package \in snapshot.packages /\ d.package \in Packages /\ d.version \in Nat
      BY <3>3, CheckedIsExact DEF Checked
    <3>5. snapshot.ids = Advised(snapshot.packages)
      BY <1>2, <3>3 DEF IInv, CompleteIsWhole
    <3>6. id \in snapshot.ids \ Withdrawn /\ id \in Advisories
      BY <3>4, <3>5 DEF Advised
    <3>7. MatchingAffected(d, id)
      <4>1. PICK k \in DOMAIN Affected[id][d.package] :
              Affects(d.version, Affected[id][d.package][k])
        BY DEF IsAffected
      <4>2. Affected[id][d.package][k] \in AffectedType  BY <3>4, <3>6, EntriesTyped
      <4>3. \A n \in DOMAIN Affected[id][d.package][k].ranges :
              ~Affected[id][d.package][k].ranges[n].git
                => EndedBetween(Affected[id][d.package][k].ranges[n].events)
        BY <3>4, <3>6 DEF RangesEnd
      <4>4. AffectedVersion(d.version, Affected[id][d.package][k]).matched
        BY <3>4, <4>1, <4>2, <4>3, AffectedIsMatched
      <4> QED  BY <4>4 DEF MatchingAffected
    <3> DEFINE m == <<d, id>>
    <3>8. m \in Matches(D) /\ m[1] = d /\ m[2] = id
      BY <3>3, <3>6, <3>7 DEF Matches
    <3> HIDE DEF m
    <3>9. Finding(Group(d, id), D) \in answer'.findings
      BY <3>2, <3>3, <3>8 DEF Deduplicated
    <3>10. /\ Finding(Group(d, id), D).group = Group(d, id)
           /\ d.location \in Finding(Group(d, id), D).occurrences
      BY <3>8 DEF Finding
    <3> QED  BY <3>9, <3>10
  <2> QED  BY <1>2, <2>1, <2>2, <2>3 DEF FindingsNext
<1> QED  BY <1>1, <1>2, Holds, PTL DEF FindingsSpec

(* deduplicateFindings: where no version ends a range in two ways, every   *)
(* finding is of an advisory that affects the declarations it is shown at, *)
(* and no two declarations are merged that differ in repository, name or   *)
(* version.                                                                *)
THEOREM NoFalseFindings == ASSUME RangesEndOnce PROVE FindingsSpec => []FindingsAreTrue
<1>1. FindingsInit => FindingsAreTrue
  BY DEF FindingsInit, FindingsAreTrue, NoAnswer
<1>2. ASSUME IInv, FindingsAreTrue, [FindingsNext]_<<vars, answer>> PROVE FindingsAreTrue'
  <2>1. CASE UNCHANGED answer
    BY <1>2, <2>1 DEF FindingsAreTrue
  <2>2. CASE Match \/ answer' = NoAnswer
    BY <2>2 DEF Match, FindingsAreTrue, NoAnswer
  <2>3. CASE Findings
    <3>1. PICK D \in Inventories : answer' = BuildFindings(D)
      BY <2>3 DEF Findings
    <3>2. answer'.declarations = D /\ answer'.findings \subseteq Deduplicated(D)
      BY <3>1 DEF BuildFindings
    <3> SUFFICES ASSUME NEW f \in Deduplicated(D)
                 PROVE  /\ f.group.advisory \notin Withdrawn /\ f.occurrences # {}
                        /\ \A l \in f.occurrences : \E d \in D :
                             /\ d.location = l /\ d.known = "exact" /\ d.package \in Packages
                             /\ Group(d, f.group.advisory) = f.group
                             /\ IsAffected(d, f.group.advisory)
      BY <3>2 DEF FindingsAreTrue
    <3>3. PICK m \in Matches(D) : f = Finding(Group(m[1], m[2]), D)
      BY DEF Deduplicated
    <3>4. /\ f.group = Group(m[1], m[2])
          /\ f.occurrences = {n[1].location : n \in {x \in Matches(D) : Group(x[1], x[2]) = f.group}}
      BY <3>3 DEF Finding
    <3>5. f.group.advisory = m[2] /\ m[2] \notin Withdrawn
      BY <3>4 DEF Group, Matches
    <3>6. m[1].location \in f.occurrences  BY <3>4
    <3>7. ASSUME NEW l \in f.occurrences
          PROVE  \E d \in D : /\ d.location = l /\ d.known = "exact" /\ d.package \in Packages
                              /\ Group(d, f.group.advisory) = f.group
                              /\ IsAffected(d, f.group.advisory)
      <4>1. PICK n \in Matches(D) : n[1].location = l /\ Group(n[1], n[2]) = f.group
        BY <3>4
      <4>2. n[2] = f.group.advisory  BY <4>1 DEF Group
      <4>3. n[1] \in Checked(D) /\ n[2] \in snapshot.ids /\ MatchingAffected(n[1], n[2])
        BY DEF Matches
      <4>4. n[1] \in D /\ n[1].known = "exact" /\ n[1].version \in Nat /\ n[1].package \in Packages
        BY <4>3, CheckedIsExact
      <4>5. n[2] \in Advisories  BY <1>2, <4>3 DEF IInv, TypeOK, Snapshots
      <4>6. IsAffected(n[1], n[2])
        <5> DEFINE d == n[1]
                   id == n[2]
        <5> HIDE DEF d, id
        <5>1. d.version \in Nat /\ d.package \in Packages /\ id \in Advisories
          BY <4>4, <4>5 DEF d, id
        <5>2. PICK k \in DOMAIN Affected[id][d.package] :
                AffectedVersion(d.version, Affected[id][d.package][k]).matched
          BY <4>3 DEF MatchingAffected, d, id
        <5>3. Affected[id][d.package][k] \in AffectedType  BY <5>1, EntriesTyped
        <5>4. \A x \in DOMAIN Affected[id][d.package][k].ranges :
                ~Affected[id][d.package][k].ranges[x].git
                  => OneEndEach(Affected[id][d.package][k].ranges[x].events)
          BY <5>1 DEF RangesEndOnce
        <5>5. Affects(d.version, Affected[id][d.package][k])
          BY <5>1, <5>2, <5>3, <5>4, MatchedIsAffected
        <5> QED  BY <5>5 DEF IsAffected, d, id
      <4> QED  BY <4>1, <4>2, <4>4, <4>6
    <3> QED  BY <3>5, <3>6, <3>7
  <2> QED  BY <1>2, <2>1, <2>2, <2>3 DEF FindingsNext
<1> QED  BY <1>1, <1>2, Holds, PTL DEF FindingsSpec

(* The answer to a question about one advisory.                            *)
Answered ==
  answer.of = "match" =>
    /\ answer.version \in Nat /\ answer.affected \in AffectedType
    /\ answer.result = AffectedVersion(answer.version, answer.affected)

(* What RangesAreExact says, of any version and advisory.                  *)
LEMMA ResultIsExact ==
  ASSUME NEW v \in Nat, NEW affected \in AffectedType,
         \A k \in DOMAIN affected.ranges : Regular(affected.ranges[k].events),
         NEW result, result = AffectedVersion(v, affected)
  PROVE  /\ result.matched <=> Affects(v, affected)
         /\ result.fixed # NoFix /\ affected.versions = {} /\ Len(affected.ranges) = 1 =>
              /\ v < result.fixed
              /\ ~Affects(result.fixed, affected)
              /\ \A u \in v..(result.fixed - 1) : Affects(u, affected)
<1> DEFINE E(k) == affected.ranges[k].events
           In(k) == EventsContain(v, SortedOSVEvents(E(k)))
           hits == {k \in DOMAIN affected.ranges : ~affected.ranges[k].git /\ In(k).matched}
<1>1. /\ result.matched <=> v \in affected.versions \/ hits # {}
      /\ v \notin affected.versions /\ result.fixed # NoFix => \E k \in hits : result.fixed = In(k).fixed
  BY AffectedIsAny
<1>2. ASSUME NEW k \in DOMAIN affected.ranges
      PROVE  E(k) \in Seq(EventType) /\ EndedBetween(E(k)) /\ OneEndEach(E(k))
  BY EventsOfRange DEF Regular
<1>4. result.matched <=> Affects(v, affected)
  BY AffectedIsMatched, MatchedIsAffected DEF Regular
<1>5. ASSUME result.fixed # NoFix, affected.versions = {}, Len(affected.ranges) = 1
      PROVE  /\ v < result.fixed
             /\ ~Affects(result.fixed, affected)
             /\ \A u \in v..(result.fixed - 1) : Affects(u, affected)
  <2>1. DOMAIN affected.ranges = {1}
    <3>1. affected.ranges \in Seq([git : BOOLEAN, events : Seq(EventType)])  BY DEF AffectedType
    <3> QED  BY <1>5, <3>1
  <2>2. 1 \in hits /\ result.fixed = In(1).fixed
    <3> HIDE DEF In
    <3> QED  BY <1>1, <1>5, <2>1
  <2>3. ~affected.ranges[1].git /\ 1 \in DOMAIN affected.ranges  BY <2>2
  <2>4. ASSUME NEW u PROVE Affects(u, affected) <=> Covers(u, E(1))
    BY <1>5, <2>1, <2>3 DEF Affects
  <2>5. /\ result.fixed \in Nat /\ v < result.fixed /\ ~Covers(result.fixed, E(1))
        /\ \A u \in v..(result.fixed - 1) : Covers(u, E(1))
    <3>1. E(1) \in Seq(EventType) /\ OneEndEach(E(1))  BY <1>2, <2>3
    <3> HIDE DEF E
    <3> QED  BY <1>5, <2>2, <3>1, FixIsNearest
  <2> HIDE DEF E
  <2> QED  BY <2>4, <2>5
<1> QED  BY <1>4, <1>5

(* affectedVersion, eventsContain: for every list of events, in whichever  *)
(* order, whose ranges end before they are introduced again, and once, the *)
(* boundaries are the documented ones, and the fix that is offered is the  *)
(* nearest version outside of the range.                                   *)
THEOREM RangesAreRead == FindingsSpec => []RangesAreExact
<1>1. FindingsInit => Answered
  BY DEF FindingsInit, Answered, NoAnswer
<1>2. ASSUME Answered, [FindingsNext]_<<vars, answer>> PROVE Answered'
  <2>1. CASE UNCHANGED answer
    BY <1>2, <2>1 DEF Answered
  <2>2. CASE Match
    <3>1. PICK v \in Versions, affected \in Questions :
            answer' = [of |-> "match", version |-> v, affected |-> affected,
                       result |-> AffectedVersion(v, affected)]
      BY <2>2 DEF Match
    <3>2. v \in Nat /\ affected \in AffectedType  BY QuestionsAssumption
    <3> QED  BY <3>1, <3>2 DEF Answered
  <2>3. CASE Findings
    <3>1. answer'.of = "findings"  BY <2>3 DEF Findings, BuildFindings
    <3> QED  BY <3>1 DEF Answered
  <2>4. CASE answer' = NoAnswer
    BY <2>4 DEF Answered, NoAnswer
  <2> QED  BY <1>2, <2>1, <2>2, <2>3, <2>4 DEF FindingsNext
<1>3. Answered => RangesAreExact
  BY ResultIsExact DEF Answered, RangesAreExact
<1> QED  BY <1>1, <1>2, <1>3, PTL DEF FindingsSpec

(* updateAdvisoryProgress: the progress that the user is shown adds up, in *)
(* every state and whichever fetches failed; a run that ends in part says  *)
(* of every package and identifier whether it was completed, failed or     *)
(* skipped, so the max of runAdvisoryRefresh never cuts a negative count.  *)
THEOREM ProgressIsTrue == FindingsSpec => []ProgressAddsUp
<1>1. FindingsInit => IInv /\ Adds  BY InitHolds, InitAdds DEF FindingsInit
<1>2. IInv /\ Adds /\ [FindingsNext]_<<vars, answer>> => (IInv /\ Adds)'
  <2>1. [FindingsNext]_<<vars, answer>> => [Next]_vars
    BY DEF FindingsNext, Findings, Match
  <2> QED  BY <2>1, StepHolds, AddsStep
<1>3. IInv /\ Adds => ProgressAddsUp  BY DEF Adds
<1> QED  BY <1>1, <1>2, <1>3, PTL DEF FindingsSpec
=============================================================================
