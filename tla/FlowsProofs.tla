------------------------------ MODULE FlowsProofs ------------------------------
(***************************************************************************)
(* Proofs about Flows: the two pointers find exactly the windows there     *)
(* are, the sampled log keeps a campaign, the formula fires only where the *)
(* report counts enough scanners, and episodes are distinct, for captures  *)
(* of every length and every number of hosts and destinations.             *)
(***************************************************************************)
EXTENDS Flows, FiniteSetTheorems, SequenceTheorems, WellFoundedInduction, TLAPS

(* A set of natural numbers has a least element. *)
LEMMA LeastNatural ==
  ASSUME NEW V, V \subseteq Nat, V # {}
  PROVE  \E x \in V : \A y \in V : x <= y
<1>1. PICK x \in V : \A y \in V : ~ (<<y, x>> \in OpToRel(<, Nat))
  BY NatLessThanWellFounded, WFMin
<1>2. \A y \in V : ~ (y < x)
  BY <1>1 DEF OpToRel
<1>3. QED
  BY <1>2

(* A bounded one has a greatest. *)
LEMMA GreatestNatural ==
  ASSUME NEW n \in Nat, NEW V, V \subseteq 1..n, V # {}
  PROVE  \E x \in V : \A y \in V : y <= x
<1> DEFINE U == {n - x : x \in V}
<1>1. U \subseteq Nat /\ U # {}
  <2>1. \A x \in V : x \in 1..n /\ n - x \in Nat
    OBVIOUS
  <2>2. PICK x \in V : TRUE
    OBVIOUS
  <2>3. n - x \in U
    OBVIOUS
  <2>4. QED
    BY <2>1, <2>3
<1>2. PICK u \in U : \A y \in U : u <= y
  <2> HIDE DEF U
  <2>1. QED
    BY <1>1, LeastNatural
<1>3. PICK x \in V : u = n - x
  BY <1>2
<1>4. ASSUME NEW y \in V
      PROVE  y <= x
  <2>1. n - x <= n - y
    BY <1>2, <1>3
  <2>2. QED
    BY <2>1
<1>5. QED
  BY <1>4

(* What holds of 0, and of each number up to n when it does of the last. *)
LEMMA Upwards ==
  ASSUME NEW n \in Nat, NEW V, 0 \in V, \A k \in 1..n : k - 1 \in V => k \in V
  PROVE  \A k \in 0..n : k \in V
<1> DEFINE Bad == (0..n) \ V
<1>1. SUFFICES ASSUME Bad # {}
               PROVE  FALSE
  OBVIOUS
<1>2. PICK m \in Bad : \A k \in Bad : m <= k
  <2>1. Bad \subseteq Nat
    OBVIOUS
  <2> HIDE DEF Bad
  <2>2. QED
    BY <1>1, <2>1, LeastNatural
<1>3. m \in 0..n /\ m \notin V /\ m # 0
  BY <1>2
<1>4. m \in 1..n /\ m - 1 \in 0..n /\ ~(m <= m - 1)
  BY <1>3
<1>5. m - 1 \in V
  BY <1>2, <1>4
<1>6. QED
  BY <1>3, <1>4, <1>5

(* A function that starts with b and whose every value follows from the last. *)
Recurs(f, n, b, F) ==
  f = [k \in 0..n |-> IF k = 0 THEN b ELSE F[<<f[k - 1], k>>]]

(* Such a function exists when its steps stay in some sets, T[k] after k of
   them. *)
LEMMA RecursionExists ==
  ASSUME NEW n \in Nat, NEW T, NEW b, NEW F,
         b \in T[0], \A k \in 1..n : \A a \in T[k - 1] : F[<<a, k>>] \in T[k]
  PROVE  \E f : Recurs(f, n, b, F) /\ \A k \in 0..n : f[k] \in T[k]
<1> DEFINE Good(m) == \E f : Recurs(f, m, b, F)
<1>1. Good(0)
  <2> DEFINE g == [k \in 0..0 |-> b]
             h == [k \in 0..0 |-> IF k = 0 THEN b ELSE F[<<g[k - 1], k>>]]
  <2>1. \A k \in 0..0 : k = 0
    OBVIOUS
  <2>2. \A k \in 0..0 : g[k] = h[k]
    BY <2>1
  <2>3. g = h
    BY <2>2
  <2> HIDE DEF g
  <2>4. Recurs(g, 0, b, F)
    BY <2>3 DEF Recurs
  <2>5. QED
    BY <2>4
<1>2. ASSUME NEW m \in 1..n, Good(m - 1)
      PROVE  Good(m)
  <2>1. PICK f : Recurs(f, m - 1, b, F)
    BY <1>2
  <2>2. m \in Nat /\ m > 0 /\ m - 1 \in Nat
    OBVIOUS
  <2> DEFINE g == [k \in 0..m |-> IF k = m THEN F[<<f[m - 1], m>>] ELSE f[k]]
             h == [k \in 0..m |-> IF k = 0 THEN b ELSE F[<<g[k - 1], k>>]]
  <2>3. \A k \in 0..(m - 1) : f[k] = IF k = 0 THEN b ELSE F[<<f[k - 1], k>>]
    BY <2>1 DEF Recurs
  <2>4. ASSUME NEW k \in 0..m
        PROVE  g[k] = h[k]
    <3>1. CASE k = 0
      <4>1. 0 \in 0..(m - 1) /\ k # m
        BY <2>2, <3>1
      <4>2. f[0] = b
        BY <2>3, <4>1
      <4>3. QED
        BY <3>1, <4>1, <4>2
    <3>2. CASE k # 0
      <4>1. k - 1 \in 0..(m - 1) /\ g[k - 1] = f[k - 1]
        BY <2>2, <3>2
      <4>2. CASE k = m
        BY <2>2, <4>1, <4>2
      <4>3. CASE k # m
        <5>1. k \in 0..(m - 1) /\ g[k] = f[k]
          BY <2>2, <4>3
        <5>2. f[k] = F[<<f[k - 1], k>>]
          BY <2>3, <3>2, <5>1
        <5>3. QED
          BY <3>2, <4>1, <5>1, <5>2
      <4>4. QED
        BY <4>2, <4>3
    <3>3. QED
      BY <3>1, <3>2
  <2>5. g = h
    BY <2>4
  <2> HIDE DEF g
  <2>6. Recurs(g, m, b, F)
    BY <2>5 DEF Recurs
  <2>7. QED
    BY <2>6
<1> HIDE DEF Good
<1>3. Good(n)
  <2> DEFINE V == {m \in 0..n : Good(m)}
  <2>1. 0 \in V /\ \A k \in 1..n : k - 1 \in V => k \in V
    BY <1>1, <1>2
  <2> HIDE DEF V
  <2>2. n \in V
    BY <2>1, Upwards
  <2>3. QED
    BY <2>2 DEF V
<1>4. PICK f : Recurs(f, n, b, F)
  BY <1>3 DEF Good
<1>5. \A k \in 0..n : f[k] = IF k = 0 THEN b ELSE F[<<f[k - 1], k>>]
  BY <1>4 DEF Recurs
<1>6. \A k \in 0..n : f[k] \in T[k]
  <2> DEFINE V == {k \in 0..n : f[k] \in T[k]}
  <2>1. 0 \in V
    <3>1. 0 \in 0..n
      OBVIOUS
    <3>2. f[0] = b
      BY <1>5, <3>1
    <3>3. QED
      BY <3>1, <3>2
  <2>2. ASSUME NEW k \in 1..n, k - 1 \in V
        PROVE  k \in V
    <3>1. f[k - 1] \in T[k - 1] /\ k \in 0..n /\ f[k] = F[<<f[k - 1], k>>]
      BY <1>5, <2>2
    <3>2. QED
      BY <3>1
  <2> HIDE DEF V
  <2>3. \A k \in 0..n : k \in V
    BY <2>1, <2>2, Upwards
  <2>4. QED
    BY <2>3 DEF V
<1>7. QED
  BY <1>4, <1>6
-----------------------------------------------------------------------------
(* The image of a finite set is finite, and no larger. *)
LEMMA ImageFinite ==
  ASSUME NEW S, IsFiniteSet(S), NEW f
  PROVE  /\ IsFiniteSet({f[a] : a \in S})
         /\ Cardinality({f[a] : a \in S}) <= Cardinality(S)
<1> DEFINE T == {f[a] : a \in S}
           g == [a \in S |-> f[a]]
<1>1. g \in Surjection(S, T)
  BY DEF Surjection
<1> HIDE DEF g, T
<1>2. IsFiniteSet(T) /\ Cardinality(T) <= Cardinality(S)
  BY <1>1, FS_Surjection
<1>3. QED
  BY <1>2 DEF T

(* A function that tells the elements of a finite set apart keeps its size. *)
LEMMA ImageInjective ==
  ASSUME NEW S, IsFiniteSet(S), NEW f, \A a, b \in S : f[a] = f[b] => a = b
  PROVE  /\ IsFiniteSet({f[a] : a \in S})
         /\ Cardinality({f[a] : a \in S}) = Cardinality(S)
<1> DEFINE T == {f[a] : a \in S}
           g == [a \in S |-> f[a]]
<1>1. g \in [S -> T] /\ \A a \in S : g[a] = f[a]
  OBVIOUS
<1>2. \A t \in T : \E a \in S : f[a] = t
  OBVIOUS
<1> HIDE DEF g, T
<1>3. g \in Surjection(S, T) /\ g \in Injection(S, T)
  BY <1>1, <1>2 DEF Surjection, Injection, IsInjective
<1>4. IsFiniteSet(T) /\ Cardinality(T) = Cardinality(S)
  BY <1>3, FS_Surjection
<1>5. QED
  BY <1>4 DEF T

(* R puts the elements of S in one order. *)
Orders(R, S) ==
  /\ \A a \in S : <<a, a>> \notin R
  /\ \A a, b \in S : a # b => <<a, b>> \in R \/ <<b, a>> \in R
  /\ \A a, b, c \in S : <<a, b>> \in R /\ <<b, c>> \in R => <<a, c>> \in R

(* Ranked lists the elements of a finite set, each once and in order. *)
LEMMA RankedLists ==
  ASSUME NEW S, IsFiniteSet(S), NEW R, Orders(R, S)
  PROVE  /\ Cardinality(S) \in Nat
         /\ Ranked(S, R) \in [1..Cardinality(S) -> S]
         /\ \A a \in S : \E k \in 1..Cardinality(S) : Ranked(S, R)[k] = a
         /\ \A i, j \in 1..Cardinality(S) : i < j => <<Ranked(S, R)[i], Ranked(S, R)[j]>> \in R
<1> DEFINE n == Cardinality(S)
           below(a) == {b \in S : <<b, a>> \in R}
           rank == [a \in S |-> Cardinality(below(a)) + 1]
           has(k, a) == Cardinality(below(a)) = k - 1
           o == Ranked(S, R)
<1>1. n \in Nat
  BY FS_CardinalityType
<1>2. \A a \in S : IsFiniteSet(below(a)) /\ Cardinality(below(a)) \in Nat
  BY FS_Subset, FS_CardinalityType
<1>3. ASSUME NEW a \in S
      PROVE  Cardinality(below(a)) < n
  <2>1. below(a) \in SUBSET S /\ a \notin below(a) /\ below(a) # S
    BY DEF Orders
  <2>2. Cardinality(below(a)) <= n /\ Cardinality(below(a)) # n
    BY <2>1, FS_Subset
  <2>3. QED
    BY <1>1, <1>2, <2>2
<1>4. ASSUME NEW a \in S, NEW b \in S, <<a, b>> \in R
      PROVE  rank[a] < rank[b]
  <2>1. below(a) \in SUBSET below(b) /\ a \in below(b) /\ a \notin below(a)
    BY <1>4 DEF Orders
  <2>2. Cardinality(below(a)) <= Cardinality(below(b)) /\ Cardinality(below(a)) # Cardinality(below(b))
    BY <1>2, <2>1, FS_Subset
  <2>3. QED
    BY <1>2, <2>2
<1>5. rank \in [S -> 1..n]
  <2> HIDE DEF below, n
  <2>1. \A a \in S : Cardinality(below(a)) + 1 \in 1..n
    BY <1>1, <1>2, <1>3
  <2>2. QED
    BY <2>1
<1>6. \A a \in S, k \in 1..n : Cardinality(below(a)) = k - 1 <=> rank[a] = k
  <2> HIDE DEF below, n
  <2>1. \A a \in S : rank[a] = Cardinality(below(a)) + 1
    OBVIOUS
  <2>2. QED
    BY <1>1, <1>2, <2>1
<1>7. o = [k \in 1..n |-> CHOOSE a \in S : has(k, a)]
  BY Zenon DEF Ranked
<1>8. \A k \in 1..n, a \in S : has(k, a) <=> rank[a] = k
  BY <1>6
<1> HIDE DEF n, below, rank, o, has
<1>9. ASSUME NEW a \in S, NEW b \in S, rank[a] = rank[b]
      PROVE  a = b
  <2>1. rank[a] \in Nat /\ rank[b] \in Nat
    BY <1>1, <1>5
  <2>2. ~(rank[a] < rank[b]) /\ ~(rank[b] < rank[a])
    BY <1>9, <2>1
  <2>3. <<a, b>> \notin R /\ <<b, a>> \notin R
    BY <1>4, <2>2
  <2>4. QED
    BY <2>3 DEF Orders
<1>10. \A k \in 1..n : \E a \in S : rank[a] = k
  <2>1. rank \in Injection(S, 1..n)
    BY <1>5, <1>9 DEF Injection, IsInjective
  <2>2. IsFiniteSet(1..n) /\ Cardinality(1..n) = n
    BY <1>1, FS_Interval
  <2>3. Cardinality(S) = Cardinality(1..n)
    BY <2>2 DEF n
  <2>4. rank \in Surjection(S, 1..n)
    BY <2>1, <2>2, <2>3, FS_Injection
  <2>5. QED
    BY <2>4 DEF Surjection
<1>11. \A k \in 1..n : o[k] \in S /\ rank[o[k]] = k
  <2> SUFFICES ASSUME NEW k \in 1..n
               PROVE  o[k] \in S /\ rank[o[k]] = k
    OBVIOUS
  <2>1. \E a \in S : has(k, a)
    BY <1>8, <1>10
  <2>2. o[k] = CHOOSE a \in S : has(k, a)
    BY <1>7
  <2>3. o[k] \in S /\ has(k, o[k])
    BY <2>1, <2>2
  <2>4. QED
    BY <1>8, <2>3
<1>12. o \in [1..n -> S]
  BY <1>7, <1>11
<1>13. \A a \in S : \E k \in 1..n : o[k] = a
  BY <1>5, <1>9, <1>11
<1>14. ASSUME NEW i \in 1..n, NEW j \in 1..n, i < j
       PROVE  <<o[i], o[j]>> \in R
  <2>1. o[i] # o[j]
    BY <1>11, <1>14
  <2>2. <<o[j], o[i]>> \notin R
    <3>1. SUFFICES ASSUME <<o[j], o[i]>> \in R
                   PROVE  FALSE
      OBVIOUS
    <3>2. rank[o[j]] < rank[o[i]]
      BY <1>4, <1>11, <3>1
    <3>3. QED
      BY <1>1, <1>11, <1>14, <3>2
  <2>3. QED
    BY <1>11, <2>1, <2>2 DEF Orders
<1>15. QED
  BY <1>1, <1>12, <1>13, <1>14 DEF n, o
-----------------------------------------------------------------------------
Flow == [src : Hosts, dst : Dsts, ts : Nat, timed : BOOLEAN, failed : BOOLEAN]

(* ev lists the flows of S by time: at which position each of them is in the
   capture. *)
Lists(c, ev, order, S) ==
  /\ Cardinality(S) \in Nat
  /\ ev \in Seq(Flow) /\ Len(ev) = Cardinality(S)
  /\ order \in [1..Len(ev) -> S]
  /\ \A a \in S : \E k \in 1..Len(ev) : order[k] = a
  /\ \A i, j \in 1..Len(ev) : order[i] = order[j] => i = j
  /\ \A k \in 1..Len(ev) : ev[k] = c[order[k]]
  /\ \A i, j \in 1..Len(ev) : i <= j => ev[i].ts <= ev[j].ts

(* Sorted lists the flows of any set of positions by time. *)
LEMMA SortedLists ==
  ASSUME NEW c \in Seq(Flow), NEW S \in SUBSET DOMAIN c
  PROVE  IsFiniteSet(S) /\ \E order : Lists(c, Sorted(c, S), order, S)
<1> DEFINE n == Cardinality(S)
           R == ByTime(c, S)
           o == Ranked(S, R)
           ev == [k \in 1..n |-> c[o[k]]]
<1>1. DOMAIN c = 1..Len(c) /\ Len(c) \in Nat /\ S \subseteq Nat
  OBVIOUS
<1>2. IsFiniteSet(S)
  <2>1. IsFiniteSet(1..Len(c)) /\ S \in SUBSET (1..Len(c))
    BY <1>1, FS_Interval
  <2>2. QED
    BY <2>1, FS_Subset
<1>3. \A i \in S : c[i] \in Flow /\ c[i].ts \in Nat
  <2>1. \A i \in S : c[i] \in Flow
    OBVIOUS
  <2>2. QED
    BY <2>1 DEF Flow
<1>4. \A i, j \in S : <<i, j>> \in R <=> \/ c[i].ts < c[j].ts
                                         \/ c[i].ts = c[j].ts /\ i < j
  <2> SUFFICES ASSUME NEW i \in S, NEW j \in S
               PROVE  <<i, j>> \in R <=> \/ c[i].ts < c[j].ts
                                         \/ c[i].ts = c[j].ts /\ i < j
    OBVIOUS
  <2> DEFINE p == <<i, j>>
  <2>1. p \in S \X S /\ p[1] = i /\ p[2] = j
    OBVIOUS
  <2> HIDE DEF p
  <2>2. p \in R <=> \/ c[i].ts < c[j].ts
                    \/ c[i].ts = c[j].ts /\ i < j
    BY <2>1 DEF ByTime
  <2>3. QED
    BY <2>2 DEF p
<1> HIDE DEF R
<1>5. Orders(R, S)
  <2>1. \A a \in S : <<a, a>> \notin R
    BY <1>1, <1>3, <1>4
  <2>2. \A a, b \in S : a # b => <<a, b>> \in R \/ <<b, a>> \in R
    BY <1>1, <1>3, <1>4
  <2>3. \A a, b, e \in S : <<a, b>> \in R /\ <<b, e>> \in R => <<a, e>> \in R
    BY <1>1, <1>3, <1>4
  <2>4. QED
    BY <2>1, <2>2, <2>3 DEF Orders
<1>6. /\ n \in Nat /\ o \in [1..n -> S]
      /\ \A a \in S : \E k \in 1..n : o[k] = a
      /\ \A i, j \in 1..n : i < j => <<o[i], o[j]>> \in R
  BY <1>2, <1>5, RankedLists
<1>7. Sorted(c, S) = ev
  BY <1>6 DEF Sorted, R
<1> HIDE DEF n, o
<1>8. \A i, j \in 1..n : o[i] = o[j] => i = j
  <2> SUFFICES ASSUME NEW i \in 1..n, NEW j \in 1..n, o[i] = o[j]
               PROVE  i = j
    OBVIOUS
  <2>1. <<o[i], o[j]>> \notin R /\ <<o[j], o[i]>> \notin R
    BY <1>5, <1>6 DEF Orders
  <2>2. ~(i < j) /\ ~(j < i)
    BY <1>6, <2>1
  <2>3. QED
    BY <1>6, <2>2
<1>9. \A k \in 1..n : ev[k] = c[o[k]] /\ ev[k] \in Flow
  BY <1>3, <1>6
<1>10. ev \in Seq(Flow) /\ Len(ev) = n
  BY <1>6, <1>9
<1> HIDE DEF ev
<1>11. ASSUME NEW i \in 1..n, NEW j \in 1..n, i <= j
       PROVE  ev[i].ts <= ev[j].ts
  <2>1. CASE i = j
    BY <1>3, <1>6, <1>9, <2>1
  <2>2. CASE i # j
    <3>1. i < j
      BY <1>6, <1>11, <2>2
    <3>2. <<o[i], o[j]>> \in R /\ o[i] \in S /\ o[j] \in S
      BY <1>6, <3>1
    <3>3. QED
      BY <1>3, <1>4, <1>9, <3>2
  <2>3. QED
    BY <2>1, <2>2
<1>12. Lists(c, ev, o, S)
  BY <1>6, <1>8, <1>9, <1>10, <1>11 DEF Lists, n
<1>13. QED
  BY <1>2, <1>7, <1>12
-----------------------------------------------------------------------------
ByTimeSeq(ev) == ev \in Seq(Flow) /\ \A i, j \in 1..Len(ev) : i <= j => ev[i].ts <= ev[j].ts

(* Where the left pointer belongs when the right one is at k: before the first
   event up to k that is not older than W. *)
Cutoff(ev, W, k) ==
  IF k = 0 THEN {1}
  ELSE {l \in 1..k : \A j \in 1..k : l <= j <=> ev[k].ts <= ev[j].ts + W}

(* From there, the loop takes the pointer to where it belongs next. *)
LEMMA PointerStep ==
  ASSUME NEW ev, ByTimeSeq(ev), NEW W \in Nat, NEW k \in 1..Len(ev),
         NEW l \in Cutoff(ev, W, k - 1)
  PROVE  LeftOf(ev, l, ev[k].ts, W) \in Cutoff(ev, W, k)
<1> DEFINE n == Len(ev)
           stop(i) == /\ ev[k].ts <= ev[i].ts + W
                      /\ \A j \in l..(i - 1) : ev[k].ts > ev[j].ts + W
<1>1. n \in Nat /\ k \in Nat /\ k \in 1..n
  BY DEF ByTimeSeq
<1>2. \A i \in 1..n : ev[i].ts \in Nat
  <2>1. \A i \in 1..n : ev[i] \in Flow
    BY DEF ByTimeSeq
  <2>2. QED
    BY <2>1 DEF Flow
<1>3. \A i, j \in 1..n : i <= j => ev[i].ts <= ev[j].ts
  BY DEF ByTimeSeq
<1> HIDE DEF n
<1>4. l \in 1..k /\ \A j \in 1..(l - 1) : ev[k].ts > ev[j].ts + W
  <2>1. CASE k = 1
    BY <2>1 DEF Cutoff
  <2>2. CASE k # 1
    <3>1. /\ k - 1 \in 1..n /\ l \in 1..(k - 1)
          /\ \A j \in 1..(k - 1) : l <= j <=> ev[k - 1].ts <= ev[j].ts + W
      BY <1>1, <2>2 DEF Cutoff
    <3>2. ASSUME NEW j \in 1..(l - 1)
          PROVE  ev[k].ts > ev[j].ts + W
      <4>1. j \in 1..(k - 1) /\ j \in 1..n /\ ~(l <= j)
        BY <1>1, <3>1
      <4>2. ev[k - 1].ts > ev[j].ts + W
        BY <1>2, <3>1, <4>1
      <4>3. ev[k - 1].ts <= ev[k].ts
        BY <1>1, <1>3, <3>1
      <4>4. QED
        BY <1>1, <1>2, <3>1, <4>1, <4>2, <4>3
    <3>3. QED
      BY <1>1, <3>1, <3>2
  <2>3. QED
    BY <2>1, <2>2
<1>5. \E i \in l..n : stop(i)
  <2> DEFINE V == {i \in l..k : ev[k].ts <= ev[i].ts + W}
  <2>1. k \in V /\ V \subseteq Nat
    BY <1>1, <1>2, <1>4
  <2>2. PICK i \in V : \A j \in V : i <= j
    <3> HIDE DEF V
    <3>1. QED
      BY <2>1, LeastNatural
  <2>3. i \in l..n /\ i <= k /\ ev[k].ts <= ev[i].ts + W
    BY <1>1, <1>4, <2>2
  <2>4. ASSUME NEW j \in l..(i - 1)
        PROVE  ev[k].ts > ev[j].ts + W
    <3>1. j \in l..k /\ j \in 1..n /\ ~(i <= j)
      BY <1>1, <1>4, <2>3
    <3>2. j \notin V
      BY <2>2, <3>1
    <3>3. ~(ev[k].ts <= ev[j].ts + W)
      BY <3>1, <3>2
    <3>4. ev[k].ts \in Nat /\ ev[j].ts \in Nat /\ W \in Nat
      BY <1>1, <1>2, <3>1
    <3>5. QED
      BY <3>3, <3>4
  <2>5. QED
    BY <2>3, <2>4
<1> DEFINE i == LeftOf(ev, l, ev[k].ts, W)
<1>6. i = CHOOSE a \in l..n : stop(a)
  BY Zenon DEF LeftOf, n
<1> HIDE DEF i
<1>7. i \in l..n /\ stop(i)
  <2> HIDE DEF stop
  <2>1. QED
    BY <1>5, <1>6
<1>8. i \in 1..k
  <2>1. SUFFICES ASSUME i > k
                 PROVE  FALSE
    BY <1>1, <1>4, <1>7
  <2>2. k \in l..(i - 1)
    BY <1>1, <1>4, <1>7, <2>1
  <2>3. ev[k].ts > ev[k].ts + W
    BY <1>7, <2>2
  <2>4. QED
    BY <1>1, <1>2, <2>3
<1>9. ASSUME NEW j \in 1..k
      PROVE  i <= j <=> ev[k].ts <= ev[j].ts + W
  <2>1. j \in 1..n /\ i \in 1..n
    BY <1>1, <1>8
  <2>2. CASE i <= j
    <3>1. ev[i].ts <= ev[j].ts
      BY <1>3, <2>1, <2>2
    <3>2. QED
      BY <1>1, <1>2, <1>7, <2>1, <2>2, <3>1
  <2>3. CASE ~(i <= j)
    <3>1. ev[k].ts > ev[j].ts + W
      <4>1. CASE j < l
        BY <1>1, <1>4, <2>1, <4>1
      <4>2. CASE l <= j
        <5>1. j \in l..(i - 1)
          BY <1>1, <1>4, <1>7, <2>1, <2>3, <4>2
        <5>2. QED
          BY <1>7, <5>1
      <4>3. QED
        BY <1>1, <1>4, <4>1, <4>2
    <3>2. QED
      BY <1>1, <1>2, <2>1, <2>3, <3>1
  <2>4. QED
    BY <2>2, <2>3
<1>10. QED
  BY <1>1, <1>8, <1>9 DEF Cutoff, i

(* So the left pointer is always where it belongs. *)
LEMMA PointersExact ==
  ASSUME NEW ev, ByTimeSeq(ev), NEW W \in Nat
  PROVE  \A k \in 0..Len(ev) : Lefts(ev, W)[k] \in Cutoff(ev, W, k)
<1> DEFINE n == Len(ev)
           T == [k \in 0..n |-> Cutoff(ev, W, k)]
           F == [z \in Nat \X (1..n) |-> LeftOf(ev, z[1], ev[z[2]].ts, W)]
           Acc(f) == f = [k \in 0..n |-> IF k = 0 THEN 1 ELSE LeftOf(ev, f[k - 1], ev[k].ts, W)]
           g == CHOOSE f : Acc(f)
<1>1. n \in Nat
  BY DEF ByTimeSeq
<1>2. Lefts(ev, W) = g
  BY Zenon DEF Lefts
<1>3. \A k \in 0..n : T[k] = Cutoff(ev, W, k) /\ T[k] \subseteq Nat
  BY <1>1 DEF Cutoff
<1>4. 1 \in T[0] /\ 0 \in 0..n
  BY <1>1, <1>3 DEF Cutoff
<1>5. \A k \in 1..n : \A l \in T[k - 1] : LeftOf(ev, l, ev[k].ts, W) \in T[k]
  <2> SUFFICES ASSUME NEW k \in 1..n, NEW l \in T[k - 1]
               PROVE  LeftOf(ev, l, ev[k].ts, W) \in T[k]
    OBVIOUS
  <2>1. k \in 0..n /\ k - 1 \in 0..n /\ l \in Cutoff(ev, W, k - 1)
    BY <1>1, <1>3
  <2>2. LeftOf(ev, l, ev[k].ts, W) \in Cutoff(ev, W, k)
    BY <2>1, PointerStep
  <2>3. QED
    BY <1>3, <2>1, <2>2
<1>6. \A k \in 1..n : \A l \in Nat : F[<<l, k>>] = LeftOf(ev, l, ev[k].ts, W)
  OBVIOUS
<1> HIDE DEF T, F, n
<1>7. \E f : Acc(f)
  <2>1. \A k \in 1..n : \A l \in T[k - 1] : F[<<l, k>>] \in T[k]
    <3> SUFFICES ASSUME NEW k \in 1..n, NEW l \in T[k - 1]
                 PROVE  F[<<l, k>>] \in T[k]
      OBVIOUS
    <3>1. k - 1 \in 0..n
      BY <1>1
    <3>2. l \in Nat
      BY <1>3, <3>1
    <3>3. QED
      BY <1>5, <1>6, <3>2
  <2>2. PICK f : Recurs(f, n, 1, F) /\ \A k \in 0..n : f[k] \in T[k]
    BY <1>1, <1>4, <2>1, RecursionExists
  <2> DEFINE h == [k \in 0..n |-> IF k = 0 THEN 1 ELSE F[<<f[k - 1], k>>]]
             e == [k \in 0..n |-> IF k = 0 THEN 1 ELSE LeftOf(ev, f[k - 1], ev[k].ts, W)]
  <2>3. ASSUME NEW k \in 0..n
        PROVE  h[k] = e[k]
    <3>1. CASE k = 0
      BY <3>1
    <3>2. CASE k # 0
      <4>1. k \in 1..n /\ k - 1 \in 0..n
        BY <1>1, <3>2
      <4>2. f[k - 1] \in Nat
        BY <1>3, <2>2, <4>1
      <4>3. F[<<f[k - 1], k>>] = LeftOf(ev, f[k - 1], ev[k].ts, W)
        BY <1>6, <4>1, <4>2
      <4>4. QED
        BY <3>2, <4>3
    <3>3. QED
      BY <3>1, <3>2
  <2>4. h = e
    BY <2>3
  <2>5. f = h
    BY <2>2 DEF Recurs
  <2> HIDE DEF h
  <2>6. Acc(f)
    BY <2>4, <2>5
  <2> HIDE DEF Acc
  <2>7. QED
    BY <2>6
<1>8. Acc(g)
  <2> HIDE DEF Acc
  <2>1. QED
    BY <1>7
<1> HIDE DEF g
<1>9. \A k \in 0..n : g[k] = IF k = 0 THEN 1 ELSE LeftOf(ev, g[k - 1], ev[k].ts, W)
  BY <1>8
<1> DEFINE V == {k \in 0..n : g[k] \in T[k]}
<1>10. 0 \in V
  BY <1>4, <1>9
<1>11. ASSUME NEW k \in 1..n, k - 1 \in V
       PROVE  k \in V
  <2>1. g[k - 1] \in T[k - 1] /\ k \in 0..n
    BY <1>1, <1>11
  <2>2. g[k] = LeftOf(ev, g[k - 1], ev[k].ts, W)
    BY <1>9, <2>1
  <2>3. QED
    BY <1>5, <2>1, <2>2
<1> HIDE DEF V
<1>12. \A k \in 0..n : k \in V
  BY <1>1, <1>10, <1>11, Upwards
<1>13. QED
  BY <1>2, <1>3, <1>12 DEF V, n
-----------------------------------------------------------------------------
(* The events with destination x from l to k, and how many of each. *)
Between(ev, l, k, x) == {j \in l..k : ev[j].dst = x}
Numbers(ev, l, k)    == [x \in Dsts |-> Cardinality(Between(ev, l, k, x))]

(* The pointers are in order, and the left one never goes back. *)
LEMMA PointersInOrder ==
  ASSUME NEW ev, ByTimeSeq(ev), NEW W \in Nat, NEW k \in 1..Len(ev),
         NEW l \in Cutoff(ev, W, k - 1), NEW m \in Cutoff(ev, W, k)
  PROVE  l \in 1..k /\ m \in 1..k /\ l <= m
<1>1. k \in Nat /\ m \in 1..k /\ ev[k].ts <= ev[m].ts + W
  BY DEF Cutoff, ByTimeSeq
<1>2. CASE k = 1
  BY <1>1, <1>2 DEF Cutoff
<1>3. CASE k # 1
  <2>1. k - 1 \in 1..Len(ev) /\ l \in 1..(k - 1) /\ Len(ev) \in Nat
    BY <1>3 DEF Cutoff, ByTimeSeq
  <2>2. \A i \in 1..Len(ev) : ev[i].ts \in Nat
    <3>1. \A i \in 1..Len(ev) : ev[i] \in Flow
      BY DEF ByTimeSeq
    <3>2. QED
      BY <3>1 DEF Flow
  <2>3. SUFFICES ASSUME m < l
                 PROVE  FALSE
    BY <1>1, <2>1
  <2>4. m \in 1..(k - 1) /\ ~(l <= m)
    BY <1>1, <2>1, <2>3
  <2>5. ~(ev[k - 1].ts <= ev[m].ts + W)
    BY <1>3, <2>1, <2>4 DEF Cutoff
  <2>6. ev[k - 1].ts <= ev[k].ts
    BY <1>1, <2>1 DEF ByTimeSeq
  <2>7. m \in 1..Len(ev)
    BY <2>1, <2>4
  <2>8. QED
    BY <1>1, <2>1, <2>2, <2>5, <2>6, <2>7
<1>4. QED
  BY <1>2, <1>3

(* Moving both pointers on keeps the counter of a destination right. *)
LEMMA CounterStep ==
  ASSUME NEW ev, NEW k \in Nat, NEW l \in 1..k, NEW m \in 1..k, l <= m, NEW x
  PROVE  Cardinality(Between(ev, m, k, x)) =
           (IF x = ev[k].dst THEN Cardinality(Between(ev, l, k - 1, x)) + 1
                             ELSE Cardinality(Between(ev, l, k - 1, x)))
             - Cardinality({j \in l..(m - 1) : ev[j].dst = x})
<1> DEFINE A == Between(ev, l, k - 1, x)
           C == Between(ev, m, k, x)
           D == {j \in l..(m - 1) : ev[j].dst = x}
           B == Between(ev, l, k, x)
<1>1. IsFiniteSet(A) /\ IsFiniteSet(C) /\ IsFiniteSet(D)
  <2>1. IsFiniteSet(l..(k - 1)) /\ IsFiniteSet(m..k) /\ IsFiniteSet(l..(m - 1))
    BY FS_Interval
  <2>2. A \in SUBSET (l..(k - 1)) /\ C \in SUBSET (m..k) /\ D \in SUBSET (l..(m - 1))
    BY DEF Between
  <2>3. QED
    BY <2>1, <2>2, FS_Subset
<1>2. B = D \cup C /\ D \cap C = {}
  BY DEF Between
<1>3. k \notin A /\ B = IF x = ev[k].dst THEN A \cup {k} ELSE A
  BY DEF Between
<1> HIDE DEF A, B, C, D
<1>4. Cardinality(A) \in Nat /\ Cardinality(C) \in Nat /\ Cardinality(D) \in Nat
  BY <1>1, FS_CardinalityType
<1>5. Cardinality(B) = Cardinality(D) + Cardinality(C)
  <2>1. Cardinality(D \cup C) = Cardinality(D) + Cardinality(C) - Cardinality({})
    BY <1>1, <1>2, FS_Union
  <2>2. QED
    BY <1>2, <1>4, <2>1, FS_EmptySet
<1>6. Cardinality(B) = IF x = ev[k].dst THEN Cardinality(A) + 1 ELSE Cardinality(A)
  <2>1. Cardinality(A \cup {k}) = Cardinality(A) + 1
    BY <1>1, <1>3, FS_AddElement
  <2>2. QED
    BY <1>3, <2>1
<1>7. Cardinality(C) = (IF x = ev[k].dst THEN Cardinality(A) + 1 ELSE Cardinality(A)) - Cardinality(D)
  BY <1>4, <1>5, <1>6
<1>8. QED
  BY <1>7 DEF A, C, D

(* The counter holds the numbers between the pointers. *)
LEMMA CountersExact ==
  ASSUME NEW ev, ByTimeSeq(ev), NEW W \in Nat, NEW left,
         \A k \in 0..Len(ev) : left[k] \in Cutoff(ev, W, k)
  PROVE  \A k \in 0..Len(ev) : Counters(ev, left)[k] = Numbers(ev, left[k], k)
<1> DEFINE n == Len(ev)
           more(c, k) == [x \in Dsts |-> (IF x = ev[k].dst THEN c[x] + 1 ELSE c[x])
                                - Cardinality({j \in left[k - 1]..(left[k] - 1) : ev[j].dst = x})]
           T == [k \in 0..n |-> {Numbers(ev, left[k], k)}]
           U == [Dsts -> Nat]
           z == [x \in Dsts |-> 0]
           F == [a \in U \X (1..n) |-> more(a[1], a[2])]
           Acc(f) == f = [k \in 0..n |-> IF k = 0 THEN z ELSE more(f[k - 1], k)]
           g == CHOOSE f : Acc(f)
<1>1. n \in Nat
  BY DEF ByTimeSeq
<1>2. Counters(ev, left) = g
  BY Zenon DEF Counters
<1>3. \A k \in 0..n : T[k] = {Numbers(ev, left[k], k)}
  OBVIOUS
<1>4. \A k \in 0..n : Numbers(ev, left[k], k) \in U
  <2> SUFFICES ASSUME NEW k \in 0..n, NEW x \in Dsts
               PROVE  Cardinality(Between(ev, left[k], k, x)) \in Nat
    BY DEF Numbers
  <2>1. left[k] \in Int /\ k \in Int
    <3>1. left[k] \in Cutoff(ev, W, k) /\ k \in Int
      BY <1>1
    <3>2. Cutoff(ev, W, k) \subseteq Int
      BY <3>1 DEF Cutoff
    <3>3. QED
      BY <3>1, <3>2
  <2>2. Between(ev, left[k], k, x) \in SUBSET (left[k]..k) /\ IsFiniteSet(left[k]..k)
    BY <2>1, FS_Interval DEF Between
  <2>3. QED
    BY <2>2, FS_Subset, FS_CardinalityType
<1>5. Numbers(ev, left[0], 0) = z
  <2>1. left[0] = 1
    <3>1. 0 \in 0..n
      BY <1>1
    <3>2. left[0] \in Cutoff(ev, W, 0)
      BY <3>1
    <3>3. QED
      BY <3>2 DEF Cutoff
  <2>2. \A x : Between(ev, 1, 0, x) = {}
    BY DEF Between
  <2>3. QED
    BY <2>1, <2>2, FS_EmptySet DEF Numbers
<1>6. ASSUME NEW k \in 1..n
      PROVE  more(Numbers(ev, left[k - 1], k - 1), k) = Numbers(ev, left[k], k)
  <2>1. k \in Nat /\ k \in 0..n /\ k - 1 \in 0..n
    BY <1>1
  <2>2. left[k - 1] \in 1..k /\ left[k] \in 1..k /\ left[k - 1] <= left[k]
    BY <2>1, PointersInOrder
  <2> DEFINE A(x) == Cardinality(Between(ev, left[k - 1], k - 1, x))
             D(x) == Cardinality({j \in left[k - 1]..(left[k] - 1) : ev[j].dst = x})
             c == Numbers(ev, left[k - 1], k - 1)
  <2>3. \A x : Cardinality(Between(ev, left[k], k, x)) =
                 (IF x = ev[k].dst THEN A(x) + 1 ELSE A(x)) - D(x)
    BY <2>1, <2>2, CounterStep
  <2>4. \A x \in Dsts : c[x] = A(x)
    BY DEF Numbers
  <2> HIDE DEF A, c
  <2>5. \A x \in Dsts : (IF x = ev[k].dst THEN c[x] + 1 ELSE c[x]) - D(x) =
                        Cardinality(Between(ev, left[k], k, x))
    BY <2>3, <2>4
  <2> HIDE DEF D
  <2>6. [x \in Dsts |-> (IF x = ev[k].dst THEN c[x] + 1 ELSE c[x]) - D(x)] = Numbers(ev, left[k], k)
    BY <2>5 DEF Numbers
  <2>7. QED
    BY <2>6 DEF c, D
<1>7. \A k \in 1..n : \A c \in U : F[<<c, k>>] = more(c, k)
  <2> HIDE DEF more, U
  <2>1. QED
    OBVIOUS
<1> HIDE DEF T, F, n, more, U, z
<1>8. \E f : Acc(f)
  <2>1. z \in T[0] /\ 0 \in 0..n
    BY <1>1, <1>3, <1>5
  <2>2. \A k \in 1..n : \A c \in T[k - 1] : c \in U /\ F[<<c, k>>] \in T[k]
    <3> SUFFICES ASSUME NEW k \in 1..n, NEW c \in T[k - 1]
                 PROVE  c \in U /\ F[<<c, k>>] \in T[k]
      OBVIOUS
    <3>1. k \in 0..n /\ k - 1 \in 0..n
      BY <1>1
    <3>2. c = Numbers(ev, left[k - 1], k - 1)
      BY <1>3, <3>1
    <3>3. c \in U /\ F[<<c, k>>] = more(c, k)
      BY <1>4, <1>7, <3>1, <3>2
    <3>4. QED
      BY <1>3, <1>6, <3>1, <3>2, <3>3
  <2>3. PICK f : Recurs(f, n, z, F) /\ \A k \in 0..n : f[k] \in T[k]
    BY <1>1, <2>1, <2>2, RecursionExists
  <2> DEFINE h == [k \in 0..n |-> IF k = 0 THEN z ELSE F[<<f[k - 1], k>>]]
             e == [k \in 0..n |-> IF k = 0 THEN z ELSE more(f[k - 1], k)]
  <2>4. ASSUME NEW k \in 0..n
        PROVE  h[k] = e[k]
    <3>1. CASE k = 0
      BY <3>1
    <3>2. CASE k # 0
      <4>1. k \in 1..n /\ k - 1 \in 0..n
        BY <1>1, <3>2
      <4>2. f[k - 1] \in U
        BY <2>2, <2>3, <4>1
      <4>3. F[<<f[k - 1], k>>] = more(f[k - 1], k)
        BY <1>7, <4>1, <4>2
      <4>4. QED
        BY <3>2, <4>3
    <3>3. QED
      BY <3>1, <3>2
  <2>5. h = e
    BY <2>4
  <2>6. f = h
    BY <2>3 DEF Recurs
  <2> HIDE DEF h
  <2>7. Acc(f)
    BY <2>5, <2>6
  <2> HIDE DEF Acc
  <2>8. QED
    BY <2>7
<1>9. Acc(g)
  <2> HIDE DEF Acc
  <2>1. QED
    BY <1>8
<1> HIDE DEF g
<1>10. \A k \in 0..n : g[k] = IF k = 0 THEN z ELSE more(g[k - 1], k)
  BY <1>9
<1> DEFINE V == {k \in 0..n : g[k] = Numbers(ev, left[k], k)}
<1>11. 0 \in V
  BY <1>1, <1>5, <1>10
<1>12. ASSUME NEW k \in 1..n, k - 1 \in V
       PROVE  k \in V
  <2>1. g[k - 1] = Numbers(ev, left[k - 1], k - 1) /\ k \in 0..n
    BY <1>1, <1>12
  <2>2. g[k] = more(g[k - 1], k)
    BY <1>10, <2>1
  <2>3. QED
    BY <1>6, <2>1, <2>2
<1> HIDE DEF V
<1>13. \A k \in 0..n : k \in V
  BY <1>1, <1>11, <1>12, Upwards
<1>14. QED
  BY <1>2, <1>13 DEF V, n
-----------------------------------------------------------------------------
(* The positions in the capture of the events from l to k. *)
Span(order, l, k) == {order[j] : j \in l..k}

Pointed(ev, W, left) == \A k \in 0..Len(ev) : left[k] \in Cutoff(ev, W, k)

SpansMatch(c, S, W, order, left, n) ==
  /\ \A k \in 1..n : /\ left[k] \in 1..k /\ order[left[k]] \in S
                     /\ Span(order, left[k], k) \subseteq InWindow(c, S, order[left[k]], W)
  /\ \A i \in S : \E k \in 1..n : InWindow(c, S, i, W) \subseteq Span(order, left[k], k)

(* What is between the pointers lies in a window, and each window lies between
   the pointers at some place of the right one. *)
LEMMA SpansAreWindows ==
  ASSUME NEW c \in Seq(Flow), NEW S \in SUBSET DOMAIN c, NEW ev, NEW order, Lists(c, ev, order, S),
         NEW W \in Nat, NEW left, Pointed(ev, W, left)
  PROVE  SpansMatch(c, S, W, order, left, Len(ev))
<1> DEFINE n == Len(ev)
<1>1. /\ n \in Nat /\ order \in [1..n -> S]
      /\ \A a \in S : \E k \in 1..n : order[k] = a
      /\ \A k \in 1..n : ev[k] = c[order[k]]
      /\ \A i, j \in 1..n : i <= j => ev[i].ts <= ev[j].ts
  BY DEF Lists
<1>2. \A i \in 1..n : ev[i].ts \in Nat
  <2>1. \A i \in 1..n : ev[i] \in Flow
    BY DEF Lists
  <2>2. QED
    BY <2>1 DEF Flow
<1>3. \A k \in 1..n : left[k] \in 1..k /\ \A j \in 1..k : left[k] <= j <=> ev[k].ts <= ev[j].ts + W
  <2> SUFFICES ASSUME NEW k \in 1..n
               PROVE  left[k] \in 1..k /\ \A j \in 1..k : left[k] <= j <=> ev[k].ts <= ev[j].ts + W
    OBVIOUS
  <2>1. k \in 0..n /\ k # 0
    BY <1>1
  <2>2. left[k] \in Cutoff(ev, W, k)
    BY <2>1 DEF Pointed
  <2>3. QED
    BY <2>1, <2>2 DEF Cutoff
<1> HIDE DEF n
<1>4. ASSUME NEW k \in 1..n
      PROVE  /\ left[k] \in 1..k /\ order[left[k]] \in S
             /\ Span(order, left[k], k) \subseteq InWindow(c, S, order[left[k]], W)
  <2>1. left[k] \in 1..k /\ left[k] \in 1..n
    BY <1>1, <1>3
  <2>2. ASSUME NEW j \in left[k]..k
        PROVE  order[j] \in InWindow(c, S, order[left[k]], W)
    <3>1. j \in 1..k /\ j \in 1..n /\ left[k] <= j
      BY <1>1, <2>1
    <3>2. ev[left[k]].ts <= ev[j].ts /\ ev[j].ts <= ev[k].ts
      BY <1>1, <2>1, <3>1
    <3>3. ev[k].ts <= ev[left[k]].ts + W
      BY <1>1, <1>3, <2>1
    <3>4. ev[j].ts <= ev[left[k]].ts + W
      BY <1>2, <2>1, <3>1, <3>2, <3>3
    <3>5. QED
      BY <1>1, <2>1, <3>1, <3>2, <3>4 DEF InWindow
  <2>3. QED
    BY <1>1, <2>1, <2>2 DEF Span
<1>5. ASSUME NEW i \in S
      PROVE  \E k \in 1..n : InWindow(c, S, i, W) \subseteq Span(order, left[k], k)
  <2>1. PICK a \in 1..n : order[a] = i
    BY <1>1
  <2> DEFINE V == {k \in 1..n : ev[k].ts <= ev[a].ts + W}
  <2>2. a \in V /\ V \subseteq 1..n
    BY <1>2
  <2>3. PICK k \in V : \A b \in V : b <= k
    <3> HIDE DEF V
    <3>1. QED
      BY <1>1, <2>2, GreatestNatural
  <2>4. k \in 1..n /\ ev[k].ts <= ev[a].ts + W
    BY <2>3
  <2>5. ASSUME NEW j \in InWindow(c, S, i, W)
        PROVE  j \in Span(order, left[k], k)
    <3>1. j \in S /\ c[i].ts <= c[j].ts /\ c[j].ts <= c[i].ts + W
      BY DEF InWindow
    <3>2. PICK b \in 1..n : order[b] = j
      BY <1>1, <3>1
    <3>3. ev[a].ts <= ev[b].ts /\ ev[b].ts <= ev[a].ts + W
      BY <1>1, <2>1, <3>1, <3>2
    <3>4. b \in 1..k
      <4>1. b \in V
        BY <3>3
      <4>2. b <= k
        BY <2>3, <4>1
      <4>3. QED
        BY <1>1, <2>4, <4>2
    <3>5. ev[k].ts <= ev[b].ts + W
      BY <1>2, <2>4, <3>3
    <3>6. b \in left[k]..k
      <4>1. left[k] <= b /\ left[k] \in Int
        BY <1>3, <2>4, <3>4, <3>5
      <4>2. QED
        BY <3>4, <4>1
    <3>7. QED
      BY <3>2, <3>6 DEF Span
  <2>6. QED
    BY <2>4, <2>5
<1>6. QED
  BY <1>4, <1>5 DEF n, SpansMatch

(* The destinations of some flows: no more than the flows, and no more than
   those of a larger set. *)
DstsOf(X) == {flows[i].dst : i \in X}

(* And finite, if those are. *)
LEMMA DstsOfFinite ==
  ASSUME NEW Y, IsFiniteSet(Y), NEW X \in SUBSET Y
  PROVE  /\ IsFiniteSet(DstsOf(X)) /\ Cardinality(DstsOf(X)) \in Nat
         /\ Cardinality(DstsOf(X)) <= Cardinality(DstsOf(Y))
         /\ Cardinality(DstsOf(X)) <= Cardinality(X)
         /\ IsFiniteSet(X) /\ Cardinality(X) \in Nat /\ Cardinality(X) <= Cardinality(Y)
         /\ Cardinality(DstsOf(Y)) \in Nat /\ Cardinality(Y) \in Nat
<1>1. IsFiniteSet(X) /\ Cardinality(X) <= Cardinality(Y)
  BY FS_Subset
<1>2. ASSUME NEW Z, IsFiniteSet(Z)
      PROVE  IsFiniteSet(DstsOf(Z)) /\ Cardinality(DstsOf(Z)) <= Cardinality(Z)
  <2> DEFINE f == [i \in Z |-> flows[i].dst]
  <2>1. DstsOf(Z) = {f[i] : i \in Z}
    BY DEF DstsOf
  <2> HIDE DEF f
  <2>2. QED
    BY <1>2, <2>1, ImageFinite
<1>3. DstsOf(X) \in SUBSET DstsOf(Y)
  BY DEF DstsOf
<1>4. Cardinality(DstsOf(X)) <= Cardinality(DstsOf(Y))
  BY <1>2, <1>3, FS_Subset
<1>5. QED
  BY <1>1, <1>2, <1>4, FS_CardinalityType

(* scan_window finds exactly the windows with enough destinations. *)
LEMMA ScanWindowExact ==
  ASSUME NEW c \in Seq(Flow), \A i \in DOMAIN c : c[i].dst = flows[i].dst,
         NEW S \in SUBSET DOMAIN c, NEW W \in Nat, NEW need \in Nat \ {0}
  PROVE  ScanWindow(c, S, W, need) <=>
           \E i \in S : Cardinality(DstsOf(InWindow(c, S, i, W))) >= need
<1> DEFINE ev   == Sorted(c, S)
           left == Lefts(ev, W)
           cnt  == Counters(ev, left)
           n    == Len(ev)
           seen(k) == {x \in Dsts : cnt[k][x] > 0}
<1>1. IsFiniteSet(S)
  BY SortedLists
<1>2. PICK order : Lists(c, ev, order, S)
  BY SortedLists
<1>3. ScanWindow(c, S, W, need) <=>
        Cardinality(S) >= need /\ \E k \in DOMAIN ev : Cardinality(seen(k)) >= need
  BY Zenon DEF ScanWindow
<1> HIDE DEF ev
<1>4. ByTimeSeq(ev)
  BY <1>2 DEF Lists, ByTimeSeq
<1>5. n \in Nat /\ DOMAIN ev = 1..n /\ \A k \in 1..n : ev[k] \in Flow /\ ev[k] = c[order[k]]
  BY <1>2 DEF Lists
<1>6. Pointed(ev, W, left)
  BY <1>4, PointersExact DEF Pointed
<1> HIDE DEF left
<1>7. /\ \A k \in 1..n : /\ left[k] \in 1..k /\ order[left[k]] \in S
                         /\ Span(order, left[k], k) \subseteq InWindow(c, S, order[left[k]], W)
      /\ \A i \in S : \E k \in 1..n : InWindow(c, S, i, W) \subseteq Span(order, left[k], k)
  <2>1. SpansMatch(c, S, W, order, left, Len(ev))
    BY <1>2, <1>6, SpansAreWindows
  <2>2. QED
    BY <2>1 DEF SpansMatch
<1>8. \A k \in 0..n : cnt[k] = Numbers(ev, left[k], k)
  BY <1>4, <1>6, CountersExact DEF Pointed
<1> HIDE DEF cnt, n
<1>9. ASSUME NEW k \in 1..n
      PROVE  seen(k) = DstsOf(Span(order, left[k], k))
  <2>1. k \in 0..n /\ left[k] \in 1..k /\ k \in Nat
    BY <1>5, <1>7
  <2>2. \A x \in Dsts : cnt[k][x] > 0 <=> \E j \in left[k]..k : ev[j].dst = x
    <3> SUFFICES ASSUME NEW x \in Dsts
                 PROVE  cnt[k][x] > 0 <=> \E j \in left[k]..k : ev[j].dst = x
      OBVIOUS
    <3> DEFINE B == Between(ev, left[k], k, x)
    <3>1. cnt[k][x] = Cardinality(B)
      BY <1>8, <2>1 DEF Numbers
    <3>2. IsFiniteSet(B)
      <4>1. IsFiniteSet(left[k]..k) /\ B \in SUBSET (left[k]..k)
        BY <2>1, FS_Interval DEF Between
      <4> HIDE DEF B
      <4>2. QED
        BY <4>1, FS_Subset
    <3>3. B # {} <=> \E j \in left[k]..k : ev[j].dst = x
      BY DEF Between
    <3> HIDE DEF B
    <3>4. Cardinality(B) \in Nat /\ (Cardinality(B) = 0 <=> B = {})
      BY <3>2, FS_CardinalityType, FS_EmptySet
    <3>5. QED
      BY <3>1, <3>3, <3>4
  <2>3. \A j \in left[k]..k : j \in 1..n
    BY <1>5, <2>1
  <2>4. \A j \in left[k]..k : ev[j].dst = flows[order[j]].dst /\ ev[j].dst \in Dsts
    <3>1. \A j \in 1..n : order[j] \in DOMAIN c
      BY <1>2, <1>5 DEF Lists, n
    <3>2. QED
      BY <1>5, <2>3, <3>1 DEF Flow
  <2>5. DstsOf(Span(order, left[k], k)) = {flows[order[j]].dst : j \in left[k]..k}
    BY DEF DstsOf, Span
  <2>6. QED
    BY <2>2, <2>4, <2>5
<1> HIDE DEF seen
<1>10. \A i \in S : InWindow(c, S, i, W) \in SUBSET S
  BY DEF InWindow
<1>11. ASSUME NEW k \in 1..n, Cardinality(seen(k)) >= need
       PROVE  \E i \in S : Cardinality(DstsOf(InWindow(c, S, i, W))) >= need
  <2> DEFINE i == order[left[k]]
             X == Span(order, left[k], k)
             Y == InWindow(c, S, i, W)
  <2>1. i \in S /\ X \in SUBSET Y
    BY <1>7
  <2>2. seen(k) = DstsOf(X)
    BY <1>9
  <2>3. IsFiniteSet(Y)
    BY <1>1, <1>10, <2>1, FS_Subset
  <2> HIDE DEF X
  <2>4. Cardinality(DstsOf(X)) <= Cardinality(DstsOf(Y)) /\ Cardinality(DstsOf(X)) \in Nat
        /\ Cardinality(DstsOf(Y)) \in Nat
    <3> HIDE DEF Y
    <3>1. QED
      BY <2>1, <2>3, DstsOfFinite
  <2>5. Cardinality(DstsOf(Y)) >= need
    BY <1>11, <2>2, <2>4
  <2>6. QED
    BY <2>1, <2>5
<1>12. ASSUME NEW i \in S, Cardinality(DstsOf(InWindow(c, S, i, W))) >= need
       PROVE  Cardinality(S) >= need /\ \E k \in 1..n : Cardinality(seen(k)) >= need
  <2> DEFINE Y == InWindow(c, S, i, W)
  <2>1. Y \in SUBSET S /\ IsFiniteSet(Y)
    BY <1>1, <1>10, FS_Subset
  <2>2. PICK k \in 1..n : Y \subseteq Span(order, left[k], k)
    BY <1>7
  <2> DEFINE X == Span(order, left[k], k)
  <2>3. seen(k) = DstsOf(X)
    BY <1>9
  <2>4. X \in SUBSET S
    BY <1>7, <1>10
  <2>5. Y \in SUBSET X
    BY <2>2
  <2>6. Cardinality(DstsOf(Y)) >= need
    BY <1>12
  <2> HIDE DEF X, Y
  <2>7. IsFiniteSet(X)
    BY <1>1, <2>4, FS_Subset
  <2>8. Cardinality(DstsOf(Y)) <= Cardinality(DstsOf(X)) /\ Cardinality(DstsOf(X)) \in Nat
        /\ Cardinality(DstsOf(Y)) \in Nat
    BY <2>5, <2>7, DstsOfFinite
  <2>9. Cardinality(DstsOf(Y)) <= Cardinality(Y) /\ Cardinality(Y) <= Cardinality(S)
        /\ Cardinality(Y) \in Nat /\ Cardinality(S) \in Nat
    BY <1>1, <2>1, DstsOfFinite
  <2>10. QED
    BY <2>3, <2>6, <2>8, <2>9
<1>13. QED
  BY <1>3, <1>5, <1>11, <1>12

(* The two pointers over the flows to one destination find exactly the floods. *)
LEMMA FloodHitExact ==
  ASSUME flows \in Seq(Flow), NEW d
  PROVE  FloodHit(d) <=> \E x \in Dsts : \E i \in Times(d, x) :
                           Cardinality(InWindow(flows, Times(d, x), i, FloodW * Second)) >= Flood
<1> DEFINE FW == FloodW * Second
           ev(x)   == Sorted(flows, Times(d, x))
           left(x) == Lefts(ev(x), FW)
           hit(x)  == \E k \in DOMAIN ev(x) : k - left(x)[k] + 1 >= Flood
<1>1. FloodHit(d) <=> \E x \in Dsts : hit(x)
  BY Zenon DEF FloodHit
<1>2. FW \in Nat /\ Flood \in Nat
  <2>1. FloodW \in Nat /\ Second \in Nat /\ Flood \in Nat
    BY FlowsAssumption
  <2>2. QED
    BY <2>1
<1> HIDE DEF FW
<1>3. ASSUME NEW x \in Dsts
      PROVE  hit(x) <=> \E i \in Times(d, x) : Cardinality(InWindow(flows, Times(d, x), i, FW)) >= Flood
  <2> DEFINE S == Times(d, x)
             e == ev(x)
             l == left(x)
             n == Len(e)
  <2>1. S \in SUBSET DOMAIN flows
    BY DEF Times, Of
  <2>2. l = Lefts(e, FW) /\ e = Sorted(flows, S)
    OBVIOUS
  <2>3. hit(x) <=> \E k \in DOMAIN e : k - l[k] + 1 >= Flood
    OBVIOUS
  <2> HIDE DEF S, e, l, ev, left, hit
  <2>4. IsFiniteSet(S)
    BY <2>1, SortedLists
  <2>5. PICK order : Lists(flows, e, order, S)
    BY <2>1, <2>2, SortedLists
  <2>6. ByTimeSeq(e) /\ n \in Nat /\ DOMAIN e = 1..n
    BY <2>5 DEF Lists, ByTimeSeq
  <2>7. Pointed(e, FW, l)
    BY <1>2, <2>2, <2>6, PointersExact DEF Pointed
  <2>8. /\ \A k \in 1..n : /\ l[k] \in 1..k /\ order[l[k]] \in S
                           /\ Span(order, l[k], k) \subseteq InWindow(flows, S, order[l[k]], FW)
        /\ \A i \in S : \E k \in 1..n : InWindow(flows, S, i, FW) \subseteq Span(order, l[k], k)
    <3>1. SpansMatch(flows, S, FW, order, l, Len(e))
      BY <1>2, <2>1, <2>5, <2>7, SpansAreWindows
    <3>2. QED
      BY <3>1 DEF SpansMatch
  <2> HIDE DEF n
  <2>9. \A i \in S : InWindow(flows, S, i, FW) \in SUBSET S
    BY DEF InWindow
  <2>10. ASSUME NEW k \in 1..n
         PROVE  /\ IsFiniteSet(Span(order, l[k], k))
                /\ Cardinality(Span(order, l[k], k)) = k - l[k] + 1
    <3>1. k \in Nat /\ l[k] \in 1..k
      BY <2>6, <2>8
    <3>2. IsFiniteSet(l[k]..k) /\ Cardinality(l[k]..k) = k - l[k] + 1
      BY <3>1, FS_Interval
    <3>3. \A i, j \in l[k]..k : order[i] = order[j] => i = j
      <4>1. \A i \in l[k]..k : i \in 1..n
        BY <2>6, <3>1
      <4>2. QED
        BY <2>5, <4>1 DEF Lists, n
    <3> DEFINE J == l[k]..k
    <3>4. Span(order, l[k], k) = {order[i] : i \in J}
      BY DEF Span
    <3>5. IsFiniteSet(J) /\ Cardinality(J) = k - l[k] + 1 /\ \A i, j \in J : order[i] = order[j] => i = j
      BY <3>1, <3>2, <3>3
    <3> HIDE DEF J
    <3>6. QED
      BY <3>4, <3>5, ImageInjective
  <2>11. ASSUME NEW k \in 1..n, k - l[k] + 1 >= Flood
         PROVE  \E i \in S : Cardinality(InWindow(flows, S, i, FW)) >= Flood
    <3> DEFINE i == order[l[k]]
               Y == InWindow(flows, S, i, FW)
               X == Span(order, l[k], k)
    <3>1. i \in S /\ X \in SUBSET Y /\ Y \in SUBSET S
      BY <2>8, <2>9
    <3>2. Cardinality(X) = k - l[k] + 1
      BY <2>10
    <3>3. Cardinality(X) <= Cardinality(Y) /\ Cardinality(X) \in Nat /\ Cardinality(Y) \in Nat
      <4> HIDE DEF X, Y
      <4>1. IsFiniteSet(Y)
        BY <2>4, <3>1, FS_Subset
      <4>2. QED
        BY <3>1, <4>1, DstsOfFinite
    <3>4. Cardinality(Y) >= Flood
      BY <1>2, <2>11, <3>2, <3>3
    <3>5. QED
      BY <3>1, <3>4
  <2>12. ASSUME NEW i \in S, Cardinality(InWindow(flows, S, i, FW)) >= Flood
         PROVE  \E k \in 1..n : k - l[k] + 1 >= Flood
    <3> DEFINE Y == InWindow(flows, S, i, FW)
    <3>1. PICK k \in 1..n : Y \subseteq Span(order, l[k], k)
      BY <2>8
    <3> DEFINE X == Span(order, l[k], k)
    <3>2. IsFiniteSet(X) /\ Cardinality(X) = k - l[k] + 1 /\ Y \in SUBSET X
      BY <2>10, <3>1
    <3>3. Cardinality(Y) >= Flood
      BY <2>12
    <3> HIDE DEF X, Y
    <3>4. Cardinality(Y) <= Cardinality(X) /\ Cardinality(X) \in Nat /\ Cardinality(Y) \in Nat
      BY <3>2, DstsOfFinite
    <3>5. QED
      BY <1>2, <3>2, <3>3, <3>4
  <2>13. QED
    BY <2>3, <2>6, <2>11, <2>12 DEF S
<1>4. QED
  BY <1>1, <1>3 DEF FW
-----------------------------------------------------------------------------
(* What a capture and a log are made of. *)
Event == [ts : Nat, src : Hosts]

TypeInv == /\ script \in Scripts /\ script \in AllScripts
           /\ limit \in Nat /\ (script # "ton_iot" => limit = 0)
           /\ flows \in Seq(Flow)
           /\ script = "wustl_water" => \A i \in DOMAIN flows : flows[i].ts = Whole(flows[i].ts)
           /\ log \in Seq(Event)

(* Some interval holds enough flows for a scan, or for a flood. *)
Flooded(d) == \E x \in Dsts : \E i \in Times(d, x) :
                Cardinality(InWindow(flows, Times(d, x), i, FloodW * Second)) >= Flood

(* A set of flows fans out if a window of them has enough destinations. *)
LEMMA FansWindow ==
  ASSUME NEW S, NEW W
  PROVE  Fans(S, W) <=> \E i \in S : Cardinality(DstsOf(InWindow(flows, S, i, W))) >= Fanout
BY DEF Fans, DstsOf

(* The windows of the flows of a script, for the alerts it raised. *)
LEMMA AlertsExact ==
  ASSUME TypeInv, NEW d \in Hosts
  PROVE  /\ script \in {"ton_iot", "wustl_water"} =>
              ("port_scan" \in AlertsOf(d) <=> Fans(FailedOf(d), ScanW * Second))
         /\ "ddos_flood" \in AlertsOf(d) <=> Flooded(d)
<1> DEFINE SW == ScanW * Second
<1>1. FailedOf(d) \in SUBSET DOMAIN flows
  BY DEF FailedOf, Of
<1>2. SW \in Nat /\ Fanout \in Nat \ {0}
  <2>1. ScanW \in Nat /\ Second \in Nat
    BY FlowsAssumption
  <2>2. QED
    BY <2>1, FlowsAssumption
<1>3. Scans(d) <=> Fans(FailedOf(d), SW)
  <2>1. Scans(d) <=> ScanWindow(flows, FailedOf(d), SW, Fanout)
    BY DEF Scans
  <2> HIDE DEF SW
  <2>2. flows \in Seq(Flow) /\ \A i \in DOMAIN flows : flows[i].dst = flows[i].dst
    BY DEF TypeInv
  <2>3. ScanWindow(flows, FailedOf(d), SW, Fanout) <=>
          \E i \in FailedOf(d) : Cardinality(DstsOf(InWindow(flows, FailedOf(d), i, SW))) >= Fanout
    BY <1>1, <1>2, <2>2, ScanWindowExact
  <2>4. QED
    BY <2>1, <2>3, FansWindow
<1>4. FloodHit(d) <=> Flooded(d)
  BY FloodHitExact DEF TypeInv, Flooded
<1>5. CASE script = "ton_iot"
  <2>1. AlertsOf(d) = TonIotAlerts(d)
    BY <1>5 DEF AlertsOf
  <2>2. /\ "port_scan" \in TonIotAlerts(d) <=> Scans(d)
        /\ "ddos_flood" \in TonIotAlerts(d) <=> FloodHit(d)
    BY DEF TonIotAlerts, Raised
  <2>3. QED
    BY <1>3, <1>4, <2>1, <2>2
<1>6. CASE script = "wustl_water"
  <2>1. AlertsOf(d) = WustlAlerts(d)
    BY <1>6 DEF AlertsOf
  <2>2. /\ "port_scan" \in WustlAlerts(d) <=> Scans(d)
        /\ "ddos_flood" \in WustlAlerts(d) <=> FloodHit(d)
    BY DEF WustlAlerts, Raised
  <2>3. QED
    BY <1>3, <1>4, <2>1, <2>2
<1>7. CASE script = "iot23"
  <2>1. AlertsOf(d) = Iot23Alerts(d)
    BY <1>7 DEF AlertsOf
  <2>2. "ddos_flood" \in Iot23Alerts(d) <=> FloodHit(d)
    BY DEF Iot23Alerts, Raised
  <2>3. QED
    BY <1>4, <1>7, <2>1, <2>2
<1>8. CASE script = "ctu13"
  <2>1. AlertsOf(d) = Ctu13Alerts(d)
    BY <1>8 DEF AlertsOf
  <2>2. "ddos_flood" \in Ctu13Alerts(d) <=> FloodHit(d)
    BY DEF Ctu13Alerts, Raised
  <2>3. QED
    BY <1>4, <1>8, <2>1, <2>2
<1>9. QED
  BY <1>5, <1>6, <1>7, <1>8 DEF TypeInv, AllScripts

(* What the capture is and what lies in its windows changes no more, once it is
   read. *)
LEMMA CaptureStands ==
  ASSUME UNCHANGED <<script, limit, flows>>
  PROVE  /\ \A d : FailedOf(d)' = FailedOf(d) /\ TimedOf(d)' = TimedOf(d)
         /\ \A d, W : Fans(FailedOf(d), W)' <=> Fans(FailedOf(d), W)
         /\ \A d, W : Fans(TimedOf(d), W)' <=> Fans(TimedOf(d), W)
         /\ \A d : Flooded(d)' <=> Flooded(d)
         /\ \A d : Alike(d)' <=> Alike(d)
<1>1. flows' = flows /\ script' = script /\ limit' = limit
  OBVIOUS
<1>2. \A d : Of(d)' = Of(d)
  BY <1>1 DEF Of
<1>3. \A d : FailedOf(d)' = FailedOf(d) /\ TimedOf(d)' = TimedOf(d)
  BY <1>1, <1>2 DEF FailedOf, TimedOf
<1>4. \A d, W : Fans(FailedOf(d), W)' <=> Fans(FailedOf(d), W)
  BY <1>1, <1>3 DEF Fans, InWindow
<1>5. \A d, W : Fans(TimedOf(d), W)' <=> Fans(TimedOf(d), W)
  BY <1>1, <1>3 DEF Fans, InWindow
<1>6. \A d, x : Times(d, x)' = Times(d, x)
  BY <1>1, <1>2 DEF Times
<1>7. \A d : Flooded(d)' <=> Flooded(d)
  BY <1>1, <1>6 DEF Flooded, InWindow
<1>8. \A d : Alike(d)' <=> Alike(d)
  BY <1>1, <1>3 DEF Alike, Whole
<1>9. QED
  BY <1>3, <1>4, <1>5, <1>7, <1>8

(* WindowsExact by the names of its two windows. *)
WindowsFound ==
  done => \A d \in Hosts :
    /\ script \in {"ton_iot", "wustl_water"} =>
         ("port_scan" \in alerts[d] <=> Fans(FailedOf(d), ScanW * Second))
    /\ "ddos_flood" \in alerts[d] <=> Flooded(d)

(* It says what WindowsExact does, before a step and after. *)
LEMMA WindowsNamed ==
  (WindowsExact <=> WindowsFound) /\ (WindowsExact' <=> WindowsFound')
<1>1. WindowsExact <=> WindowsFound
  BY DEF WindowsExact, WindowsFound, Flooded
<1>2. WindowsExact' <=> WindowsFound'
  BY DEF WindowsExact, WindowsFound, Flooded
<1>3. QED
  BY <1>1, <1>2

(* The step that judges the hosts does so by the windows there are. *)
LEMMA WindowsStep ==
  ASSUME TypeInv, Analyse
  PROVE  WindowsExact'
<1> DEFINE SW == ScanW * Second
<1>1. /\ UNCHANGED <<script, limit, flows>>
      /\ alerts' = [d \in Hosts |-> AlertsOf(d)]
  BY DEF Analyse
<1>2. \A d \in Hosts : alerts'[d] = AlertsOf(d)
  BY <1>1
<1>3. \A d : Fans(FailedOf(d), SW)' <=> Fans(FailedOf(d), SW)
  BY <1>1, CaptureStands
<1>4. \A d : Flooded(d)' <=> Flooded(d)
  BY <1>1, CaptureStands
<1>5. ASSUME NEW d \in Hosts
      PROVE  /\ script' \in {"ton_iot", "wustl_water"} =>
                  ("port_scan" \in alerts'[d] <=> Fans(FailedOf(d), SW)')
             /\ "ddos_flood" \in alerts'[d] <=> Flooded(d)'
  BY <1>1, <1>2, <1>3, <1>4, AlertsExact
<1>6. QED
  BY <1>5, WindowsNamed DEF WindowsFound
-----------------------------------------------------------------------------
(* A time is its whole seconds and less than a second more. *)
LEMMA SecondOf ==
  ASSUME NEW t \in Nat
  PROVE  /\ t \div Second \in Nat /\ Whole(t) \in Nat
         /\ Whole(t) <= t /\ t <= Whole(t) + (Second - 1)
<1>1. Second \in Nat \ {0}
  BY FlowsAssumption
<1>2. t \div Second \in Nat /\ t = Second * (t \div Second) + (t % Second) /\ t % Second \in 0..(Second - 1)
  BY <1>1
<1>3. Whole(t) = Second * (t \div Second)
  BY <1>1, <1>2 DEF Whole
<1> DEFINE q == Second * (t \div Second)
<1>4. q \in Nat /\ t = q + (t % Second) /\ Whole(t) = q
  BY <1>1, <1>2, <1>3
<1> HIDE DEF q
<1>5. QED
  BY <1>1, <1>2, <1>4

(* Less than a second apart there is one whole second. *)
LEMMA SameMultiple ==
  ASSUME NEW x \in Nat, NEW y \in Nat,
         x * Second <= y * Second, y * Second <= x * Second + (Second - 1)
  PROVE  x = y
<1>1. Second \in Nat \ {0}
  BY FlowsAssumption
<1>2. ASSUME NEW a \in Nat, NEW b \in Nat, a > b
      PROVE  a * Second >= b * Second + Second
  <2> DEFINE m == a - b - 1
             M == m * Second
             B == b * Second
  <2>1. m \in Nat /\ a = b + 1 + m
    BY <1>2
  <2> HIDE DEF m
  <2>2. a * Second = B + Second + M /\ M \in Nat /\ B \in Nat
    BY <1>1, <2>1
  <2> HIDE DEF M, B
  <2>3. a * Second >= B + Second
    BY <1>1, <2>2
  <2>4. QED
    BY <2>3 DEF B
<1> DEFINE X == x * Second
           Y == y * Second
<1>3. X \in Nat /\ Y \in Nat /\ X <= Y /\ Y <= X + (Second - 1)
  BY <1>1
<1>4. (x > y => X >= Y + Second) /\ (y > x => Y >= X + Second)
  BY <1>2
<1> HIDE DEF X, Y
<1>5. ~(x > y) /\ ~(y > x)
  BY <1>1, <1>3, <1>4
<1>6. QED
  BY <1>5

(* Times that lie r seconds apart at most have whole seconds that do. *)
LEMMA SecondsApart ==
  ASSUME NEW a \in Nat, NEW b \in Nat, NEW r \in Int, a <= b + r * Second
  PROVE  a \div Second <= b \div Second + r
<1> DEFINE x == a \div Second
           y == b \div Second
<1>1. Second \in Nat \ {0}
  BY FlowsAssumption
<1>2. x \in Nat /\ y \in Nat /\ x * Second <= a /\ b <= y * Second + (Second - 1)
  BY SecondOf DEF Whole
<1> HIDE DEF x, y
<1>3. SUFFICES ASSUME x > y + r
               PROVE  FALSE
  BY <1>2 DEF x, y
<1> DEFINE m == x - (y + r + 1)
<1>4. m \in Nat /\ x = y + r + 1 + m
  BY <1>2, <1>3
<1> HIDE DEF m
<1>5. x * Second = y * Second + r * Second + Second + m * Second
  BY <1>1, <1>2, <1>4
<1> DEFINE X == x * Second
           Y == y * Second
           Z == r * Second
           M == m * Second
<1>6. X \in Int /\ Y \in Int /\ Z \in Int /\ M \in Nat /\ X = Y + Z + Second + M
  BY <1>1, <1>2, <1>4, <1>5
<1>7. X <= a /\ b <= Y + (Second - 1) /\ a <= b + Z
  BY <1>2
<1> HIDE DEF X, Y, Z, M
<1>8. QED
  BY <1>1, <1>6, <1>7

(* And whole seconds that lie more than r apart are those of times that do. *)
LEMMA GapAbove ==
  ASSUME NEW a \in Nat, NEW b \in Nat, NEW r \in Nat, b \div Second - a \div Second > r
  PROVE  b > a + r * Second
<1>1. Second \in Nat \ {0}
  BY FlowsAssumption
<1>2. SUFFICES ASSUME b <= a + r * Second
               PROVE  FALSE
  BY <1>1
<1>3. b \div Second <= a \div Second + r
  BY <1>2, SecondsApart
<1>4. a \div Second \in Nat /\ b \div Second \in Nat
  BY SecondOf
<1>5. QED
  BY <1>3, <1>4

(* The windows of two starts have no event in common: there is a gap above the
   window's length between the earlier start, or a later firing, and the later
   start. *)
LEMMA StartsApart ==
  ASSUME NEW s \in Seq(Event), NEW a \in Starts(s), NEW b \in Starts(s), a < b
  PROVE  Recent(s, a) \cap Recent(s, b) = {}
<1> DEFINE n == Len(s)
           F == Firings(s)
<1>1. n \in Nat /\ DOMAIN s = 1..n /\ \A i \in 1..n : s[i].ts \in Nat
  <2>1. \A i \in 1..Len(s) : s[i] \in Event
    OBVIOUS
  <2>2. QED
    BY <2>1 DEF Event
<1>2. /\ a \in F /\ b \in F /\ F \subseteq Taken(s) /\ Taken(s) \subseteq 1..n
      /\ \A i \in Starts(s) : \A j \in F : Follows(F, j, i) => Gap(s, j, i) > Window
  BY <1>1 DEF Starts, Firings, Taken
<1>3. \A i \in Taken(s) : \A j \in 1..i : s[j].ts <= s[i].ts
  <2> SUFFICES ASSUME NEW i \in Taken(s), NEW j \in 1..i
               PROVE  s[j].ts <= s[i].ts
    OBVIOUS
  <2>1. i \in 1..n /\ \A l \in 1..(i - 1) : s[l].ts <= s[i].ts
    BY <1>2 DEF Taken
  <2>2. CASE j = i
    BY <1>1, <2>1, <2>2
  <2>3. CASE j # i
    BY <2>1, <2>3
  <2>4. QED
    BY <2>2, <2>3
<1>4. Window \in Nat /\ Second \in Nat \ {0}
  BY FlowsAssumption
<1> HIDE DEF n, F
<1> DEFINE V == {j \in F : j < b}
<1>5. PICK j \in V : \A l \in V : l <= j
  <2>1. V \subseteq 1..n /\ a \in V
    BY <1>2
  <2> HIDE DEF V
  <2>2. QED
    BY <1>1, <2>1, GreatestNatural
<1>6. j \in F /\ j < b /\ a <= j /\ \A l \in F : l <= j \/ b <= l
  <2>1. \A l \in F : l \in Nat
    BY <1>1, <1>2
  <2>2. b \in Nat /\ a \in V
    BY <1>2, <2>1
  <2>3. QED
    BY <1>5, <2>1, <2>2
<1>7. s[b].ts > s[j].ts + Window * Second
  <2>1. Gap(s, j, b) > Window
    BY <1>2, <1>6 DEF Follows
  <2>2. b \in 1..n /\ j \in 1..n
    BY <1>2, <1>6
  <2>3. s[b].ts \in Nat /\ s[j].ts \in Nat
    BY <1>1, <2>2
  <2>4. s[b].ts \div Second - s[j].ts \div Second > Window
    BY <2>1 DEF Gap
  <2>5. QED
    BY <1>4, <2>3, <2>4, GapAbove
<1>8. ASSUME NEW k \in Recent(s, a), k \in Recent(s, b)
      PROVE  FALSE
  <2>1. k \in Taken(s) /\ k <= a /\ s[b].ts <= s[k].ts + Window * Second
    BY <1>8 DEF Recent
  <2>2. k \in 1..n /\ a \in 1..n /\ b \in 1..n /\ j \in 1..n
    BY <1>2, <1>6, <2>1
  <2>3. a \in Taken(s) /\ j \in Taken(s) /\ k \in 1..a /\ a \in 1..j
    BY <1>1, <1>2, <1>6, <2>1, <2>2
  <2>4. s[k].ts <= s[a].ts /\ s[a].ts <= s[j].ts
    BY <1>3, <2>3
  <2> DEFINE W == Window * Second
  <2>5. W \in Nat /\ s[b].ts <= s[k].ts + W /\ s[b].ts > s[j].ts + W
    BY <1>4, <1>7, <2>1
  <2> HIDE DEF W
  <2>6. s[k].ts \in Nat /\ s[a].ts \in Nat /\ s[j].ts \in Nat /\ s[b].ts \in Nat
    BY <1>1, <2>2
  <2>7. \A t, u, v, w \in Nat : t <= u /\ u <= v /\ w <= t + W => ~(w > v + W)
    BY <2>5
  <2>8. QED
    BY <2>4, <2>5, <2>6, <2>7
<1>9. QED
  BY <1>8

(* So each start has as many events of its own as the formula asks for. *)
LEMMA EpisodesOfAnyLog ==
  ASSUME NEW s \in Seq(Event)
  PROVE  Episodes(s) * MinScanners <= Len(s)
<1> DEFINE n == Len(s)
           St(m) == {i \in Starts(s) : i <= m}
           Ev(m) == {k \in 1..n : \E i \in St(m) : k \in Recent(s, i)}
<1>1. n \in Nat /\ DOMAIN s = 1..n /\ MinScanners \in Nat
  BY FlowsAssumption
<1>2. Starts(s) \subseteq 1..n /\ Starts(s) \subseteq Firings(s)
  BY <1>1 DEF Starts, Firings, Taken
<1>3. \A i : Recent(s, i) \in SUBSET (1..n)
  BY <1>1 DEF Recent, Taken
<1> HIDE DEF n
<1>4. IsFiniteSet(1..n) /\ Cardinality(1..n) = n
  BY <1>1, FS_Interval
<1>5. \A m : St(m) \in SUBSET (1..n) /\ Ev(m) \in SUBSET (1..n)
  BY <1>2
<1>6. ASSUME NEW X \in SUBSET (1..n)
      PROVE  IsFiniteSet(X) /\ Cardinality(X) \in Nat /\ Cardinality(X) <= n
  BY <1>4, FS_Subset, FS_CardinalityType
<1>7. ASSUME NEW i \in Starts(s)
      PROVE  Cardinality(Recent(s, i)) >= MinScanners
  <2> DEFINE X == Recent(s, i)
             T == {s[k].src : k \in X}
             f == [k \in X |-> s[k].src]
  <2>1. IsFiniteSet(X) /\ Cardinality(X) \in Nat
    BY <1>3, <1>6
  <2>2. T = {f[k] : k \in X}
    OBVIOUS
  <2>3. Cardinality(T) >= MinScanners
    <3>1. i \in Firings(s)
      BY <1>2
    <3>2. QED
      BY Zenon, <3>1 DEF Firings
  <2> HIDE DEF X, f, T
  <2>4. IsFiniteSet(T) /\ Cardinality(T) <= Cardinality(X)
    BY <2>1, <2>2, ImageFinite
  <2>5. Cardinality(T) \in Nat
    BY <2>4, FS_CardinalityType
  <2>6. Cardinality(X) >= MinScanners
    BY <1>1, <2>1, <2>3, <2>4, <2>5
  <2>7. QED
    BY <2>6 DEF X
<1> DEFINE Good == {m \in 0..n : Cardinality(St(m)) * MinScanners <= Cardinality(Ev(m))}
<1>8. 0 \in Good
  <2>1. St(0) = {}
    BY <1>1, <1>2
  <2>2. Cardinality(St(0)) = 0
    BY <2>1, FS_EmptySet
  <2>3. Cardinality(Ev(0)) \in Nat
    BY <1>5, <1>6
  <2> HIDE DEF St, Ev
  <2>4. QED
    BY <1>1, <2>2, <2>3
<1>9. ASSUME NEW m \in 1..n, m - 1 \in Good
      PROVE  m \in Good
  <2>1. m \in 0..n /\ Cardinality(St(m - 1)) * MinScanners <= Cardinality(Ev(m - 1))
    BY <1>1, <1>9
  <2>2. CASE m \notin Starts(s)
    <3>1. St(m) = St(m - 1)
      BY <1>1, <1>2, <2>2
    <3>2. Ev(m) = Ev(m - 1)
      BY <3>1
    <3> HIDE DEF St, Ev
    <3>3. QED
      BY <2>1, <3>1, <3>2
  <2>3. CASE m \in Starts(s)
    <3> DEFINE X == Recent(s, m)
               c == Cardinality(St(m - 1))
               e == Cardinality(Ev(m - 1))
    <3>1. St(m) = St(m - 1) \cup {m} /\ m \notin St(m - 1)
      BY <1>1, <1>2, <2>3
    <3>2. Ev(m) = Ev(m - 1) \cup X
      BY <1>3, <3>1
    <3>3. Ev(m - 1) \cap X = {}
      <4>1. ASSUME NEW i \in St(m - 1)
            PROVE  Recent(s, i) \cap X = {}
        <5>1. i \in Starts(s) /\ i < m
          BY <1>1, <1>2
        <5>2. QED
          BY <2>3, <5>1, StartsApart
      <4>2. QED
        BY <4>1
    <3>4. /\ St(m - 1) \in SUBSET (1..n) /\ Ev(m - 1) \in SUBSET (1..n) /\ X \in SUBSET (1..n)
          /\ Cardinality(X) >= MinScanners
      BY <1>3, <1>5, <1>7, <2>3
    <3> HIDE DEF St, Ev, X
    <3>5. /\ IsFiniteSet(St(m - 1)) /\ IsFiniteSet(Ev(m - 1)) /\ IsFiniteSet(X)
          /\ c \in Nat /\ e \in Nat /\ Cardinality(X) \in Nat
      BY <1>6, <3>4
    <3>6. Cardinality(St(m)) = c + 1
      BY <3>1, <3>5, FS_AddElement
    <3>7. Cardinality(Ev(m)) = e + Cardinality(X)
      <4>1. Cardinality(Ev(m - 1) \cup X) = e + Cardinality(X) - Cardinality({})
        BY <3>3, <3>5, FS_Union
      <4>2. QED
        BY <3>2, <3>5, <4>1, FS_EmptySet
    <3> HIDE DEF c, e
    <3>8. c * MinScanners <= e
      BY <2>1 DEF c, e
    <3>9. (c + 1) * MinScanners <= e + Cardinality(X)
      <4>1. (c + 1) * MinScanners = c * MinScanners + MinScanners /\ c * MinScanners \in Nat
        BY <1>1, <3>5
      <4>2. QED
        BY <1>1, <3>4, <3>5, <3>8, <4>1
    <3>10. QED
      BY <2>1, <3>6, <3>7, <3>9
  <2>4. QED
    BY <2>2, <2>3
<1>10. n \in Good
  <2> HIDE DEF Good
  <2>1. QED
    BY <1>1, <1>8, <1>9, Upwards
<1>11. Starts(s) = St(n)
  BY <1>1, <1>2
<1>12. Cardinality(Ev(n)) <= n /\ Cardinality(Ev(n)) \in Nat /\ Cardinality(St(n)) \in Nat
  BY <1>5, <1>6
<1> HIDE DEF St, Ev
<1>13. Cardinality(Starts(s)) * MinScanners <= n
  <2>1. Cardinality(St(n)) * MinScanners <= Cardinality(Ev(n)) /\ Cardinality(St(n)) * MinScanners \in Nat
    BY <1>1, <1>10, <1>12
  <2>2. QED
    BY <1>1, <1>11, <1>12, <2>1
<1>14. QED
  BY <1>13 DEF Episodes, n
-----------------------------------------------------------------------------
(* A capture with other times: the flows are the same but for those. *)
Redated(c) == /\ c \in Seq(Flow) /\ DOMAIN c = DOMAIN flows
              /\ \A i \in DOMAIN flows : c[i].dst = flows[i].dst /\ c[i].src = flows[i].src

(* Truncated is one, with the whole seconds of each time. *)
LEMMA TruncatedRedates ==
  ASSUME flows \in Seq(Flow)
  PROVE  /\ Redated(Truncated) /\ Redated(flows)
         /\ \A i \in DOMAIN flows : Truncated[i].ts = Whole(flows[i].ts) /\ flows[i].ts \in Nat
<1>1. DOMAIN flows = 1..Len(flows) /\ Len(flows) \in Nat
  OBVIOUS
<1>2. \A i \in DOMAIN flows : flows[i] \in Flow
  OBVIOUS
<1>3. \A i \in DOMAIN flows : flows[i].ts \in Nat
  BY <1>2 DEF Flow
<1>4. \A i \in DOMAIN flows : Whole(flows[i].ts) \in Nat
  BY <1>3, SecondOf
<1>5. ASSUME NEW i \in DOMAIN flows
      PROVE  /\ Truncated[i] \in Flow /\ Truncated[i].ts = Whole(flows[i].ts)
             /\ Truncated[i].dst = flows[i].dst /\ Truncated[i].src = flows[i].src
  <2> DEFINE w == Whole(flows[i].ts)
  <2>1. Truncated[i] = [flows[i] EXCEPT !.ts = w]
    BY DEF Truncated
  <2>2. flows[i] \in Flow /\ w \in Nat
    BY <1>2, <1>4
  <2> HIDE DEF w
  <2>3. Truncated[i] \in Flow /\ Truncated[i].ts = w
        /\ Truncated[i].dst = flows[i].dst /\ Truncated[i].src = flows[i].src
    BY <2>1, <2>2 DEF Flow
  <2>4. QED
    BY <2>3 DEF w
<1>6. Truncated \in Seq(Flow) /\ DOMAIN Truncated = DOMAIN flows
  <2>1. Truncated = [i \in 1..Len(flows) |-> Truncated[i]]
    BY <1>1 DEF Truncated
  <2>2. QED
    BY <1>1, <1>5, <2>1
<1>7. QED
  BY <1>3, <1>5, <1>6 DEF Redated

(* The events the capture has, sampled or not. *)
EventsOf(c) == {[ts |-> c[i].ts, src |-> c[i].src] : i \in DOMAIN c}

(* They are finitely many, and events. *)
LEMMA EventsOfFinite ==
  ASSUME NEW c \in Seq(Flow)
  PROVE  IsFiniteSet(EventsOf(c)) /\ EventsOf(c) \subseteq Event
<1>1. \A i \in DOMAIN c : c[i] \in Flow
  OBVIOUS
<1>2. \A i \in DOMAIN c : [ts |-> c[i].ts, src |-> c[i].src] \in Event
  BY <1>1 DEF Flow, Event
<1> DEFINE f == [i \in DOMAIN c |-> [ts |-> c[i].ts, src |-> c[i].src]]
<1>3. EventsOf(c) = {f[i] : i \in DOMAIN c}
  BY DEF EventsOf
<1>4. DOMAIN c = 1..Len(c) /\ Len(c) \in Nat
  OBVIOUS
<1>5. IsFiniteSet(DOMAIN c)
  BY <1>4, FS_Interval
<1> HIDE DEF f
<1>6. IsFiniteSet(EventsOf(c))
  BY <1>3, <1>5, ImageFinite
<1>7. QED
  BY <1>2, <1>6 DEF EventsOf

(* s holds the events of S by time, counted from t0. *)
LogLists(s, S, t0) ==
  /\ s \in Seq(Event) /\ t0 \in Nat
  /\ \A i, j \in 1..Len(s) : i <= j => s[i].ts <= s[j].ts
  /\ \A e \in S : \E k \in 1..Len(s) : s[k].ts + t0 = e.ts /\ s[k].src = e.src
  /\ \A k \in 1..Len(s) : \E e \in S : s[k].ts + t0 = e.ts /\ s[k].src = e.src

(* Rebased counts from the first event there is. *)
LEMMA RebasedEvents ==
  ASSUME NEW S, S \subseteq Event
  PROVE  \E t0 \in Nat : /\ \A e \in S : t0 <= e.ts
                         /\ Rebased(S) = {[e EXCEPT !.ts = @ - t0] : e \in S}
<1> DEFINE T == {e.ts : e \in S}
           first(t) == \A e \in S : t <= e.ts
           t0 == CHOOSE t \in T : first(t)
<1>1. Rebased(S) = {[e EXCEPT !.ts = @ - t0] : e \in S}
  BY Zenon DEF Rebased
<1>2. CASE S = {}
  <2>1. Rebased(S) = {[e EXCEPT !.ts = @ - 0] : e \in S}
    <3> HIDE DEF t0
    <3>1. QED
      BY <1>1, <1>2
  <2>2. QED
    BY <1>2, <2>1
<1>3. CASE S # {}
  <2>1. T \subseteq Nat /\ T # {}
    BY <1>3 DEF Event
  <2>2. \E t \in T : \A u \in T : t <= u
    <3> HIDE DEF T
    <3>1. QED
      BY <2>1, LeastNatural
  <2>3. \E t \in T : first(t)
    BY <2>2
  <2>4. t0 \in T /\ first(t0)
    <3> HIDE DEF T, first
    <3>1. QED
      BY <2>3
  <2>5. t0 \in Nat
    BY <2>1, <2>4
  <2> HIDE DEF t0
  <2>6. QED
    BY <1>1, <2>4, <2>5
<1>4. QED
  BY <1>2, <1>3

(* The log of a set of events is sorted and has each of them. *)
LEMMA LogOfLists ==
  ASSUME NEW S, S \subseteq Event, IsFiniteSet(S)
  PROVE  \E t0 : LogLists(LogOf(S), S, t0)
<1>1. PICK t0 \in Nat : /\ \A e \in S : t0 <= e.ts
                        /\ Rebased(S) = {[e EXCEPT !.ts = @ - t0] : e \in S}
  BY RebasedEvents
<1> DEFINE E == Rebased(S)
           R == Earlier(E)
           n == Cardinality(E)
           s == LogOf(S)
           f == [e \in S |-> [e EXCEPT !.ts = @ - t0]]
<1>2. \A e \in S : e.ts \in Nat /\ e.src \in Hosts /\ f[e] = [ts |-> e.ts - t0, src |-> e.src]
  BY DEF Event
<1>3. E = {f[e] : e \in S}
  BY <1>1
<1>4. s = Ranked(E, R)
  BY DEF LogOf
<1> HIDE DEF E, f
<1>5. \A e \in S : /\ f[e] \in Event
                   /\ f[e].ts + t0 = e.ts /\ f[e].src = e.src
  <2> SUFFICES ASSUME NEW e \in S
               PROVE  f[e] \in Event /\ f[e].ts + t0 = e.ts /\ f[e].src = e.src
    OBVIOUS
  <2>1. e.ts - t0 \in Nat /\ (e.ts - t0) + t0 = e.ts /\ e.src \in Hosts
    <3>1. e.ts \in Nat /\ e.src \in Hosts /\ t0 <= e.ts
      BY <1>1, <1>2
    <3>2. QED
      BY <3>1
  <2>2. f[e] = [ts |-> e.ts - t0, src |-> e.src]
    BY <1>2
  <2>3. QED
    BY <2>1, <2>2 DEF Event
<1>6. IsFiniteSet(E) /\ E \subseteq Event
  BY <1>3, <1>5, ImageFinite
<1>7. \A a \in E : a.ts \in Nat /\ a.src \in Nat
  BY <1>6, FlowsAssumption DEF Event
<1>8. \A a, b \in E : a.ts = b.ts /\ a.src = b.src => a = b
  BY <1>6 DEF Event
<1>9. ASSUME NEW a \in E, NEW b \in E
      PROVE  <<a, b>> \in R <=> a.ts < b.ts \/ (a.ts = b.ts /\ a.src < b.src)
  <2> DEFINE p == <<a, b>>
  <2>1. p \in E \X E /\ p[1] = a /\ p[2] = b
    OBVIOUS
  <2> HIDE DEF p
  <2>2. p \in R <=> a.ts < b.ts \/ (a.ts = b.ts /\ a.src < b.src)
    BY <2>1 DEF Earlier
  <2>3. QED
    BY <2>2 DEF p
<1> HIDE DEF R
<1>10. Orders(R, E)
  <2>1. \A a \in E : <<a, a>> \notin R
    BY <1>7, <1>9
  <2>2. \A a, b \in E : a # b => <<a, b>> \in R \/ <<b, a>> \in R
    BY <1>7, <1>8, <1>9
  <2>3. \A a, b, c \in E : <<a, b>> \in R /\ <<b, c>> \in R => <<a, c>> \in R
    BY <1>7, <1>9
  <2>4. QED
    BY <2>1, <2>2, <2>3 DEF Orders
<1>11. /\ n \in Nat /\ s \in [1..n -> E]
       /\ \A a \in E : \E k \in 1..n : s[k] = a
       /\ \A i, j \in 1..n : i < j => <<s[i], s[j]>> \in R
  BY <1>4, <1>6, <1>10, RankedLists
<1> HIDE DEF n, s
<1>12. s \in Seq(Event) /\ Len(s) = n
  BY <1>6, <1>11
<1>13. ASSUME NEW i \in 1..n, NEW j \in 1..n, i <= j
       PROVE  s[i].ts <= s[j].ts
  <2>1. s[i] \in E /\ s[j] \in E
    BY <1>11
  <2>2. CASE i = j
    BY <1>7, <2>1, <2>2
  <2>3. CASE i # j
    <3>1. <<s[i], s[j]>> \in R
      BY <1>11, <1>13, <2>3
    <3>2. QED
      BY <1>7, <1>9, <2>1, <3>1
  <2>4. QED
    BY <2>2, <2>3
<1>14. \A e \in S : \E k \in 1..n : s[k].ts + t0 = e.ts /\ s[k].src = e.src
  <2> SUFFICES ASSUME NEW e \in S
               PROVE  \E k \in 1..n : s[k].ts + t0 = e.ts /\ s[k].src = e.src
    OBVIOUS
  <2>1. f[e] \in E
    BY <1>3
  <2>2. PICK k \in 1..n : s[k] = f[e]
    BY <1>11, <2>1
  <2>3. QED
    BY <1>5, <2>2
<1>15. \A k \in 1..n : \E e \in S : s[k].ts + t0 = e.ts /\ s[k].src = e.src
  <2> SUFFICES ASSUME NEW k \in 1..n
               PROVE  \E e \in S : s[k].ts + t0 = e.ts /\ s[k].src = e.src
    OBVIOUS
  <2>1. s[k] \in E
    BY <1>11
  <2>2. PICK e \in S : s[k] = f[e]
    BY <1>3, <2>1
  <2>3. QED
    BY <1>5, <2>2
<1>16. LogLists(s, S, t0)
  BY <1>12, <1>13, <1>14, <1>15 DEF LogLists
<1>17. QED
  BY <1>16 DEF s
-----------------------------------------------------------------------------
(* Two numbers in one bucket are less than a bucket apart. *)
LEMMA SameBucket ==
  ASSUME NEW a \in Nat, NEW b \in Nat, NEW B \in Nat \ {0}, a \div B = b \div B
  PROVE  a <= b + (B - 1)
<1>1. a \div B \in Nat /\ a = B * (a \div B) + (a % B) /\ a % B \in 0..(B - 1)
  OBVIOUS
<1>2. b \div B \in Nat /\ b = B * (b \div B) + (b % B) /\ b % B \in 0..(B - 1)
  OBVIOUS
<1> DEFINE q == B * (a \div B)
<1>3. q \in Nat /\ a = q + (a % B) /\ b = q + (b % B)
  BY <1>1, <1>2
<1> HIDE DEF q
<1>4. QED
  BY <1>1, <1>2, <1>3

(* Two times in one bucket, in seconds and in parts of one. *)
LEMMA SameBucketOf ==
  ASSUME NEW a \in Nat, NEW b \in Nat, BucketOf(a) = BucketOf(b)
  PROVE  /\ a \div Second <= b \div Second + (Bucket - 1)
         /\ a <= b + (Bucket * Second - 1)
<1> DEFINE x == a \div Second
           y == b \div Second
<1>1. Bucket \in Nat \ {0} /\ Second \in Nat \ {0}
  BY FlowsAssumption
<1>2. /\ x \in Nat /\ y \in Nat /\ y * Second <= b /\ a <= x * Second + (Second - 1)
  BY SecondOf DEF Whole
<1>3. x \div Bucket = y \div Bucket
  BY DEF BucketOf
<1> HIDE DEF x, y
<1>4. x <= y + (Bucket - 1)
  BY <1>1, <1>2, <1>3, SameBucket
<1> DEFINE m == y + (Bucket - 1) - x
           X == x * Second
           Y == y * Second
           Z == Bucket * Second
           M == m * Second
<1>5. m \in Nat /\ x = y + Bucket - 1 - m
  BY <1>1, <1>2, <1>4
<1>6. X = Y + Z - Second - M /\ X \in Nat /\ Y \in Nat /\ Z \in Nat /\ M \in Nat
  <2> HIDE DEF m
  <2>1. QED
    BY <1>1, <1>2, <1>5
<1>7. Y <= b /\ a <= X + (Second - 1)
  BY <1>2
<1> HIDE DEF X, Y, Z, M
<1>8. a <= b + (Z - 1)
  BY <1>1, <1>6, <1>7
<1>9. QED
  BY <1>4, <1>8 DEF x, y, Z

(* The whole seconds of a time are in its second. *)
LEMMA WholeSecond ==
  ASSUME NEW t \in Nat
  PROVE  Whole(t) \div Second = t \div Second
<1> DEFINE w == Whole(t)
           x == t \div Second
           y == w \div Second
<1>1. x \in Nat /\ w \in Nat /\ w = x * Second
  BY SecondOf DEF Whole
<1> HIDE DEF w, x
<1>2. y \in Nat /\ y * Second <= w /\ w <= y * Second + (Second - 1)
  BY <1>1, SecondOf DEF Whole
<1> HIDE DEF y
<1>3. y = x
  BY <1>1, <1>2, SameMultiple
<1>4. QED
  BY <1>3 DEF x, y, w

(* The capture as the script that writes the log dates it. *)
Dated == IF script = "ton_iot" THEN Truncated ELSE flows

(* Only the log of IoT-23 has parts of a second, and no script moves a flow to
   another bucket. *)
LEMMA DatedTimes ==
  ASSUME TypeInv, script # "ctu13", NEW i \in DOMAIN flows
  PROVE  /\ Dated[i].ts \in Nat /\ BucketOf(Dated[i].ts) = BucketOf(flows[i].ts)
         /\ script # "iot23" => Dated[i].ts = Whole(Dated[i].ts)
<1>1. Truncated[i].ts = Whole(flows[i].ts) /\ flows[i].ts \in Nat
  BY TruncatedRedates DEF TypeInv
<1>2. CASE script = "ton_iot"
  <2> DEFINE t == flows[i].ts
             w == Whole(t)
  <2>1. Dated[i].ts = w /\ t \in Nat
    BY <1>1, <1>2 DEF Dated
  <2> HIDE DEF t
  <2>2. w \in Nat /\ w \div Second = t \div Second
    BY <2>1, SecondOf, WholeSecond
  <2>3. BucketOf(w) = BucketOf(t) /\ Whole(w) = w
    BY <2>2 DEF BucketOf, Whole
  <2>4. QED
    BY <2>1, <2>2, <2>3 DEF t
<1>3. CASE script = "wustl_water"
  BY <1>1, <1>3 DEF Dated, TypeInv
<1>4. CASE script = "iot23"
  BY <1>1, <1>4 DEF Dated
<1>5. QED
  BY <1>2, <1>3, <1>4 DEF TypeInv, AllScripts

(* An event stands for a flow: its host, and its time but for a bucket. *)
StandsFor(e, i) == /\ e.src = flows[i].src /\ e.ts \in Nat
                   /\ BucketOf(e.ts) = BucketOf(flows[i].ts)
                   /\ script # "iot23" => e.ts = Whole(e.ts)

FlowsOf(d) == {i \in DOMAIN flows : flows[i].src = d}

(* What is sampled from a capture are events of it. *)
LEMMA SampledEvents ==
  ASSUME NEW c, Redated(c), NEW d, NEW X \in SUBSET FlowsOf(d), NEW R
  PROVE  Sampled(c, d, X, R) \subseteq EventsOf(c)
BY DEF Sampled, EventsOf, Redated, FlowsOf

(* The sampling keeps an event for each flow of a host. *)
LEMMA SampledKeeps ==
  ASSUME TypeInv, script # "ctu13", NEW d, NEW X \in SUBSET FlowsOf(d), NEW i \in X
  PROVE  \E e \in Sampled(Dated, d, X, InCapture(X)) : StandsFor(e, i)
<1> DEFINE B(j) == BucketOf(Dated[j].ts)
           V == {j \in X : B(j) = B(i)}
<1>1. \A j \in X : j \in DOMAIN flows /\ j \in Nat /\ flows[j].src = d
  <2>1. \A j \in DOMAIN flows : j \in Nat
    BY DEF TypeInv
  <2>2. QED
    BY <2>1 DEF FlowsOf
<1>2. i \in V /\ V \subseteq Nat
  BY <1>1
<1>3. PICK k \in V : \A j \in V : k <= j
  <2> HIDE DEF V
  <2>1. QED
    BY <1>2, LeastNatural
<1>4. k \in X /\ B(k) = B(i)
  BY <1>3
<1>5. ASSUME NEW j \in X, <<j, k>> \in InCapture(X)
      PROVE  B(j) # B(k)
  <2>1. j < k
    <3> DEFINE p == <<j, k>>
    <3>1. p[1] = j /\ p[2] = k /\ p \in InCapture(X)
      BY <1>5
    <3> HIDE DEF p
    <3>2. QED
      BY <3>1 DEF InCapture
  <2>2. j \notin V
    <3> HIDE DEF B
    <3>1. SUFFICES ASSUME j \in V
                   PROVE  FALSE
      OBVIOUS
    <3>2. k <= j /\ j \in Nat /\ k \in Nat
      BY <1>1, <1>3, <1>4, <3>1
    <3>3. QED
      BY <2>1, <3>2
  <2> HIDE DEF B
  <2>3. QED
    BY <1>4, <2>2
<1> DEFINE e == [ts |-> Dated[k].ts, src |-> d]
<1>6. e \in Sampled(Dated, d, X, InCapture(X))
  BY <1>4, <1>5 DEF Sampled
<1>7. StandsFor(e, i)
  <2>1. i \in DOMAIN flows /\ k \in DOMAIN flows
    BY <1>1, <1>4
  <2>2. /\ Dated[k].ts \in Nat /\ (script # "iot23" => Dated[k].ts = Whole(Dated[k].ts))
        /\ BucketOf(Dated[i].ts) = BucketOf(flows[i].ts)
    BY <2>1, DatedTimes
  <2>3. e.ts = Dated[k].ts /\ e.src = flows[i].src
    BY <1>1
  <2> HIDE DEF e
  <2>4. QED
    BY <1>4, <2>2, <2>3 DEF StandsFor
<1> HIDE DEF e
<1>8. QED
  BY <1>6, <1>7

(* Two events that stand for flows within the room are within the window. *)
LEMMA SampledWindow ==
  ASSUME TypeInv, script # "ctu13", NEW q \in DOMAIN flows, NEW p \in DOMAIN flows, NEW r \in Nat,
         flows[q].ts <= r + Room, r <= flows[p].ts,
         NEW e, StandsFor(e, q), NEW g, StandsFor(g, p)
  PROVE  e.ts <= g.ts + Window * Second
<1> DEFINE a == e.ts
           b == g.ts
           u == flows[q].ts
           v == flows[p].ts
           Z == Window * Second
<1>1. Window \in Nat /\ Bucket \in Nat \ {0} /\ Second \in Nat \ {0} /\ Z \in Nat
  <2>1. Window \in Nat /\ Bucket \in Nat \ {0} /\ Second \in Nat \ {0}
    BY FlowsAssumption
  <2>2. QED
    BY <2>1
<1>2. a \in Nat /\ b \in Nat /\ u \in Nat /\ v \in Nat
  <2>1. u \in Nat /\ v \in Nat
    BY TruncatedRedates DEF TypeInv
  <2>2. QED
    BY <2>1 DEF StandsFor
<1>3. BucketOf(a) = BucketOf(u) /\ BucketOf(v) = BucketOf(b)
  BY DEF StandsFor
<1>4. script # "iot23" => a = Whole(a) /\ b = Whole(b)
  BY DEF StandsFor
<1>5. u <= r + Room /\ r <= v
  OBVIOUS
<1> HIDE DEF a, b, u, v
<1>6. CASE script = "iot23"
  <2> DEFINE Y == Bucket * Second
  <2>1. a <= u + (Y - 1) /\ v <= b + (Y - 1) /\ Y \in Nat
    BY <1>1, <1>2, <1>3, SameBucketOf
  <2>2. u <= r + (Z - 2 * (Y - 1))
    BY <1>5, <1>6 DEF Room
  <2> HIDE DEF Y, Z
  <2>3. a <= b + Z
    BY <1>1, <1>2, <1>5, <2>1, <2>2
  <2>4. QED
    BY <2>3 DEF a, b, Z
<1>7. CASE script # "iot23"
  <2> DEFINE c == Window - 2 * (Bucket - 1)
             sa == a \div Second
             sb == b \div Second
             su == u \div Second
             sv == v \div Second
             C == c * Second
  <2>1. c \in Int /\ C \in Int
    BY <1>1
  <2>2. u <= r + C
    BY <1>5, <1>7 DEF Room
  <2>3. u <= v + C
    <3> HIDE DEF C
    <3>1. QED
      BY <1>2, <1>5, <2>1, <2>2
  <2>4. su <= sv + c
    <3> HIDE DEF c
    <3>1. QED
      BY <1>2, <2>1, <2>3, SecondsApart
  <2>5. sa <= su + (Bucket - 1) /\ sv <= sb + (Bucket - 1)
    BY <1>2, <1>3, SameBucketOf
  <2>6. sa \in Nat /\ sb \in Nat /\ su \in Nat /\ sv \in Nat
    BY <1>2, SecondOf
  <2>7. a = sa * Second /\ b = sb * Second
    BY <1>4, <1>7 DEF Whole
  <2> HIDE DEF sa, sb, su, sv
  <2>8. sa <= sb + Window
    BY <1>1, <2>4, <2>5, <2>6
  <2> DEFINE m == sb + Window - sa
             A == sa * Second
             D == sb * Second
             M == m * Second
  <2>9. m \in Nat /\ sa = sb + Window - m
    BY <1>1, <2>6, <2>8
  <2>10. A = D + Z - M /\ M \in Nat
    <3> HIDE DEF m
    <3>1. QED
      BY <1>1, <2>6, <2>9
  <2>11. a = A /\ b = D
    BY <2>7
  <2> HIDE DEF A, D, M, Z, C, c
  <2>12. a <= b + Z
    BY <1>1, <1>2, <2>10, <2>11
  <2>13. QED
    BY <2>12 DEF a, b, Z
<1>8. QED
  BY <1>6, <1>7

(* A sorted log with events of enough hosts within the window makes the formula
   fire. *)
LEMMA CampaignFires ==
  ASSUME NEW S, NEW s, NEW t0, LogLists(s, S, t0), S \subseteq Event, NEW G \in SUBSET S,
         \A e, g \in G : e.ts <= g.ts + Window * Second,
         Cardinality({e.src : e \in G}) >= MinScanners
  PROVE  Firings(s) # {}
<1> DEFINE n == Len(s)
           W == Window * Second
           I == {k \in 1..n : \E e \in G : s[k].ts + t0 = e.ts /\ s[k].src = e.src}
           T == {e.src : e \in G}
<1>1. /\ n \in Nat /\ DOMAIN s = 1..n /\ t0 \in Nat
      /\ \A i, j \in 1..n : i <= j => s[i].ts <= s[j].ts
      /\ \A i \in 1..n : s[i] \in Event
      /\ \A e \in S : \E k \in 1..n : s[k].ts + t0 = e.ts /\ s[k].src = e.src
  <2>1. s \in Seq(Event)
    BY DEF LogLists
  <2>2. n \in Nat /\ DOMAIN s = 1..n /\ \A i \in 1..n : s[i] \in Event
    BY <2>1
  <2>3. QED
    BY <2>2 DEF LogLists
<1>2. \A k \in 1..n : s[k].ts \in Nat
  BY <1>1 DEF Event
<1>3. W \in Nat /\ MinScanners \in Nat \ {0}
  <2>1. Window \in Nat /\ Second \in Nat /\ MinScanners \in Nat \ {0}
    BY FlowsAssumption
  <2>2. QED
    BY <2>1
<1>4. \A e \in G : e.ts \in Nat
  BY DEF Event
<1>5. \A e, g \in G : e.ts <= g.ts + W
  OBVIOUS
<1> HIDE DEF n, W
<1>6. ASSUME NEW e \in G
      PROVE  \E k \in I : s[k].src = e.src
  <2>1. PICK k \in 1..n : s[k].ts + t0 = e.ts /\ s[k].src = e.src
    BY <1>1
  <2>2. k \in I
    BY <2>1
  <2>3. QED
    BY <2>1, <2>2
<1>7. I # {}
  <2>1. G # {}
    <3>1. SUFFICES ASSUME G = {}
                   PROVE  FALSE
      OBVIOUS
    <3>2. T = {}
      BY <3>1
    <3>3. Cardinality(T) = 0 /\ Cardinality(T) >= MinScanners
      BY <3>2, FS_EmptySet
    <3>4. QED
      BY <1>3, <3>3
  <2>2. QED
    BY <1>6, <2>1
<1>8. I \subseteq 1..n
  OBVIOUS
<1>9. ASSUME NEW i \in I, NEW k \in I
      PROVE  s[i].ts <= s[k].ts + W
  <2>1. PICK e \in G : s[i].ts + t0 = e.ts
    OBVIOUS
  <2>2. PICK g \in G : s[k].ts + t0 = g.ts
    OBVIOUS
  <2>3. s[i].ts \in Nat /\ s[k].ts \in Nat
    <3>1. i \in 1..n /\ k \in 1..n
      BY <1>8
    <3> HIDE DEF I
    <3>2. QED
      BY <1>2, <3>1
  <2>4. e.ts \in Nat /\ g.ts \in Nat /\ e.ts <= g.ts + W
    BY <1>4, <1>5
  <2> HIDE DEF I
  <2>5. t0 \in Nat
    BY <1>1
  <2>6. QED
    BY <1>3, <2>1, <2>2, <2>3, <2>4, <2>5
<1> HIDE DEF I
<1>10. PICK i \in I : \A k \in I : k <= i
  BY <1>1, <1>7, <1>8, GreatestNatural
<1>11. Taken(s) = 1..n
  <2>1. ASSUME NEW k \in 1..n, NEW j \in 1..(k - 1)
        PROVE  s[j].ts <= s[k].ts
    BY <1>1
  <2>2. QED
    BY <1>1, <2>1 DEF Taken
<1>12. I \subseteq Recent(s, i)
  BY <1>8, <1>9, <1>10, <1>11 DEF Recent, W
<1> DEFINE X == Recent(s, i)
           f == [k \in X |-> s[k].src]
           Y == {s[k].src : k \in X}
<1>13. T \in SUBSET Y
  BY <1>6, <1>12
<1>14. IsFiniteSet(Y)
  <2>1. X \in SUBSET (1..n) /\ IsFiniteSet(1..n)
    BY <1>1, <1>11, FS_Interval DEF Recent
  <2>2. Y = {f[k] : k \in X}
    OBVIOUS
  <2> HIDE DEF X, Y, f
  <2>3. IsFiniteSet(X)
    BY <2>1, FS_Subset
  <2>4. QED
    BY <2>2, <2>3, ImageFinite
<1>15. Cardinality(T) >= MinScanners
  OBVIOUS
<1> HIDE DEF T
<1>16. Cardinality(Y) >= MinScanners
  <2> HIDE DEF Y
  <2>1. /\ IsFiniteSet(T) /\ Cardinality(T) <= Cardinality(Y)
        /\ Cardinality(T) \in Nat /\ Cardinality(Y) \in Nat
    BY <1>13, <1>14, FS_Subset, FS_CardinalityType
  <2>2. QED
    BY <1>3, <1>15, <2>1
<1>17. i \in Firings(s)
  <2>1. i \in Taken(s)
    BY <1>8, <1>11
  <2>2. QED
    BY Zenon, <1>16, <2>1 DEF Firings
<1>18. QED
  BY <1>17
-----------------------------------------------------------------------------
(* The events each script writes. *)
TonIotEvents ==
  UNION {Sampled(Truncated, d, TimedOf(d), InCapture(TimedOf(d))) :
           d \in {h \in Hosts : ScanWindow(Truncated, TimedOf(h), ScanW * Second, Fanout)}}
WustlEvents ==
  UNION {IF FailedOf(d) # {} THEN Sampled(flows, d, FailedOf(d), InCapture(FailedOf(d)))
                             ELSE Sampled(flows, d, Of(d), ByDst(Of(d))) :
           d \in {h \in Hosts : WustlAlerts(h) # {}}}
Iot23Events ==
  UNION {Sampled(flows, d, FailedOf(d), InCapture(FailedOf(d))) :
           d \in {h \in Hosts : "port_scan" \in Iot23Alerts(h)}}
Written == IF script = "ton_iot" THEN TonIotEvents
           ELSE IF script = "wustl_water" THEN WustlEvents ELSE Iot23Events

(* What a script reads of a host are flows of the host. *)
LEMMA HostFlows ==
  \A d : /\ TimedOf(d) \in SUBSET FlowsOf(d) /\ FailedOf(d) \in SUBSET FlowsOf(d)
         /\ Of(d) \in SUBSET FlowsOf(d) /\ FlowsOf(d) \in SUBSET DOMAIN flows
BY DEF TimedOf, FailedOf, Of, FlowsOf

(* Every event that is written is one of the capture. *)
LEMMA WrittenOfCapture ==
  ASSUME flows \in Seq(Flow)
  PROVE  Written \subseteq EventsOf(Truncated) \cup EventsOf(flows)
<1>1. Redated(Truncated) /\ Redated(flows)
  BY TruncatedRedates
<1>2. TonIotEvents \subseteq EventsOf(Truncated)
  <2>1. \A d : Sampled(Truncated, d, TimedOf(d), InCapture(TimedOf(d))) \subseteq EventsOf(Truncated)
    BY <1>1, HostFlows, SampledEvents
  <2>2. QED
    BY <2>1 DEF TonIotEvents
<1>3. \A d : /\ Sampled(flows, d, FailedOf(d), InCapture(FailedOf(d))) \subseteq EventsOf(flows)
             /\ Sampled(flows, d, Of(d), ByDst(Of(d))) \subseteq EventsOf(flows)
  BY <1>1, HostFlows, SampledEvents
<1>4. WustlEvents \subseteq EventsOf(flows)
  BY <1>3 DEF WustlEvents
<1>5. Iot23Events \subseteq EventsOf(flows)
  BY <1>3 DEF Iot23Events
<1>6. QED
  BY <1>2, <1>4, <1>5 DEF Written

(* A failed flow of a host that is in the log has an event in the log. *)
LEMMA WrittenKeeps ==
  ASSUME TypeInv, script # "ctu13", NEW i \in DOMAIN flows, flows[i].failed,
         flows[i].timed \/ script = "wustl_water",
         NEW g \in Written, g.src = flows[i].src
  PROVE  \E e \in Written : StandsFor(e, i)
<1> DEFINE d == flows[i].src
<1>1. script # "ton_iot" => i \in FailedOf(d)
  BY DEF FailedOf, Of, TypeInv
<1>2. \A c, h, X, R : \A e \in Sampled(c, h, X, R) : e.src = h
  BY DEF Sampled
<1>3. \A X \in SUBSET FlowsOf(d) : i \in X => \E e \in Sampled(Dated, d, X, InCapture(X)) : StandsFor(e, i)
  BY SampledKeeps
<1>4. CASE script = "ton_iot"
  <2>1. i \in TimedOf(d) /\ TimedOf(d) \in SUBSET FlowsOf(d)
    BY <1>4, HostFlows DEF TimedOf
  <2>2. d \in Hosts /\ ScanWindow(Truncated, TimedOf(d), ScanW * Second, Fanout)
    BY <1>2, <1>4 DEF Written, TonIotEvents
  <2>3. Sampled(Truncated, d, TimedOf(d), InCapture(TimedOf(d))) \subseteq Written
    BY <1>4, <2>2 DEF Written, TonIotEvents
  <2>4. Dated = Truncated
    BY <1>4 DEF Dated
  <2>5. QED
    BY <1>3, <2>1, <2>3, <2>4
<1>5. CASE script = "wustl_water"
  <2>1. d \in Hosts /\ WustlAlerts(d) # {}
    BY <1>2, <1>5 DEF Written, WustlEvents
  <2>2. Sampled(flows, d, FailedOf(d), InCapture(FailedOf(d))) \subseteq Written
    BY <1>1, <1>5, <2>1 DEF Written, WustlEvents
  <2>3. Dated = flows /\ i \in FailedOf(d) /\ FailedOf(d) \in SUBSET FlowsOf(d)
    BY <1>1, <1>5, HostFlows DEF Dated
  <2>4. QED
    BY <1>3, <2>2, <2>3
<1>6. CASE script = "iot23"
  <2>1. d \in Hosts /\ "port_scan" \in Iot23Alerts(d)
    BY <1>2, <1>6 DEF Written, Iot23Events
  <2>2. Sampled(flows, d, FailedOf(d), InCapture(FailedOf(d))) \subseteq Written
    BY <1>6, <2>1 DEF Written, Iot23Events
  <2>3. Dated = flows /\ i \in FailedOf(d) /\ FailedOf(d) \in SUBSET FlowsOf(d)
    BY <1>1, <1>6, HostFlows DEF Dated
  <2>4. QED
    BY <1>3, <2>2, <2>3
<1>7. QED
  BY <1>4, <1>5, <1>6 DEF TypeInv, AllScripts

(* A larger window of more flows fans out as well. *)
LEMMA FansMore ==
  ASSUME flows \in Seq(Flow), NEW Y \in SUBSET DOMAIN flows, NEW i \in Y, NEW W,
         NEW X \in SUBSET InWindow(flows, Y, i, W), Cardinality(DstsOf(X)) >= Fanout
  PROVE  Fans(Y, W)
<1> DEFINE Z == InWindow(flows, Y, i, W)
<1>1. IsFiniteSet(Y)
  BY SortedLists
<1>2. Z \in SUBSET Y /\ X \in SUBSET Z
  BY DEF InWindow
<1> HIDE DEF Z
<1>3. IsFiniteSet(Z)
  BY <1>1, <1>2, FS_Subset
<1>4. /\ Cardinality(DstsOf(X)) <= Cardinality(DstsOf(Z))
      /\ Cardinality(DstsOf(X)) \in Nat /\ Cardinality(DstsOf(Z)) \in Nat
  BY <1>2, <1>3, DstsOfFinite
<1>5. Cardinality(DstsOf(Z)) >= Fanout
  <2>1. Fanout \in Nat
    BY FlowsAssumption
  <2>2. QED
    BY <1>4, <2>1
<1>6. QED
  BY <1>5, FansWindow DEF Z

(* A scan on whole seconds is one within less than a second more, and one on
   the times themselves where those are whole seconds. *)
LEMMA TruncatedScans ==
  ASSUME TypeInv, NEW d, ScanWindow(Truncated, TimedOf(d), ScanW * Second, Fanout)
  PROVE  /\ Fans(TimedOf(d), ScanW * Second + (Second - 1))
         /\ Alike(d) => Fans(FailedOf(d), ScanW * Second)
<1> DEFINE SW == ScanW * Second
           S == TimedOf(d)
<1>1. SW \in Nat /\ Second \in Nat \ {0} /\ Fanout \in Nat \ {0}
  <2>1. ScanW \in Nat /\ Second \in Nat \ {0} /\ Fanout \in Nat \ {0}
    BY FlowsAssumption
  <2>2. QED
    BY <2>1
<1>2. S \in SUBSET DOMAIN flows
  BY DEF TimedOf
<1>3. /\ Redated(Truncated) /\ flows \in Seq(Flow)
      /\ \A i \in DOMAIN flows : Truncated[i].ts = Whole(flows[i].ts) /\ flows[i].ts \in Nat
  BY TruncatedRedates DEF TypeInv
<1>4. ScanWindow(Truncated, S, SW, Fanout)
  OBVIOUS
<1>5. Alike(d) => S \in SUBSET FailedOf(d) /\ FailedOf(d) \in SUBSET DOMAIN flows
                  /\ \A i \in S : flows[i].ts = Whole(flows[i].ts)
  BY DEF Alike, FailedOf, Of, TimedOf
<1> HIDE DEF S, SW
<1>6. PICK i \in S : Cardinality(DstsOf(InWindow(Truncated, S, i, SW))) >= Fanout
  <2>1. /\ Truncated \in Seq(Flow) /\ S \in SUBSET DOMAIN Truncated
        /\ \A j \in DOMAIN Truncated : Truncated[j].dst = flows[j].dst
    BY <1>2, <1>3 DEF Redated
  <2>2. QED
    BY <1>1, <1>4, <2>1, ScanWindowExact
<1> DEFINE X == InWindow(Truncated, S, i, SW)
           w(j) == Whole(flows[j].ts)
<1>7. \A j \in S : /\ w(j) \in Nat /\ flows[j].ts \in Nat
                   /\ w(j) <= flows[j].ts /\ flows[j].ts <= w(j) + (Second - 1)
  BY <1>2, <1>3, SecondOf
<1>8. X \in SUBSET S /\ i \in X /\ \A j \in X : w(i) <= w(j) /\ w(j) <= w(i) + SW
  <2>1. \A j \in S : Truncated[j].ts = w(j)
    BY <1>2, <1>3
  <2>2. X \in SUBSET S /\ \A j \in X : w(i) <= w(j) /\ w(j) <= w(i) + SW
    BY <2>1 DEF InWindow
  <2>3. i \in X
    <3> DEFINE t == Truncated[i].ts
    <3>1. t \in Nat
      BY <1>7, <2>1
    <3> HIDE DEF t
    <3>2. t <= t /\ t <= t + SW
      BY <1>1, <3>1
    <3>3. QED
      BY <3>2 DEF InWindow, t
  <2>4. QED
    BY <2>2, <2>3
<1>9. Cardinality(DstsOf(X)) >= Fanout
  BY <1>6
<1> HIDE DEF X, w
<1>10. Fans(S, SW + (Second - 1))
  <2> DEFINE V == {flows[j].ts : j \in X}
  <2>1. V \subseteq Nat /\ V # {}
    BY <1>7, <1>8
  <2>2. PICK t \in V : \A u \in V : t <= u
    <3> HIDE DEF V
    <3>1. QED
      BY <2>1, LeastNatural
  <2>3. PICK a \in X : t = flows[a].ts
    BY <2>2
  <2>4. \A j \in X : flows[a].ts <= flows[j].ts
    BY <2>2, <2>3
  <2>5. ASSUME NEW j \in X
        PROVE  flows[j].ts <= flows[a].ts + (SW + (Second - 1))
    <3>1. /\ w(j) \in Nat /\ flows[j].ts \in Nat /\ flows[j].ts <= w(j) + (Second - 1)
          /\ w(a) \in Nat /\ flows[a].ts \in Nat /\ w(a) <= flows[a].ts /\ w(i) \in Nat
      BY <1>7, <1>8
    <3>2. w(j) <= w(i) + SW /\ w(i) <= w(a)
      BY <1>8
    <3>3. QED
      BY <1>1, <3>1, <3>2
  <2>6. X \in SUBSET InWindow(flows, S, a, SW + (Second - 1)) /\ a \in S
    BY <1>8, <2>4, <2>5 DEF InWindow
  <2>7. QED
    BY <1>2, <1>3, <1>9, <2>6, FansMore
<1>11. ASSUME Alike(d)
       PROVE  Fans(FailedOf(d), SW)
  <2>1. \A j \in S : flows[j].ts = w(j)
    BY <1>5, <1>11 DEF w
  <2>2. X \in SUBSET InWindow(flows, FailedOf(d), i, SW) /\ i \in FailedOf(d)
    BY <1>5, <1>8, <1>11, <2>1 DEF InWindow
  <2>3. QED
    BY <1>3, <1>5, <1>9, <1>11, <2>2, FansMore
<1>12. QED
  BY <1>10, <1>11 DEF S, SW

(* What the analysis finds of a host: a scan, or nearly one. *)
Found(d) ==
  \/ "port_scan" \in AlertsOf(d)
  \/ script = "ton_iot" /\ ~Alike(d) /\ Fans(TimedOf(d), ScanW * Second + (Second - 1))

(* Every host in the log of a script that reports scans was found. *)
LEMMA WrittenFound ==
  ASSUME TypeInv, script \in {"ton_iot", "iot23"}, NEW e \in Written
  PROVE  e.src \in Hosts /\ Found(e.src)
<1> DEFINE d == e.src
<1>1. \A c, h, X, R : \A a \in Sampled(c, h, X, R) : a.src = h
  BY DEF Sampled
<1>2. CASE script = "ton_iot"
  <2>1. d \in Hosts /\ ScanWindow(Truncated, TimedOf(d), ScanW * Second, Fanout)
    BY <1>1, <1>2 DEF Written, TonIotEvents
  <2> HIDE DEF d
  <2>2. /\ Fans(TimedOf(d), ScanW * Second + (Second - 1))
        /\ Alike(d) => Fans(FailedOf(d), ScanW * Second)
    BY <2>1, TruncatedScans
  <2>3. Alike(d) => "port_scan" \in AlertsOf(d)
    BY <1>2, <2>1, <2>2, AlertsExact
  <2>4. QED
    BY <1>2, <2>1, <2>2, <2>3 DEF Found, d
<1>3. CASE script = "iot23"
  <2>1. d \in Hosts /\ "port_scan" \in Iot23Alerts(d)
    BY <1>1, <1>3 DEF Written, Iot23Events
  <2>2. AlertsOf(d) = Iot23Alerts(d)
    BY <1>3 DEF AlertsOf
  <2>3. QED
    BY <2>1, <2>2 DEF Found
<1>4. QED
  BY <1>2, <1>3

(* Every script but ctu13, which writes none, writes the log of its events. *)
LEMMA LogWritten ==
  ASSUME TypeInv, Analyse
  PROVE  /\ script = "ctu13" => log' = <<>>
         /\ script # "ctu13" => Written \subseteq Event /\ \E t0 : LogLists(log', Written, t0)
<1>1. script = "ctu13" => log' = <<>>
  BY DEF Analyse
<1>2. ASSUME script # "ctu13"
      PROVE  log' = LogOf(Written)
  <2>1. CASE script = "ton_iot"
    <3>1. log' = TonIotLog
      BY <2>1 DEF Analyse
    <3>2. TonIotLog = LogOf(TonIotEvents)
      BY Zenon DEF TonIotLog, TonIotEvents
    <3>3. QED
      BY <2>1, <3>1, <3>2 DEF Written
  <2>2. CASE script = "wustl_water"
    <3>1. log' = WustlLog
      BY <2>2 DEF Analyse
    <3>2. WustlLog = LogOf(WustlEvents)
      BY Zenon DEF WustlLog, WustlEvents
    <3>3. QED
      BY <2>2, <3>1, <3>2 DEF Written
  <2>3. CASE script = "iot23"
    <3>1. log' = Iot23Log
      BY <2>3 DEF Analyse
    <3>2. Iot23Log = LogOf(Iot23Events)
      BY Zenon DEF Iot23Log, Iot23Events
    <3>3. QED
      BY <2>3, <3>1, <3>2 DEF Written
  <2>4. QED
    BY <1>2, <2>1, <2>2, <2>3 DEF TypeInv, AllScripts
<1>3. Written \subseteq Event /\ IsFiniteSet(Written)
  <2> DEFINE A == EventsOf(Truncated)
             B == EventsOf(flows)
  <2>1. IsFiniteSet(A) /\ IsFiniteSet(B) /\ A \subseteq Event /\ B \subseteq Event
    BY TruncatedRedates, EventsOfFinite DEF TypeInv, Redated
  <2>2. Written \in SUBSET (A \cup B)
    BY WrittenOfCapture DEF TypeInv
  <2> HIDE DEF A, B
  <2>3. IsFiniteSet(A \cup B)
    BY <2>1, FS_Union
  <2>4. IsFiniteSet(Written)
    BY <2>2, <2>3, FS_Subset
  <2>5. QED
    BY <2>1, <2>2, <2>4
<1>4. QED
  BY <1>1, <1>2, <1>3, LogOfLists
-----------------------------------------------------------------------------
(* The hosts of a log are those of the events it was written from. *)
LEMMA LogHosts ==
  ASSUME NEW s, NEW S, NEW t0, LogLists(s, S, t0), NEW k \in DOMAIN s
  PROVE  \E e \in S : e.src = s[k].src
<1>1. k \in 1..Len(s)
  BY DEF LogLists
<1>2. QED
  BY <1>1 DEF LogLists

(* The failed flows of the hosts of the log. *)
Raw == {i \in DOMAIN flows : /\ flows[i].failed
                             /\ flows[i].timed \/ script = "wustl_water"
                             /\ \E k \in DOMAIN log : log[k].src = flows[i].src}

(* A campaign of them that leaves room for the sampling. *)
Campaign == \E i \in Raw :
              Cardinality({flows[j].src : j \in InWindow(flows, Raw, i, Room)}) >= MinScanners

(* SampledLogKeepsCampaign by these names. *)
CampaignKept == done /\ script # "ctu13" => (Campaign => Firings(log) # {})

(* It says what SampledLogKeepsCampaign does, before a step and after. *)
LEMMA CampaignNamed ==
  (SampledLogKeepsCampaign <=> CampaignKept) /\ (SampledLogKeepsCampaign' <=> CampaignKept')
<1>1. SampledLogKeepsCampaign <=> CampaignKept
  BY Zenon DEF SampledLogKeepsCampaign, CampaignKept, Campaign, Raw
<1>2. SampledLogKeepsCampaign' <=> CampaignKept'
  BY Zenon DEF SampledLogKeepsCampaign, CampaignKept, Campaign, Raw
<1>3. QED
  BY <1>1, <1>2

(* A campaign of the capture that leaves room for the sampling is one of the
   log. *)
LEMMA CampaignOfLog ==
  ASSUME TypeInv, script # "ctu13", NEW s, NEW t0, Written \subseteq Event, LogLists(s, Written, t0),
         NEW raw \in SUBSET DOMAIN flows,
         \A i \in raw : /\ flows[i].failed /\ (flows[i].timed \/ script = "wustl_water")
                        /\ \E k \in DOMAIN s : s[k].src = flows[i].src,
         NEW i0 \in raw,
         Cardinality({flows[j].src : j \in InWindow(flows, raw, i0, Room)}) >= MinScanners
  PROVE  Firings(s) # {}
<1> DEFINE Q == InWindow(flows, raw, i0, Room)
           G == {e \in Written : \E q \in Q : StandsFor(e, q)}
           T == {flows[q].src : q \in Q}
<1>1. /\ Q \in SUBSET raw
      /\ \A q \in Q : flows[i0].ts <= flows[q].ts /\ flows[q].ts <= flows[i0].ts + Room
  BY DEF InWindow
<1>2. Cardinality(T) >= MinScanners
  OBVIOUS
<1> HIDE DEF Q
<1>3. ASSUME NEW q \in Q
      PROVE  \E e \in G : e.src = flows[q].src
  <2>1. q \in raw /\ q \in DOMAIN flows
    BY <1>1
  <2>2. PICK k \in DOMAIN s : s[k].src = flows[q].src
    BY <2>1
  <2>3. PICK g \in Written : g.src = flows[q].src
    BY <2>2, LogHosts
  <2>4. PICK e \in Written : StandsFor(e, q)
    BY <2>1, <2>3, WrittenKeeps
  <2>5. e.src = flows[q].src /\ e \in G
    BY <2>4 DEF StandsFor
  <2>6. QED
    BY <2>5
<1>4. ASSUME NEW e \in G, NEW g \in G
      PROVE  e.ts <= g.ts + Window * Second
  <2>1. PICK q \in Q : StandsFor(e, q)
    OBVIOUS
  <2>2. PICK p \in Q : StandsFor(g, p)
    OBVIOUS
  <2>3. q \in DOMAIN flows /\ p \in DOMAIN flows /\ flows[i0].ts \in Nat
    BY <1>1, TruncatedRedates DEF TypeInv
  <2>4. flows[q].ts <= flows[i0].ts + Room /\ flows[i0].ts <= flows[p].ts
    BY <1>1
  <2> DEFINE r == flows[i0].ts
  <2> HIDE DEF r, G
  <2>5. r \in Nat /\ flows[q].ts <= r + Room /\ r <= flows[p].ts
    BY <2>3, <2>4 DEF r
  <2>6. QED
    BY <2>1, <2>2, <2>3, <2>5, SampledWindow
<1>5. T = {e.src : e \in G}
  <2>1. \A e \in G : \E q \in Q : e.src = flows[q].src
    BY DEF StandsFor
  <2> HIDE DEF G
  <2>2. QED
    BY <1>3, <2>1
<1>6. G \in SUBSET Written
  OBVIOUS
<1> HIDE DEF G, T
<1>7. Cardinality({e.src : e \in G}) >= MinScanners
  BY <1>2, <1>5
<1>8. QED
  BY <1>4, <1>6, <1>7, CampaignFires

(* So it is when the log is written. *)
LEMMA CampaignStep ==
  ASSUME TypeInv, Analyse
  PROVE  SampledLogKeepsCampaign'
<1>1. flows' = flows /\ script' = script
  BY DEF Analyse
<1>2. Firings(log)' = Firings(log')
  BY DEF Firings, Recent, Taken
<1>3. ASSUME script # "ctu13", Campaign'
      PROVE  Firings(log') # {}
  <2>1. PICK t0 : LogLists(log', Written, t0)
    BY <1>3, LogWritten
  <2>2. Written \subseteq Event
    BY <1>3, LogWritten
  <2> DEFINE raw == {i \in DOMAIN flows : /\ flows[i].failed
                                          /\ flows[i].timed \/ script = "wustl_water"
                                          /\ \E k \in DOMAIN log' : log'[k].src = flows[i].src}
  <2>3. Raw' = raw
    BY <1>1 DEF Raw
  <2>4. /\ raw \in SUBSET DOMAIN flows
        /\ \A i \in raw : /\ flows[i].failed /\ (flows[i].timed \/ script = "wustl_water")
                          /\ \E k \in DOMAIN log' : log'[k].src = flows[i].src
    OBVIOUS
  <2> HIDE DEF raw
  <2>5. \A i : InWindow(flows, Raw, i, Room)' = InWindow(flows, raw, i, Room)
    BY <1>1, <2>3 DEF InWindow, Room
  <2>6. PICK i \in Raw' : Cardinality({flows'[j].src : j \in InWindow(flows, Raw, i, Room)'}) >= MinScanners
    BY <1>3 DEF Campaign
  <2>7. i \in raw /\ Cardinality({flows[j].src : j \in InWindow(flows, raw, i, Room)}) >= MinScanners
    BY <1>1, <2>3, <2>5, <2>6
  <2>8. QED
    BY <1>3, <2>1, <2>2, <2>4, <2>7, CampaignOfLog
<1>4. QED
  BY <1>1, <1>2, <1>3, CampaignNamed DEF CampaignKept
-----------------------------------------------------------------------------
(* A host that is found has a flow in the capture: there are finitely many of
   them, however many hosts there are. *)
LEMMA FoundFinite ==
  ASSUME TypeInv, script \in {"ton_iot", "iot23"}
  PROVE  IsFiniteSet({d \in Hosts : Found(d)})
<1> DEFINE R == {d \in Hosts : Found(d)}
           f == [i \in DOMAIN flows |-> flows[i].src]
           Srcs == {f[i] : i \in DOMAIN flows}
<1>1. \A S, W : Fans(S, W) => S # {}
  BY DEF Fans
<1>2. ASSUME NEW d \in Hosts, Found(d)
      PROVE  FlowsOf(d) # {}
  <2>1. CASE "port_scan" \in AlertsOf(d) /\ script = "ton_iot"
    <3>1. FailedOf(d) # {}
      BY <1>1, <2>1, AlertsExact
    <3>2. QED
      BY <3>1, HostFlows
  <2>2. CASE "port_scan" \in AlertsOf(d) /\ script = "iot23"
    <3>1. "port_scan" \in Iot23Alerts(d)
      BY <2>2 DEF AlertsOf
    <3>2. Cardinality(FailedDsts(d)) >= Fanout
      BY <3>1 DEF Iot23Alerts, Raised
    <3>3. SUFFICES ASSUME FailedOf(d) = {}
                   PROVE  FALSE
      BY HostFlows
    <3>4. FailedDsts(d) = {}
      BY <3>3 DEF FailedDsts
    <3>5. Cardinality(FailedDsts(d)) = 0
      BY <3>4, FS_EmptySet
    <3>6. Fanout \in Nat \ {0}
      BY FlowsAssumption
    <3>7. QED
      BY <3>2, <3>5, <3>6
  <2>3. CASE Fans(TimedOf(d), ScanW * Second + (Second - 1))
    <3>1. TimedOf(d) # {}
      BY <1>1, <2>3
    <3>2. QED
      BY <3>1, HostFlows
  <2>4. QED
    BY <1>2, <2>1, <2>2, <2>3 DEF Found
<1>3. R \subseteq Srcs
  <2>1. ASSUME NEW d \in R
        PROVE  d \in Srcs
    <3>1. PICK i \in FlowsOf(d) : TRUE
      BY <1>2
    <3>2. i \in DOMAIN flows /\ flows[i].src = d
      BY DEF FlowsOf
    <3>3. f[i] = d
      BY <3>2
    <3>4. QED
      BY <3>2, <3>3
  <2> HIDE DEF R, Srcs
  <2>2. QED
    BY <2>1
<1>4. IsFiniteSet(DOMAIN flows)
  <2>1. DOMAIN flows = 1..Len(flows) /\ Len(flows) \in Nat
    BY DEF TypeInv
  <2>2. QED
    BY <2>1, FS_Interval
<1>5. IsFiniteSet(Srcs)
  <2> HIDE DEF f
  <2>1. QED
    BY <1>4, ImageFinite
<1> HIDE DEF Srcs
<1>6. QED
  BY <1>3, <1>5, FS_Subset DEF R

(* Where the formula fires, its hosts are among those that were found. *)
LEMMA ReportedStep ==
  ASSUME TypeInv, Analyse
  PROVE  FormalImpliesReported'
<1> DEFINE R == {d \in Hosts : Found(d)}
<1>1. /\ UNCHANGED <<script, limit, flows>>
      /\ \A d \in Hosts : alerts'[d] = AlertsOf(d)
  BY DEF Analyse
<1>2. Firings(log)' = Firings(log')
  BY DEF Firings, Recent, Taken
<1>3. ASSUME script \in {"ton_iot", "iot23"}, NEW i \in Firings(log')
      PROVE  Cardinality(R) >= MinScanners
  <2> DEFINE T == {log'[k].src : k \in Recent(log', i)}
  <2>1. PICK t0 : LogLists(log', Written, t0)
    BY <1>3, LogWritten
  <2>2. ASSUME NEW k \in Recent(log', i)
        PROVE  log'[k].src \in R
    <3>1. k \in DOMAIN log'
      BY <2>2 DEF Recent, Taken
    <3>2. PICK g \in Written : g.src = log'[k].src
      BY <2>1, <3>1, LogHosts
    <3>3. QED
      BY <1>3, <3>2, WrittenFound
  <2>3. Cardinality(T) >= MinScanners
    BY Zenon DEF Firings
  <2>4. T \in SUBSET R
    BY <2>2
  <2>5. IsFiniteSet(R)
    BY <1>3, FoundFinite
  <2> HIDE DEF T, R
  <2>6. Cardinality(T) <= Cardinality(R) /\ Cardinality(T) \in Nat /\ Cardinality(R) \in Nat
    BY <2>4, <2>5, FS_Subset, FS_CardinalityType
  <2>7. MinScanners \in Nat
    BY FlowsAssumption
  <2>8. QED
    BY <2>3, <2>6, <2>7
<1>4. {d \in Hosts : Scanned(d)}' = R
  <2>1. \A d : Alike(d)' <=> Alike(d)
    BY <1>1, CaptureStands
  <2> DEFINE V == ScanW * Second + (Second - 1)
  <2>2. \A d : Fans(TimedOf(d), V)' <=> Fans(TimedOf(d), V)
    BY <1>1, CaptureStands
  <2>3. \A d \in Hosts : Scanned(d)' <=> Found(d)
    BY <1>1, <2>1, <2>2 DEF Scanned, Found
  <2>4. QED
    BY <2>3
<1> HIDE DEF R
<1>5. QED
  BY <1>1, <1>2, <1>3, <1>4 DEF FormalImpliesReported
-----------------------------------------------------------------------------
(* A row the capture may have, and the flow it becomes. *)
LEMMA ReadKeepsType ==
  ASSUME TypeInv, Read
  PROVE  TypeInv'
<1>1. PICK r \in RowsOf[script] : ReadTonIot(r) \/ ReadWustl(r) \/ ReadIot23(r) \/ ReadCtu13(r)
  BY DEF Read
<1>2. r \in Flow /\ r.ts \in Nat
  BY FlowsAssumption DEF TypeInv, Flow
<1> DEFINE Dating(t) == [r EXCEPT !.ts = t]
<1>3. \A t \in Nat : Dating(t) \in Flow /\ Dating(t).ts = t
  BY <1>2 DEF Flow
<1>4. Second \in Nat \ {0} /\ Day \in Nat \ {0} /\ Len(flows) \in Nat
  BY FlowsAssumption DEF TypeInv
<1> DEFINE n == Len(flows) * Second
           m == r.ts % (Day * Second)
<1>5. n \in Nat /\ m \in Nat
  <2> DEFINE D == Day * Second
  <2>1. D \in Nat \ {0}
    BY <1>4
  <2> HIDE DEF D
  <2>2. r.ts % D \in Nat
    BY <1>2, <2>1
  <2>3. QED
    BY <1>4, <2>2 DEF D
<1>6. Whole(r.ts) \in Nat /\ Whole(m) \in Nat /\ Whole(Whole(r.ts)) = Whole(r.ts) /\ Whole(n) = n
  <2> HIDE DEF m, n
  <2>1. Whole(r.ts) \in Nat /\ Whole(m) \in Nat /\ Whole(r.ts) \div Second = r.ts \div Second
    BY <1>2, <1>5, SecondOf, WholeSecond
  <2>2. Whole(n) = n
    <3>1. /\ Whole(n) = (n \div Second) * Second /\ Whole(n) <= n
          /\ n <= Whole(n) + (Second - 1) /\ n \div Second \in Nat
      BY <1>5, SecondOf DEF Whole
    <3> DEFINE q == n \div Second
               L == Len(flows)
    <3>2. q \in Nat /\ L \in Nat /\ q * Second <= L * Second /\ L * Second <= q * Second + (Second - 1)
      BY <1>4, <3>1 DEF n
    <3> HIDE DEF q, L
    <3>3. q = L
      BY <1>4, <3>2, SameMultiple
    <3>4. Whole(n) = L * Second
      BY <3>1, <3>3 DEF q
    <3>5. QED
      BY <3>4 DEF n, L
  <2>3. Whole(Whole(r.ts)) = Whole(r.ts)
    BY <2>1 DEF Whole
  <2>4. QED
    BY <2>1, <2>2, <2>3
<1> HIDE DEF n, m, Dating
<1>7. \A g \in Flow : /\ Append(flows, g) \in Seq(Flow)
                      /\ DOMAIN Append(flows, g) = 1..(Len(flows) + 1)
                      /\ \A i \in 1..(Len(flows) + 1) :
                           Append(flows, g)[i] = IF i \in DOMAIN flows THEN flows[i] ELSE g
  BY DEF TypeInv
<1>8. /\ flows' \in Seq(Flow)
      /\ script = "wustl_water" => \A i \in DOMAIN flows' : flows'[i].ts = Whole(flows'[i].ts)
  <2>1. CASE ReadTonIot(r)
    <3>1. /\ script = "ton_iot"
          /\ flows' = Append(flows, Dating(IF r.timed THEN r.ts ELSE n))
      BY <2>1 DEF ReadTonIot, Dating, n
    <3>2. Dating(IF r.timed THEN r.ts ELSE n) \in Flow
      BY <1>2, <1>3, <1>5
    <3>3. QED
      BY <1>7, <3>1, <3>2
  <2>2. CASE ReadWustl(r)
    <3> DEFINE t == IF r.timed THEN Whole(r.ts) ELSE n
               g == Dating(t)
    <3>1. flows' = Append(flows, g) /\ script = "wustl_water"
      BY <2>2 DEF ReadWustl, Dating, n
    <3>2. t \in Nat /\ t = Whole(t)
      BY <1>5, <1>6
    <3> HIDE DEF t
    <3>3. g \in Flow /\ g.ts = Whole(g.ts)
      BY <1>3, <3>2
    <3> HIDE DEF g
    <3>4. \A i \in DOMAIN flows : flows[i].ts = Whole(flows[i].ts)
      BY <3>1 DEF TypeInv
    <3>5. \A i \in DOMAIN flows' : flows'[i] = IF i \in DOMAIN flows THEN flows[i] ELSE g
      BY <1>7, <3>1, <3>3
    <3>6. QED
      BY <1>7, <3>1, <3>3, <3>4, <3>5
  <2>3. CASE ReadIot23(r)
    BY <1>2, <1>7, <2>3 DEF ReadIot23, TypeInv
  <2>4. CASE ReadCtu13(r)
    <3>1. flows' = Append(flows, Dating(Whole(m))) /\ script = "ctu13"
      BY <2>4 DEF ReadCtu13, Dating, m
    <3>2. QED
      BY <1>3, <1>6, <1>7, <3>1
  <2>5. QED
    BY <1>1, <2>1, <2>2, <2>3, <2>4
<1>9. UNCHANGED <<script, limit, log>>
  BY DEF Read
<1>10. QED
  BY <1>8, <1>9 DEF TypeInv, Whole

(* The log a script writes is one of events of hosts. *)
LEMMA AnalyseKeepsType ==
  ASSUME TypeInv, Analyse
  PROVE  TypeInv'
<1>1. log' \in Seq(Event)
  <2>1. CASE script = "ctu13"
    BY <2>1, LogWritten
  <2>2. CASE script # "ctu13"
    BY <2>2, LogWritten DEF LogLists
  <2>3. QED
    BY <2>1, <2>2
<1>2. script' = script /\ flows' = flows /\ limit' = limit
  BY DEF Analyse
<1>3. QED
  BY <1>1, <1>2 DEF TypeInv, Whole

(* The three properties of what the analysis has found. *)
Judged == WindowsExact /\ SampledLogKeepsCampaign /\ FormalImpliesReported

(* What the analysis has found stands as long as nothing is read or written. *)
LEMMA JudgedStutter ==
  ASSUME TypeInv, Judged, UNCHANGED vars
  PROVE  TypeInv' /\ Judged'
<1>1. /\ UNCHANGED <<script, limit, flows>>
      /\ alerts' = alerts /\ log' = log /\ done' = done
  BY DEF vars
<1>2. TypeInv'
  BY <1>1 DEF TypeInv, Whole
<1>3. Firings(log)' = Firings(log)
  BY <1>1 DEF Firings, Recent, Taken
<1>4. WindowsExact'
  <2> DEFINE SW == ScanW * Second
  <2>1. \A d : Fans(FailedOf(d), SW)' <=> Fans(FailedOf(d), SW)
    BY <1>1, CaptureStands
  <2>2. \A d : Flooded(d)' <=> Flooded(d)
    BY <1>1, CaptureStands
  <2>3. done => \A d \in Hosts :
          /\ script \in {"ton_iot", "wustl_water"} =>
               ("port_scan" \in alerts[d] <=> Fans(FailedOf(d), SW))
          /\ "ddos_flood" \in alerts[d] <=> Flooded(d)
    BY WindowsNamed DEF Judged, WindowsFound
  <2>4. done' => \A d \in Hosts :
          /\ script' \in {"ton_iot", "wustl_water"} =>
               ("port_scan" \in alerts'[d] <=> Fans(FailedOf(d), SW)')
          /\ "ddos_flood" \in alerts'[d] <=> Flooded(d)'
    BY <1>1, <2>1, <2>2, <2>3
  <2>5. QED
    BY <2>4, WindowsNamed DEF WindowsFound
<1>5. SampledLogKeepsCampaign'
  <2>1. Raw' = Raw
    BY <1>1 DEF Raw
  <2>2. Campaign' <=> Campaign
    BY <1>1, <2>1 DEF Campaign, InWindow, Room
  <2>3. QED
    BY <1>1, <1>3, <2>2, CampaignNamed DEF Judged, CampaignKept
<1>6. FormalImpliesReported'
  <2>1. \A d : Alike(d)' <=> Alike(d)
    BY <1>1, CaptureStands
  <2> DEFINE V == ScanW * Second + (Second - 1)
  <2>2. \A d : Fans(TimedOf(d), V)' <=> Fans(TimedOf(d), V)
    BY <1>1, CaptureStands
  <2>3. \A d \in Hosts : Scanned(d)' <=> Scanned(d)
    BY <1>1, <2>1, <2>2 DEF Scanned
  <2>4. {d \in Hosts : Scanned(d)}' = {d \in Hosts : Scanned(d)}
    BY <2>3
  <2>5. QED
    BY <1>1, <1>3, <2>4 DEF Judged, FormalImpliesReported
<1>7. QED
  BY <1>2, <1>4, <1>5, <1>6 DEF Judged

(* Nothing is read or written after the analysis, and before it there is
   nothing to judge. *)
LEMMA JudgedStep ==
  ASSUME TypeInv, Judged, Next
  PROVE  TypeInv' /\ Judged'
<1>1. CASE Read
  <2>1. ~done'
    BY <1>1 DEF Read
  <2>2. Judged'
    BY <2>1 DEF Judged, WindowsExact, SampledLogKeepsCampaign, FormalImpliesReported
  <2>3. QED
    BY <1>1, <2>2, ReadKeepsType
<1>2. CASE Analyse
  BY <1>2, WindowsStep, CampaignStep, ReportedStep, AnalyseKeepsType DEF Judged
<1>3. CASE End
  BY <1>3, JudgedStutter DEF End
<1>4. QED
  BY <1>1, <1>2, <1>3 DEF Next

(* So it holds in every state. *)
LEMMA JudgedAlways ==
  Spec => [](TypeInv /\ Judged)
<1>1. Init => TypeInv /\ Judged
  <2>1. Init => TypeInv
    BY FlowsAssumption DEF Init, TypeInv
  <2>2. Init => Judged
    BY DEF Init, Judged, WindowsExact, SampledLogKeepsCampaign, FormalImpliesReported
  <2>3. QED
    BY <2>1, <2>2
<1>2. (TypeInv /\ Judged) /\ [Next]_vars => (TypeInv /\ Judged)'
  BY JudgedStep, JudgedStutter
<1>3. QED
  BY <1>1, <1>2, PTL DEF Spec
-----------------------------------------------------------------------------
(* What a capture and a log are made of, in every state. *)
THEOREM FlowsTypeInvariant == Spec => []TypeInv
  BY JudgedAlways, PTL

(* The two pointers of scan_window and of the flood test find a window of
   enough flows if and only if the capture has one, whatever the capture, the
   window and the threshold (ton_iot_rv.py:35-52). *)
THEOREM WindowsAreExact == Spec => []WindowsExact
<1>1. TypeInv /\ Judged => WindowsExact
  BY DEF Judged
<1>2. QED
  BY <1>1, JudgedAlways, PTL

(* One event of a host in a bucket is enough for P3.2: a campaign that leaves
   room for what two samples may be moved is one of the log
   (ton_iot_monpoly.py:6-7). *)
THEOREM SampledLogIsSound == Spec => []SampledLogKeepsCampaign
<1>1. TypeInv /\ Judged => SampledLogKeepsCampaign
  BY DEF Judged
<1>2. QED
  BY <1>1, JudgedAlways, PTL

(* Where P3.2 fires on a log, the capture has enough scanners: the report counts
   them (ton_iot_rv.py:201, iot23_flow_rv.py:171), but for the hosts of TON_IoT
   with parts of a second or rows behind --max (ton_iot_monpoly.py:52,
   ton_iot_rv.py:122), and those scan within less than a second more than the
   window. *)
THEOREM ReportAgreesWithFormal == Spec => []FormalImpliesReported
<1>1. TypeInv /\ Judged => FormalImpliesReported
  BY DEF Judged
<1>2. QED
  BY <1>1, JudgedAlways, PTL

(* The windows of the episodes have no event in common, so the log has enough
   events for all of them (episodes.py:4-10). *)
THEOREM EpisodesAreApart == Spec => []EpisodesAreDistinct
<1>1. TypeInv => EpisodesAreDistinct
  BY EpisodesOfAnyLog DEF TypeInv, EpisodesAreDistinct
<1>2. QED
  BY <1>1, FlowsTypeInvariant, PTL
=============================================================================
