--------------------------- MODULE SilentNodeProofs ---------------------------
(***************************************************************************)
(* Proofs about SilentNode: between the three threads of P3.5 no incident  *)
(* is lost, doubled or made up, for every number of devices, verdicts and  *)
(* triggers, and whenever the engine dies.                                 *)
(***************************************************************************)
EXTENDS SilentNode, FiniteSetTheorems, SequenceTheorems, WellFoundedInduction, TLAPS

Incident == [dev : Devices, overflow : Nat]
KeySet   == Devices \X (Nat \ {0})

TypeInv ==
  /\ pc \in {"idle", "fed", "collect"} /\ fed \in Nat
  /\ pc # "idle" => alert.dev \in Devices
  /\ pc = "fed" => fed > 0
  /\ spawned \subseteq Devices
  /\ out \in Seq(Devices) /\ violations \in Seq(Devices)
  /\ built \in Seq(Incident) /\ pending \in Seq(Incident) /\ emitted \in Seq(Incident)
  /\ lastOverflow \in [Devices -> Nat] /\ keys \subseteq KeySet

(* A sequence of incidents has a key once, or not at all. *)
Absent(s, k) == \A i \in DOMAIN s : Key(s[i]) # k
Unique(s, k) == \E i \in DOMAIN s : Key(s[i]) = k /\ \A j \in DOMAIN s : Key(s[j]) = k => j = i

(* The keys of a sequence of incidents are among those of a set, where they
   blame an overflow. *)
Covered(s, K) == \A i \in DOMAIN s : s[i].overflow > 0 => Key(s[i]) \in K

(* A used key is in one of the three places of an incident on its way, once. *)
OnceOnItsWay(k) ==
  \/ Unique(built, k) /\ Absent(pending, k) /\ Absent(emitted, k)
  \/ Absent(built, k) /\ Unique(pending, k) /\ Absent(emitted, k)
  \/ Absent(built, k) /\ Absent(pending, k) /\ Unique(emitted, k)

WayInv == /\ \A k \in keys : OnceOnItsWay(k)
          /\ Covered(built, keys) /\ Covered(pending, keys) /\ Covered(emitted, keys)
-----------------------------------------------------------------------------
(* A set of natural numbers has a least element. *)
LEMMA LeastNatural ==
  ASSUME NEW V, V \subseteq Nat, V # {}
  PROVE  \E x \in V : \A y \in V : x <= y
<1>1. PICK x \in V : \A y \in V : ~ (<<y, x>> \in OpToRel(<, Nat))
  BY NatLessThanWellFounded, WFMin
<1>2. \A y \in V : ~ (y < x)
  BY <1>1 DEF OpToRel
<1>3. QED
  BY <1>2

(* A function that starts with b and whose every value follows from the last. *)
Recurs(f, n, b, F) == f[0] = b /\ \A k \in 1..n : f[k] = F[<<f[k - 1], k>>]

(* Such a function exists. *)
LEMMA RecursionExists ==
  ASSUME NEW n \in Nat, NEW S, NEW b \in S, NEW F \in [S \X (1..n) -> S]
  PROVE  \E f \in [0..n -> S] : Recurs(f, n, b, F)
<1> USE DEF Recurs
<1> DEFINE Good(m) == \E f \in [0..m -> S] :
                        f[0] = b /\ \A k \in 1..m : f[k] = F[<<f[k - 1], k>>]
           Bad == {m \in 0..n : ~Good(m)}
<1>1. Good(0)
  <2> DEFINE g == [i \in 0..0 |-> b]
  <2>1. g \in [0..0 -> S] /\ g[0] = b /\ 1..0 = {}
    OBVIOUS
  <2> HIDE DEF g
  <2>2. \A k \in 1..0 : g[k] = F[<<g[k - 1], k>>]
    BY <2>1
  <2>3. QED
    BY <2>1, <2>2
<1>2. ASSUME NEW m \in 1..n, Good(m - 1)
      PROVE  Good(m)
  <2>1. PICK f \in [0..(m - 1) -> S] :
          f[0] = b /\ \A k \in 1..(m - 1) : f[k] = F[<<f[k - 1], k>>]
    BY <1>2
  <2> DEFINE g == [i \in 0..m |-> IF i = m THEN F[<<f[m - 1], m>>] ELSE f[i]]
  <2>2. m \in Nat /\ m > 0 /\ m - 1 \in 0..(m - 1)
    OBVIOUS
  <2>3. F[<<f[m - 1], m>>] \in S
    BY <2>2
  <2>4. \A i \in 0..m : g[i] \in S
    BY <2>2, <2>3
  <2>5. g \in [0..m -> S] /\ g[0] = b
    BY <2>1, <2>2, <2>4
  <2>6. ASSUME NEW k \in 1..m
        PROVE  g[k] = F[<<g[k - 1], k>>]
    <3>1. g[k - 1] = f[k - 1]
      BY <2>2
    <3>2. CASE k = m
      BY <2>2, <3>1, <3>2
    <3>3. CASE k # m
      <4>1. k \in 1..(m - 1) /\ g[k] = f[k]
        BY <2>2, <3>3
      <4>2. QED
        BY <2>1, <3>1, <4>1
    <3>4. QED
      BY <3>2, <3>3
  <2>7. QED
    BY <2>5, <2>6
<1>3. CASE Bad = {}
  <2>1. n \in 0..n
    OBVIOUS
  <2> HIDE DEF Good
  <2>2. Good(n)
    BY <1>3, <2>1
  <2>3. QED
    BY <2>2 DEF Good
<1>4. CASE Bad # {}
  <2> HIDE DEF Good
  <2>1. PICK m \in Bad : \A k \in Bad : m <= k
    <3>1. Bad \subseteq Nat
      OBVIOUS
    <3> HIDE DEF Bad
    <3>2. QED
      BY <1>4, <3>1, LeastNatural
  <2>2. m # 0 /\ m \in 0..n /\ ~Good(m)
    BY <1>1, <2>1
  <2>3. m - 1 \in 0..n /\ m \in 1..n /\ ~(m <= m - 1)
    BY <2>2
  <2>4. Good(m - 1)
    BY <2>1, <2>3
  <2>5. Good(m)
    BY <1>2, <2>3, <2>4
  <2>6. QED
    BY <2>2, <2>5
<1>5. QED
  BY <1>3, <1>4
-----------------------------------------------------------------------------
(* What one line of the queue does to the keys and the incidents built. *)
AccType == [keys : SUBSET KeySet, built : Seq(Incident)]

(* While the queue is drained: the keys that were there stay, and are not built
   again; a new key stands for one incident of the new ones. *)
Draining(acc) ==
  /\ acc \in AccType
  /\ keys \subseteq acc.keys
  /\ \A k \in keys : Absent(acc.built, k)
  /\ \A k \in acc.keys \ keys : Unique(acc.built, k)
  /\ Covered(acc.built, acc.keys)

(* An incident at the end of a sequence, by its key. *)
LEMMA OneMoreIncident ==
  ASSUME NEW s \in Seq(Incident), NEW inc \in Incident, NEW k
  PROVE  /\ Append(s, inc) \in Seq(Incident)
         /\ Absent(Append(s, inc), k) <=> Absent(s, k) /\ Key(inc) # k
         /\ Key(inc) # k /\ Unique(s, k) => Unique(Append(s, inc), k)
         /\ Key(inc) = k /\ Absent(s, k) => Unique(Append(s, inc), k)
         /\ \A K : Covered(Append(s, inc), K) <=>
                     Covered(s, K) /\ (inc.overflow > 0 => Key(inc) \in K)
<1> DEFINE t == Append(s, inc)
<1>1. /\ t \in Seq(Incident) /\ Len(s) \in Nat /\ Len(t) = Len(s) + 1
      /\ DOMAIN s = 1..Len(s) /\ DOMAIN t = 1..(Len(s) + 1)
      /\ \A i \in 1..Len(s) : t[i] = s[i]
      /\ t[Len(s) + 1] = inc
  OBVIOUS
<1> HIDE DEF t
<1>2. DOMAIN t = DOMAIN s \cup {Len(s) + 1} /\ Len(s) + 1 \notin DOMAIN s
  BY <1>1
<1>3. \A i \in DOMAIN s : t[i] = s[i]
  BY <1>1
<1>4. Absent(t, k) <=> Absent(s, k) /\ Key(inc) # k
  BY <1>1, <1>2, <1>3 DEF Absent
<1>5. ASSUME Key(inc) # k, Unique(s, k)
      PROVE  Unique(t, k)
  <2>1. PICK i \in DOMAIN s : Key(s[i]) = k /\ \A j \in DOMAIN s : Key(s[j]) = k => j = i
    BY <1>5 DEF Unique
  <2>2. Key(t[i]) = k /\ \A j \in DOMAIN t : Key(t[j]) = k => j = i
    BY <1>1, <1>2, <1>3, <1>5, <2>1
  <2>3. QED
    BY <1>2, <2>2 DEF Unique
<1>6. ASSUME Key(inc) = k, Absent(s, k)
      PROVE  Unique(t, k)
  BY <1>1, <1>2, <1>3, <1>6 DEF Unique, Absent
<1>7. \A K : Covered(t, K) <=> Covered(s, K) /\ (inc.overflow > 0 => Key(inc) \in K)
  BY <1>1, <1>2, <1>3 DEF Covered
<1>8. QED
  BY <1>1, <1>4, <1>5, <1>6, <1>7 DEF t

(* The same, of the two parts. *)
LEMMA DrainingParts ==
  ASSUME NEW K \in SUBSET KeySet, NEW B \in Seq(Incident), keys \subseteq K,
         \A k \in keys : Absent(B, k), \A k \in K \ keys : Unique(B, k), Covered(B, K)
  PROVE  Draining([keys |-> K, built |-> B])
<1> DEFINE acc == [keys |-> K, built |-> B]
<1>1. acc \in AccType /\ acc.keys = K /\ acc.built = B
  BY DEF AccType
<1> HIDE DEF acc
<1>2. Draining(acc)
  BY <1>1 DEF Draining
<1>3. QED
  BY <1>2 DEF acc

(* _build_incident keeps what the drained lines have in common. *)
LEMMA BuildStep ==
  ASSUME TypeInv, NEW acc, Draining(acc), NEW d \in Devices
  PROVE  Draining(Build(acc, d))
<1> DEFINE inc == Blame(d)
           K   == acc.keys
           B   == acc.built
<1>1. inc \in Incident /\ Key(inc) = <<d, inc.overflow>> /\ inc.dev = d
  BY DEF TypeInv, Blame, Incident, Key
<1>2. /\ K \subseteq KeySet /\ keys \subseteq K /\ B \in Seq(Incident) /\ acc = [keys |-> K, built |-> B]
      /\ \A k \in keys : Absent(B, k)
      /\ \A k \in K \ keys : Unique(B, k)
      /\ Covered(B, K)
  BY DEF Draining, AccType
<1> HIDE DEF inc, K, B
<1>3. \A k \in KeySet : k[2] \in Nat /\ k[2] > 0
  BY DEF KeySet
<1>4. inc.overflow \in Nat
  BY <1>1 DEF Incident
<1>5. CASE inc.overflow = 0
  <2>1. Build(acc, d) = [keys |-> K, built |-> Append(B, inc)]
    BY <1>2, <1>5 DEF Build, inc, K, B
  <2>2. \A k \in KeySet : Key(inc) # k
    BY <1>1, <1>3, <1>5
  <2>3. Append(B, inc) \in Seq(Incident) /\ Covered(Append(B, inc), K)
    BY <1>1, <1>2, <1>5, OneMoreIncident
  <2>4. \A k \in keys : Absent(Append(B, inc), k)
    BY <1>1, <1>2, <2>2, OneMoreIncident
  <2>5. \A k \in K \ keys : Unique(Append(B, inc), k)
    BY <1>1, <1>2, <2>2, OneMoreIncident
  <2>6. QED
    BY <1>2, <2>1, <2>3, <2>4, <2>5, DrainingParts
<1>6. CASE inc.overflow > 0 /\ Key(inc) \in K
  <2>1. Build(acc, d) = acc
    BY <1>6 DEF Build, inc, K
  <2>2. QED
    BY <2>1
<1>7. CASE inc.overflow > 0 /\ Key(inc) \notin K
  <2>1. Build(acc, d) = [keys |-> K \cup {Key(inc)}, built |-> Append(B, inc)]
    BY <1>2, <1>7 DEF Build, inc, K, B
  <2>2. Key(inc) \in KeySet
    BY <1>1, <1>4, <1>7 DEF KeySet
  <2>3. Covered(B, K \cup {Key(inc)})
    BY <1>2 DEF Covered
  <2>4. Append(B, inc) \in Seq(Incident) /\ Covered(Append(B, inc), K \cup {Key(inc)})
    BY <1>1, <1>2, <2>3, OneMoreIncident
  <2>5. \A k \in keys : Absent(Append(B, inc), k)
    BY <1>1, <1>2, <1>7, OneMoreIncident
  <2>6. Absent(B, Key(inc))
    BY <1>1, <1>2, <1>7 DEF Absent, Covered, Incident, Key
  <2>7. \A k \in K \ keys : Unique(Append(B, inc), k)
    BY <1>1, <1>2, <1>7, OneMoreIncident
  <2>8. Unique(Append(B, inc), Key(inc))
    BY <1>1, <1>2, <2>6, OneMoreIncident
  <2>9. \A k \in (K \cup {Key(inc)}) \ keys : Unique(Append(B, inc), k)
    BY <2>7, <2>8
  <2>10. QED
    BY <1>2, <2>1, <2>2, <2>4, <2>5, <2>9, DrainingParts
<1>8. QED
  BY <1>4, <1>5, <1>6, <1>7

(* What _drain_violations makes of the whole queue, whatever its length. *)
LEMMA DrainedIsDraining ==
  ASSUME TypeInv
  PROVE  Draining(Drained)
<1> DEFINE n == Len(violations)
           b == [keys |-> keys, built |-> <<>>]
           S == {acc \in AccType : Draining(acc)}
           F == [x \in S \X (1..n) |-> Build(x[1], violations[x[2]])]
<1>1. n \in Nat /\ \A k \in 1..n : violations[k] \in Devices
  BY DEF TypeInv
<1>2. b \in S
  <2>1. Draining(b)
    <3>1. keys \in SUBSET KeySet /\ <<>> \in Seq(Incident)
      BY DEF TypeInv
    <3>2. \A k \in keys : Absent(<<>>, k)
      BY DEF Absent
    <3>3. Covered(<<>>, keys)
      BY DEF Covered
    <3>4. QED
      BY <3>1, <3>2, <3>3, DrainingParts
  <2>2. QED
    BY <2>1 DEF Draining
<1>3. F \in [S \X (1..n) -> S]
  <2>1. ASSUME NEW acc \in S, NEW k \in 1..n
        PROVE  Build(acc, violations[k]) \in S
    <3>1. Draining(acc) /\ violations[k] \in Devices
      BY <1>1
    <3>2. Draining(Build(acc, violations[k]))
      BY <3>1, BuildStep
    <3>3. QED
      BY <3>2 DEF Draining
  <2> HIDE DEF S, n
  <2>2. \A x \in S \X (1..n) : x[1] \in S /\ x[2] \in 1..n
    OBVIOUS
  <2>3. \A x \in S \X (1..n) : Build(x[1], violations[x[2]]) \in S
    BY <2>1, <2>2
  <2>4. QED
    BY <2>3
<1> DEFINE Acc(f) == f = [k \in 0..n |-> IF k = 0 THEN b ELSE Build(f[k - 1], violations[k])]
<1>4. \E f \in [0..n -> S] : Acc(f)
  <2> HIDE DEF S, n, b, Acc
  <2>1. F \in [S \X (1..n) -> S] /\ b \in S /\ n \in Nat
    BY <1>1, <1>2, <1>3
  <2>2. \A acc \in S, k \in 1..n : F[<<acc, k>>] = Build(acc, violations[k])
    OBVIOUS
  <2> HIDE DEF F
  <2>3. PICK f \in [0..n -> S] : Recurs(f, n, b, F)
    BY <2>1, RecursionExists
  <2>4. ASSUME NEW k \in 0..n
        PROVE  f[k] = IF k = 0 THEN b ELSE Build(f[k - 1], violations[k])
    <3>1. CASE k = 0
      BY <2>3, <3>1 DEF Recurs
    <3>2. CASE k # 0
      <4>1. k \in 1..n /\ k - 1 \in 0..n
        BY <2>1, <3>2
      <4>2. f[k - 1] \in S /\ f[k] = F[<<f[k - 1], k>>]
        BY <2>3, <4>1 DEF Recurs
      <4>3. QED
        BY <2>2, <3>2, <4>1, <4>2
    <3>3. QED
      BY <3>1, <3>2
  <2>5. Acc(f)
    BY <2>4 DEF Acc
  <2>6. QED
    BY <2>5
<1> DEFINE g == CHOOSE f : Acc(f)
<1>5. Acc(g)
  <2> HIDE DEF Acc
  <2>1. QED
    BY <1>4
<1>6. Drained = g[n]
  BY DEF Drained
<1> HIDE DEF g
<1>7. \A k \in 0..n : g[k] = IF k = 0 THEN b ELSE Build(g[k - 1], violations[k])
  BY <1>5
<1> DEFINE Bad == {k \in 0..n : ~Draining(g[k])}
<1>8. CASE Bad = {}
  <2>1. \A k \in 0..n : Draining(g[k])
    BY <1>8
  <2>2. n \in 0..n
    BY <1>1
  <2> HIDE DEF n
  <2>3. QED
    BY <1>6, <2>1, <2>2
<1>9. CASE Bad # {}
  <2>1. PICK m \in Bad : \A k \in Bad : m <= k
    <3>1. Bad \subseteq Nat
      BY <1>1
    <3> HIDE DEF Bad
    <3>2. QED
      BY <1>9, <3>1, LeastNatural
  <2>2. m \in 0..n /\ ~Draining(g[m])
    BY <2>1
  <2>3. m # 0
    BY <1>2, <1>7, <2>2
  <2>4. m \in 1..n /\ m - 1 \in 0..n /\ ~(m <= m - 1)
    BY <1>1, <2>2, <2>3
  <2>5. Draining(g[m - 1])
    BY <2>1, <2>4
  <2>6. g[m] = Build(g[m - 1], violations[m])
    BY <1>7, <2>2, <2>3
  <2>7. Draining(Build(g[m - 1], violations[m]))
    BY <1>1, <2>4, <2>5, BuildStep
  <2>8. QED
    BY <2>2, <2>6, <2>7
<1>10. QED
  BY <1>8, <1>9
-----------------------------------------------------------------------------
(* A key in two sequences one after the other. *)
LEMMA ConcatKeys ==
  ASSUME NEW s \in Seq(Incident), NEW t \in Seq(Incident), NEW k
  PROVE  /\ s \o t \in Seq(Incident)
         /\ Absent(s \o t, k) <=> Absent(s, k) /\ Absent(t, k)
         /\ Unique(s \o t, k) <=> \/ Unique(s, k) /\ Absent(t, k)
                                  \/ Absent(s, k) /\ Unique(t, k)
         /\ \A K : Covered(s \o t, K) <=> Covered(s, K) /\ Covered(t, K)
<1> DEFINE u == s \o t
           m == Len(s)
           n == Len(t)
<1>1. /\ u \in Seq(Incident) /\ m \in Nat /\ n \in Nat /\ Len(u) = m + n
      /\ DOMAIN s = 1..m /\ DOMAIN t = 1..n /\ DOMAIN u = 1..(m + n)
      /\ \A i \in 1..m : u[i] = s[i]
      /\ \A i \in 1..n : u[m + i] = t[i]
  BY ConcatProperties
<1> HIDE DEF u, m, n
<1>2. \A i \in DOMAIN s : i \in DOMAIN u /\ u[i] = s[i]
  BY <1>1
<1>3. \A i \in DOMAIN t : m + i \in DOMAIN u /\ u[m + i] = t[i] /\ m + i \notin DOMAIN s
  BY <1>1
<1>4. \A i \in DOMAIN u : i \in DOMAIN s \/ \E j \in DOMAIN t : i = m + j
  <2> SUFFICES ASSUME NEW i \in DOMAIN u, i \notin DOMAIN s
               PROVE  \E j \in DOMAIN t : i = m + j
    OBVIOUS
  <2>1. i - m \in DOMAIN t /\ i = m + (i - m)
    BY <1>1
  <2>2. QED
    BY <2>1
<1>5. Absent(u, k) <=> Absent(s, k) /\ Absent(t, k)
  <2>1. Absent(u, k) => Absent(s, k) /\ Absent(t, k)
    BY <1>2, <1>3 DEF Absent
  <2>2. Absent(s, k) /\ Absent(t, k) => Absent(u, k)
    BY <1>2, <1>3, <1>4 DEF Absent
  <2>3. QED
    BY <2>1, <2>2
<1>6. \A K : Covered(u, K) <=> Covered(s, K) /\ Covered(t, K)
  <2> SUFFICES ASSUME NEW K
               PROVE  Covered(u, K) <=> Covered(s, K) /\ Covered(t, K)
    OBVIOUS
  <2>1. Covered(u, K) => Covered(s, K) /\ Covered(t, K)
    BY <1>2, <1>3 DEF Covered
  <2>2. Covered(s, K) /\ Covered(t, K) => Covered(u, K)
    BY <1>2, <1>3, <1>4 DEF Covered
  <2>3. QED
    BY <2>1, <2>2
<1>7. ASSUME Unique(s, k), Absent(t, k)
      PROVE  Unique(u, k)
  <2>1. PICK i \in DOMAIN s : Key(s[i]) = k /\ \A j \in DOMAIN s : Key(s[j]) = k => j = i
    BY <1>7 DEF Unique
  <2>2. ASSUME NEW j \in DOMAIN u, Key(u[j]) = k
        PROVE  j = i
    BY <1>2, <1>3, <1>4, <1>7, <2>1, <2>2 DEF Absent
  <2>3. QED
    BY <1>2, <2>1, <2>2 DEF Unique
<1>8. ASSUME Absent(s, k), Unique(t, k)
      PROVE  Unique(u, k)
  <2>1. PICK i \in DOMAIN t : Key(t[i]) = k /\ \A j \in DOMAIN t : Key(t[j]) = k => j = i
    BY <1>8 DEF Unique
  <2>2. ASSUME NEW j \in DOMAIN u, Key(u[j]) = k
        PROVE  j = m + i
    BY <1>2, <1>3, <1>4, <1>8, <2>1, <2>2 DEF Absent
  <2>3. m + i \in DOMAIN u /\ Key(u[m + i]) = k
    BY <1>3, <2>1
  <2>4. QED
    BY <2>2, <2>3 DEF Unique
<1>9. ASSUME Unique(u, k)
      PROVE  (Unique(s, k) /\ Absent(t, k)) \/ (Absent(s, k) /\ Unique(t, k))
  <2>1. PICK i \in DOMAIN u : Key(u[i]) = k /\ \A j \in DOMAIN u : Key(u[j]) = k => j = i
    BY <1>9 DEF Unique
  <2>2. CASE i \in DOMAIN s
    <3>1. Unique(s, k)
      BY <1>2, <2>1, <2>2 DEF Unique
    <3>2. Absent(t, k)
      BY <1>3, <2>1, <2>2 DEF Absent
    <3>3. QED
      BY <3>1, <3>2
  <2>3. CASE i \notin DOMAIN s
    <3>1. PICK j \in DOMAIN t : i = m + j
      BY <1>4, <2>3
    <3>2. ASSUME NEW l \in DOMAIN t, Key(t[l]) = k
          PROVE  l = j
      <4>1. m + l = m + j
        BY <1>3, <2>1, <3>1, <3>2
      <4>2. QED
        BY <1>1, <4>1
    <3>3. Unique(t, k)
      BY <1>3, <2>1, <3>1, <3>2 DEF Unique
    <3>4. Absent(s, k)
      BY <1>2, <2>1, <2>3 DEF Absent
    <3>5. QED
      BY <3>3, <3>4
  <2>4. QED
    BY <2>2, <2>3
<1>10. QED
  BY <1>1, <1>5, <1>6, <1>7, <1>8, <1>9 DEF u
-----------------------------------------------------------------------------
(* Every step keeps the types: the queues hold devices and incidents, and
   every incident and every key blames a device. *)
LEMMA TypeStep ==
  ASSUME TypeInv, [Next]_vars
  PROVE  TypeInv'
<1> USE DEF TypeInv, queues, loop, engine
<1>1. ASSUME NEW d \in Devices, NEW type \in Streams, Feed(d, type)
      PROVE  TypeInv'
  BY <1>1 DEF Feed, Report
<1>2. ASSUME NEW d \in Devices, NEW type \in Streams, FeedNobody(d, type)
      PROVE  TypeInv'
  BY <1>2 DEF FeedNobody
<1>3. CASE EngineDies \/ Quiet \/ UNCHANGED vars
  BY <1>3 DEF EngineDies, Quiet, vars
<1>4. CASE Record
  <2>1. lastOverflow' \in [Devices -> Nat]
    BY <1>4 DEF Record
  <2>2. pc' = "collect" /\ UNCHANGED <<alert, fed, spawned, out, violations, built, pending, keys, emitted>>
    BY <1>4 DEF Record
  <2>3. alert.dev \in Devices
    BY <1>4 DEF Record
  <2>4. QED
    BY <2>1, <2>2, <2>3
<1>5. CASE Collect \/ OnTick
  <2>1. emitted' \in Seq(Incident) /\ pending' \in Seq(Incident)
    <3>1. emitted' = emitted \o pending /\ pending' = <<>>
      BY <1>5 DEF Collect, OnTick, EmitPending
    <3>2. emitted \o pending \in Seq(Incident) /\ <<>> \in Seq(Incident)
      BY ConcatKeys
    <3>3. QED
      BY <3>1, <3>2
  <2>2. QED
    BY <1>5, <2>1 DEF Collect, OnTick, EmitPending
<1>6. CASE ReadLine
  <2>1. Head(out) \in Devices /\ Tail(out) \in Seq(Devices)
    BY <1>6 DEF ReadLine
  <2>2. violations' \in Seq(Devices) /\ out' \in Seq(Devices)
    BY <1>6, <2>1 DEF ReadLine
  <2>3. QED
    BY <1>6, <2>2 DEF ReadLine
<1>7. CASE Drain
  <2>1. Drained.keys \subseteq KeySet /\ Drained.built \in Seq(Incident)
    BY DrainedIsDraining DEF Draining, AccType
  <2>2. QED
    BY <1>7, <2>1 DEF Drain
<1>8. CASE Dispatch
  <2>1. pending' \in Seq(Incident) /\ built' \in Seq(Incident)
    BY <1>8, ConcatKeys DEF Dispatch
  <2>2. QED
    BY <1>8, <2>1 DEF Dispatch
<1>9. ASSUME NEW d \in Devices, LocalTick(d)
      PROVE  TypeInv'
  <2>1. out' \in Seq(Devices)
    BY <1>9 DEF LocalTick
  <2>2. QED
    BY <1>9, <2>1 DEF LocalTick
<1>10. QED
  BY <1>1, <1>2, <1>3, <1>4, <1>5, <1>6, <1>7, <1>8, <1>9 DEF Next, EventLoop, Threads, Clocks

(* An incident on its way is in one place: draining puts new keys into built,
   and every other step moves incidents on. *)
LEMMA WayStep ==
  ASSUME TypeInv, WayInv, [Next]_vars
  PROVE  WayInv'
<1>1. CASE UNCHANGED <<built, pending, emitted, keys>>
  BY <1>1 DEF WayInv, OnceOnItsWay, Covered, Unique, Absent
<1>2. CASE Collect \/ OnTick
  <2>1. emitted' = emitted \o pending /\ pending' = <<>> /\ UNCHANGED <<built, keys>>
    BY <1>2 DEF Collect, OnTick, EmitPending
  <2>2. \A k : Absent(<<>>, k) /\ ~Unique(<<>>, k)
    BY DEF Absent, Unique
  <2>3. \A k \in keys : OnceOnItsWay(k)'
    BY <2>1, <2>2, ConcatKeys DEF WayInv, OnceOnItsWay, TypeInv
  <2>4. Covered(emitted \o pending, keys) /\ Covered(<<>>, keys)
    BY ConcatKeys DEF WayInv, Covered, TypeInv
  <2>5. QED
    BY <2>1, <2>3, <2>4 DEF WayInv
<1>3. CASE Dispatch
  <2>1. pending' = pending \o built /\ built' = <<>> /\ UNCHANGED <<emitted, keys>>
    BY <1>3 DEF Dispatch
  <2>2. \A k : Absent(<<>>, k) /\ ~Unique(<<>>, k)
    BY DEF Absent, Unique
  <2>3. \A k \in keys : OnceOnItsWay(k)'
    BY <2>1, <2>2, ConcatKeys DEF WayInv, OnceOnItsWay, TypeInv
  <2>4. Covered(pending \o built, keys) /\ Covered(<<>>, keys)
    BY ConcatKeys DEF WayInv, Covered, TypeInv
  <2>5. QED
    BY <2>1, <2>3, <2>4 DEF WayInv
<1>4. CASE Drain
  <2>1. /\ keys' = Drained.keys /\ built' = Drained.built /\ built = <<>>
        /\ UNCHANGED <<pending, emitted>>
    BY <1>4 DEF Drain
  <2>2. /\ keys \subseteq keys' /\ keys' \subseteq KeySet
        /\ \A k \in keys : Absent(built', k)
        /\ \A k \in keys' \ keys : Unique(built', k)
        /\ Covered(built', keys')
    BY <2>1, DrainedIsDraining DEF Draining, AccType
  <2>3. ASSUME NEW k \in keys
        PROVE  OnceOnItsWay(k)'
    <3>1. ~Unique(built, k)
      BY <2>1 DEF Unique
    <3>2. \/ Unique(pending, k) /\ Absent(emitted, k)
          \/ Absent(pending, k) /\ Unique(emitted, k)
      BY <3>1 DEF WayInv, OnceOnItsWay
    <3>3. QED
      BY <2>1, <2>2, <3>2 DEF OnceOnItsWay
  <2>4. ASSUME NEW k \in keys' \ keys
        PROVE  OnceOnItsWay(k)'
    <3>1. k[2] > 0
      BY <2>2 DEF KeySet
    <3>2. Absent(pending, k) /\ Absent(emitted, k)
      BY <3>1 DEF WayInv, Covered, Absent, Key
    <3>3. QED
      BY <2>1, <2>2, <3>2 DEF OnceOnItsWay
  <2>5. Covered(pending, keys') /\ Covered(emitted, keys')
    BY <2>2 DEF WayInv, Covered
  <2>6. QED
    BY <2>1, <2>2, <2>3, <2>4, <2>5 DEF WayInv
<1>5. CASE \/ \E d \in Devices, type \in Streams : Feed(d, type) \/ FeedNobody(d, type)
           \/ EngineDies \/ Record \/ ReadLine \/ Quiet \/ UNCHANGED vars
           \/ \E d \in Devices : LocalTick(d)
  <2>1. UNCHANGED <<built, pending, emitted, keys>>
    BY <1>5 DEF Feed, FeedNobody, EngineDies, Record, ReadLine, Quiet, LocalTick, vars, queues
  <2>2. QED
    BY <1>1, <2>1
<1>6. QED
  BY <1>2, <1>3, <1>4, <1>5 DEF Next, EventLoop, Threads, Clocks

(* The inductive invariant: the queues are well formed, and a key that was
   used stands for one incident that is built, pending or emitted. *)
THEOREM SilentNodeInvariant == Spec => [](TypeInv /\ WayInv)
<1>1. Init => TypeInv /\ WayInv
  BY DEF Init, TypeInv, WayInv, Covered
<1>2. TypeInv /\ WayInv /\ [Next]_vars => (TypeInv /\ WayInv)'
  BY TypeStep, WayStep
<1>3. QED
  BY <1>1, <1>2, PTL DEF Spec

(* correlator_monitor.py:127-181: no incident is lost, doubled or made up
   between the reader, the dispatch loop and the event loop. *)
THEOREM EachKeyHasItsIncident == Spec => []NoIncidentLost
<1>1. TypeInv /\ WayInv => NoIncidentLost
  <2> SUFFICES ASSUME TypeInv, WayInv
               PROVE  NoIncidentLost
    OBVIOUS
  <2>1. pending \o emitted \in Seq(Incident) /\ built \in Seq(Incident)
    BY ConcatKeys DEF TypeInv
  <2>2. built \o pending \o emitted = built \o (pending \o emitted)
    <3>1. built \in Seq(Incident) /\ pending \in Seq(Incident) /\ emitted \in Seq(Incident)
      BY DEF TypeInv
    <3>2. QED
      BY <3>1, ConcatAssociative
  <2>3. ASSUME NEW k \in keys
        PROVE  Cardinality({i \in DOMAIN Incidents : Key(Incidents[i]) = k}) = 1
    <3>1. OnceOnItsWay(k)
      BY DEF WayInv
    <3>2. \/ Unique(built, k) /\ Absent(pending \o emitted, k)
          \/ Absent(built, k) /\ Unique(pending \o emitted, k)
      BY <3>1, ConcatKeys DEF OnceOnItsWay, TypeInv
    <3>3. Unique(Incidents, k)
      BY <2>1, <2>2, <3>2, ConcatKeys DEF Incidents
    <3>4. PICK i \in DOMAIN Incidents :
            Key(Incidents[i]) = k /\ \A j \in DOMAIN Incidents : Key(Incidents[j]) = k => j = i
      BY <3>3 DEF Unique
    <3>5. {j \in DOMAIN Incidents : Key(Incidents[j]) = k} = {i}
      BY <3>4
    <3>6. QED
      BY <3>5, FS_Singleton
  <2>4. Covered(Incidents, keys)
    BY <2>1, <2>2, ConcatKeys DEF Incidents, WayInv, TypeInv
  <2>5. QED
    BY <2>3, <2>4 DEF NoIncidentLost, Covered
<1>2. QED
  BY <1>1, SilentNodeInvariant, PTL
=============================================================================
