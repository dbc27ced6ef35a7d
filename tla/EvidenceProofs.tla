---------------------------- MODULE EvidenceProofs ----------------------------
(***************************************************************************)
(* Proofs about Evidence, for every capacity, watermark, window, batch and *)
(* set of devices: what the ledger of the stream and of its losses adds up *)
(* to, and what the completeness tag may therefore say.                    *)
(***************************************************************************)
EXTENDS Evidence, FiniteSetTheorems, SequenceTheorems, WellFoundedInduction, TLAPS

Elems(s) == {s[k] : k \in DOMAIN s}

(* The ids of a sequence are in it once. *)
OnceEach(s) == \A i, j \in DOMAIN s : i # j /\ s[i] # Tick => s[i] # s[j]

(* The ledger: an id that was issued is in the stream, once, or among the lost
   ones, and never both; and a stream that evicted is full. *)
StoreInv ==
  /\ issued \in [Devices -> Nat] /\ store \in Seq(Ids \cup {Tick})
  /\ Len(store) <= Capacity /\ OnceEach(store)
  /\ Missing \subseteq Ids /\ Missing \cap Elems(store) = {}
  /\ Ids \subseteq Elems(store) \cup Missing
  /\ evicted # {} => Len(store) = Capacity

(* The reading: what was delivered and what is left are the ids of the stream,
   and the tag is what classify makes of them. *)
ReadInv ==
  /\ pc \in {"publish", "read", "done"} /\ marks \in BOOLEAN
  /\ pc = "publish" => got = {}
  /\ pc # "publish" => /\ left \subseteq DOMAIN store
                       /\ got \cup {store[i] : i \in left} = Elems(store) \ {Tick}
  /\ pc # "done" => tag = "none"
  /\ pc = "done" => \/ tag = Classify(HasGap(got))
                    \/ marks /\ tag = Classify(ObserveGap(got))

Inv == StoreInv /\ ReadInv
-----------------------------------------------------------------------------
(* A set of natural numbers has a least element. *)
LEMMA LeastNatural ==
  ASSUME NEW V, V \subseteq Nat, V # {}
  PROVE  \E x \in V : \A y \in V : x <= y
<1>1. PICK x \in V : \A y \in V : ~ (<<y, x>> \in OpToRel(<, Nat))
  BY NatLessThanWellFounded, WFMin
<1>2. \A y \in V : ~ (y < x)
  BY <1>1 DEF OpToRel
<1>3. QED
  BY <1>2

(* Max and Min of a bounded set of natural numbers are what they are called. *)
LEMMA MaxMinFacts ==
  ASSUME NEW k \in Nat, NEW V \in SUBSET (0..k), V # {}
  PROVE  /\ Max(V) \in V /\ Min(V) \in V
         /\ \A x \in V : Min(V) <= x /\ x <= Max(V)
<1>0. \A x \in V : x \in 0..k /\ x \in Nat
  OBVIOUS
<1>1. \E x \in V : \A y \in V : x <= y
  <2>1. V \subseteq Nat
    BY <1>0
  <2>2. QED
    BY <2>1, LeastNatural
<1>2. \E x \in V : \A y \in V : y <= x
  <2> DEFINE W == {n \in 0..k : k - n \in V}
  <2>1. W \subseteq Nat /\ W # {}
    <3>1. PICK y \in V : TRUE
      OBVIOUS
    <3>2. k - y \in 0..k /\ k - (k - y) = y
      BY <1>0
    <3>3. k - (k - y) \in V
      BY <3>2
    <3>4. k - y \in W
      BY <3>2, <3>3
    <3>5. \A x \in W : x \in Nat
      OBVIOUS
    <3>6. QED
      <4> HIDE DEF W
      <4>1. QED
        BY <3>4, <3>5
  <2>2. PICK n \in W : \A m \in W : n <= m
    <3> HIDE DEF W
    <3>1. QED
      BY <2>1, LeastNatural
  <2>3. ASSUME NEW y \in V
        PROVE  y <= k - n
    <3>1. k - y \in 0..k /\ k - (k - y) = y
      BY <1>0
    <3>2. k - (k - y) \in V
      BY <3>1
    <3>3. k - y \in W
      BY <3>1, <3>2
    <3>4. n <= k - y /\ n \in 0..k
      BY <2>2, <3>3
    <3>5. QED
      BY <1>0, <3>4
  <2>4. QED
    BY <2>2, <2>3
<1>3. Max(V) \in V /\ \A y \in V : y <= Max(V)
  BY <1>2 DEF Max
<1>4. Min(V) \in V /\ \A y \in V : Min(V) <= y
  BY <1>1 DEF Min
<1>5. QED
  BY <1>3, <1>4

(* The numbers up to k without a hole have none, and a set whose span is its
   size is an interval: the two directions of the test in has_gap. *)
LEMMA HoleFacts ==
  ASSUME NEW k \in Nat, NEW V \in SUBSET (0..k), V # {}
  PROVE  /\ V = 0..k => ~Hole(V) /\ Max(V) = k
         /\ Max(V) - Min(V) + 1 = Cardinality(V) => V = Min(V)..Max(V)
<1> DEFINE lo == Min(V)
           hi == Max(V)
<1>1. /\ hi \in V /\ lo \in V /\ hi \in Nat /\ lo \in Nat /\ lo <= hi
      /\ \A x \in V : lo <= x /\ x <= hi
  <2>1. hi \in V /\ lo \in V /\ \A x \in V : lo <= x /\ x <= hi
    BY MaxMinFacts
  <2> HIDE DEF lo, hi
  <2>2. \A x \in V : x \in 0..k /\ x \in Nat
    OBVIOUS
  <2>3. QED
    BY <2>1, <2>2
<1>2. /\ IsFiniteSet(lo..hi) /\ Cardinality(lo..hi) = hi - lo + 1
      /\ IsFiniteSet(0..k) /\ Cardinality(0..k) = k - 0 + 1
  <2>1. lo \in Int /\ hi \in Int /\ ~(lo > hi) /\ 0 \in Int /\ k \in Int /\ ~(0 > k)
    BY <1>1
  <2> HIDE DEF lo, hi
  <2>2. QED
    BY <2>1, FS_Interval
<1>3. ASSUME V = 0..k
      PROVE  ~Hole(V) /\ hi = k
  <2>1. 0 \in V /\ k \in V
    BY <1>3
  <2>2. lo = 0 /\ hi = k
    BY <1>1, <1>3, <2>1
  <2>3. QED
    BY <1>2, <1>3, <2>2 DEF Hole
<1>4. ASSUME hi - lo + 1 = Cardinality(V)
      PROVE  V = lo..hi
  <2>1. V \subseteq lo..hi
    BY <1>1
  <2>2. Cardinality(V) = Cardinality(lo..hi)
    BY <1>2, <1>4
  <2> HIDE DEF lo, hi
  <2>3. QED
    BY <1>2, <2>1, <2>2, FS_Subset
<1>5. QED
  BY <1>3, <1>4
-----------------------------------------------------------------------------
(* An id is a device and one of its numbers, and no tick. *)
LEMMA IdFacts ==
  /\ \A m : m \in Ids <=> \E d \in Devices : \E n \in 0..(issued[d] - 1) : m = <<d, n>>
  /\ \A d, n : <<d, n>> # Tick
  /\ Tick \notin Ids
<1>1. \A m : m \in Ids <=> \E d \in Devices : \E n \in 0..(issued[d] - 1) : m = <<d, n>>
  BY DEF Ids
<1>2. \A d, n : <<d, n>> # Tick
  <2> SUFFICES ASSUME NEW d, NEW n, <<d, n>> = Tick
               PROVE  FALSE
    OBVIOUS
  <2>1. Len(<<d, n>>) = 2 /\ Len(Tick) = 1
    BY DEF Tick
  <2>2. QED
    BY <2>1
<1>3. Tick \notin Ids
  BY <1>1, <1>2
<1>4. QED
  BY <1>1, <1>2, <1>3

(* The id a device is issued next is new. *)
LEMMA IssueFacts ==
  ASSUME StoreInv, NEW d \in Devices, Issue(d)
  PROVE  /\ <<d, issued[d]>> \notin Ids /\ Ids' = Ids \cup {<<d, issued[d]>>}
         /\ issued' \in [Devices -> Nat]
<1>1. /\ issued \in [Devices -> Nat] /\ issued[d] \in Nat
      /\ issued' = [issued EXCEPT ![d] = issued[d] + 1]
  BY DEF StoreInv, Issue
<1>2. issued'[d] = issued[d] + 1 /\ \A e \in Devices : e # d => issued'[e] = issued[e]
  BY <1>1
<1>3. ASSUME NEW m
      PROVE  m \in Ids' <=> \E e \in Devices : \E n \in 0..(issued'[e] - 1) : m = <<e, n>>
  BY DEF Ids
<1>4. 0..(issued'[d] - 1) = (0..(issued[d] - 1)) \cup {issued[d]} /\ issued[d] \notin 0..(issued[d] - 1)
  BY <1>1, <1>2
<1>5. <<d, issued[d]>> \notin Ids
  <2> SUFFICES ASSUME NEW e \in Devices, NEW n \in 0..(issued[e] - 1), <<d, issued[d]>> = <<e, n>>
               PROVE  FALSE
    BY IdFacts
  <2>1. d = e /\ issued[d] = n
    OBVIOUS
  <2>2. QED
    BY <1>4, <2>1
<1>6. ASSUME NEW m
      PROVE  m \in Ids' <=> m \in Ids \/ m = <<d, issued[d]>>
  <2>1. ASSUME NEW e \in Devices, NEW n \in 0..(issued'[e] - 1), m = <<e, n>>
        PROVE  m \in Ids \/ m = <<d, issued[d]>>
    <3>1. CASE e = d
      <4>1. n \in 0..(issued[d] - 1) \/ n = issued[d]
        BY <1>4, <2>1, <3>1
      <4>2. QED
        BY <2>1, <3>1, <4>1, IdFacts
    <3>2. CASE e # d
      BY <1>2, <2>1, <3>2, IdFacts
    <3>3. QED
      BY <3>1, <3>2
  <2>2. ASSUME NEW e \in Devices, NEW n \in 0..(issued[e] - 1), m = <<e, n>>
        PROVE  n \in 0..(issued'[e] - 1)
    BY <1>2, <1>4, <2>2
  <2>3. issued[d] \in 0..(issued'[d] - 1)
    BY <1>4
  <2>4. QED
    BY <1>3, <2>1, <2>2, <2>3, IdFacts
<1>7. issued' \in [Devices -> Nat]
  BY <1>1
<1>8. QED
  BY <1>5, <1>6, <1>7

(* What a sequence loses with its head. *)
LEMMA TailFacts ==
  ASSUME NEW S, NEW s \in Seq(S), s # <<>>
  PROVE  /\ Tail(s) \in Seq(S) /\ Len(s) \in Nat /\ Len(s) >= 1 /\ Len(Tail(s)) = Len(s) - 1
         /\ DOMAIN s = 1..Len(s) /\ DOMAIN Tail(s) = 1..(Len(s) - 1)
         /\ Head(s) = s[1] /\ 1 \in DOMAIN s
         /\ \A i \in 1..(Len(s) - 1) : Tail(s)[i] = s[i + 1] /\ i + 1 \in 1..Len(s)
         /\ Elems(s) = Elems(Tail(s)) \cup {s[1]}
<1>1. /\ Len(s) \in Nat /\ Len(s) >= 1 /\ Head(s) = s[1] /\ Tail(s) \in Seq(S)
      /\ Len(Tail(s)) = Len(s) - 1
  BY HeadTailProperties
<1>2. \A i \in 1..(Len(s) - 1) : Tail(s)[i] = s[i + 1] /\ i + 1 \in 1..Len(s)
  BY <1>1
<1>3. DOMAIN s = 1..Len(s) /\ DOMAIN Tail(s) = 1..(Len(s) - 1) /\ 1 \in DOMAIN s
  BY <1>1
<1>4. ASSUME NEW k \in 1..Len(s), k # 1
      PROVE  s[k] \in Elems(Tail(s))
  <2>1. k - 1 \in 1..(Len(s) - 1) /\ (k - 1) + 1 = k
    BY <1>1, <1>4
  <2>2. Tail(s)[k - 1] = s[(k - 1) + 1]
    BY <1>2, <2>1
  <2>3. QED
    BY <1>3, <2>1, <2>2 DEF Elems
<1>5. Elems(Tail(s)) \cup {s[1]} \subseteq Elems(s)
  BY <1>2, <1>3 DEF Elems
<1>6. Elems(s) \subseteq Elems(Tail(s)) \cup {s[1]}
  BY <1>3, <1>4 DEF Elems
<1>7. QED
  BY <1>1, <1>2, <1>3, <1>5, <1>6

(* What a sequence gains with a last element. *)
LEMMA AppendFacts ==
  ASSUME NEW S, NEW s \in Seq(S), NEW x, OnceEach(s), x \notin Elems(s) \/ x = Tick
  PROVE  /\ Append(s, x) \in Seq(S \cup {x}) /\ Len(Append(s, x)) = Len(s) + 1
         /\ Elems(Append(s, x)) = Elems(s) \cup {x} /\ OnceEach(Append(s, x))
<1>1. s \in Seq(S \cup {x}) /\ x \in S \cup {x}
  <2>1. s \in [1..Len(s) -> S] /\ Len(s) \in Nat
    OBVIOUS
  <2>2. s \in [1..Len(s) -> S \cup {x}]
    BY <2>1
  <2>3. QED
    BY <2>1, <2>2, SeqDef
<1>2. /\ Append(s, x) \in Seq(S \cup {x}) /\ Len(Append(s, x)) = Len(s) + 1 /\ Len(s) \in Nat
      /\ \A i \in 1..Len(s) : Append(s, x)[i] = s[i]
      /\ Append(s, x)[Len(s) + 1] = x
  BY <1>1, AppendProperties
<1>3. /\ DOMAIN s = 1..Len(s) /\ DOMAIN Append(s, x) = 1..(Len(s) + 1)
      /\ \A i \in 1..Len(s) : i \in 1..(Len(s) + 1)
      /\ Len(s) + 1 \in 1..(Len(s) + 1)
      /\ \A i \in 1..(Len(s) + 1) : i \in 1..Len(s) \/ i = Len(s) + 1
  BY <1>2
<1>4. Elems(Append(s, x)) = Elems(s) \cup {x}
  BY <1>2, <1>3 DEF Elems
<1>5. OnceEach(Append(s, x))
  <2> SUFFICES ASSUME NEW i \in 1..(Len(s) + 1), NEW j \in 1..(Len(s) + 1), i # j,
                      Append(s, x)[i] # Tick, Append(s, x)[i] = Append(s, x)[j]
               PROVE  FALSE
    BY <1>3 DEF OnceEach
  <2>1. CASE i \in 1..Len(s) /\ j \in 1..Len(s)
    BY <1>2, <1>3, <2>1 DEF OnceEach
  <2>2. CASE i = Len(s) + 1 /\ j \in 1..Len(s)
    BY <1>2, <1>3, <2>2 DEF Elems
  <2>3. CASE i \in 1..Len(s) /\ j = Len(s) + 1
    BY <1>2, <1>3, <2>3 DEF Elems
  <2>4. QED
    BY <1>3, <2>1, <2>2, <2>3
<1>6. QED
  BY <1>2, <1>4, <1>5
-----------------------------------------------------------------------------
(* A message that the stream takes, an id it never held or a tick: nothing but
   an evicted id is lost. *)
LEMMA TakeFacts ==
  ASSUME StoreInv, NEW m, m \notin Ids, Take(m)
  PROVE  /\ store' \in Seq(Ids \cup {Tick} \cup {m}) /\ OnceEach(store')
         /\ Len(store') <= Capacity /\ (evicted' # {} => Len(store') = Capacity)
         /\ evicted \subseteq evicted' /\ evicted' \subseteq evicted \cup (Elems(store) \ {Tick})
         /\ Elems(store') \subseteq Elems(store) \cup {m}
         /\ Elems(store) \cup {m} \subseteq Elems(store') \cup evicted' \cup {Tick}
         /\ evicted' \cap Elems(store') = {}
<1> DEFINE S == Ids \cup {Tick}
<1>1. /\ store \in Seq(S) /\ Len(store) <= Capacity /\ OnceEach(store)
      /\ evicted \subseteq Ids /\ evicted \cap Elems(store) = {} /\ Len(store) \in Nat
      /\ evicted # {} => Len(store) = Capacity
  BY DEF StoreInv, Missing
<1>2. Capacity \in Nat \ {0} /\ m \notin evicted
  BY <1>1, EvidenceAssumption
<1>3. m \notin Elems(store) \/ m = Tick
  <2>1. \A i \in DOMAIN store : store[i] \in S
    BY <1>1
  <2>2. QED
    BY <2>1 DEF Elems
<1>4. Tick \notin Ids
  BY IdFacts
<1> HIDE DEF S
<1>5. CASE Len(store) < Capacity /\ store' = Append(store, m) /\ evicted' = evicted
  <2>1. /\ store' \in Seq(S \cup {m}) /\ Len(store') = Len(store) + 1
        /\ Elems(store') = Elems(store) \cup {m} /\ OnceEach(store')
    BY <1>1, <1>3, <1>5, AppendFacts
  <2>2. evicted = {}
    BY <1>1, <1>2, <1>5
  <2>3. Len(store') <= Capacity
    BY <1>1, <1>2, <1>5, <2>1
  <2>4. QED
    BY <1>5, <2>1, <2>2, <2>3 DEF S
<1>6. CASE /\ Len(store) = Capacity /\ store' = Append(Tail(store), m)
           /\ evicted' = evicted \cup ({Head(store)} \ {Tick})
  <2> DEFINE t == Tail(store)
             h == store[1]
  <2>1. store # <<>>
    BY <1>2, <1>6
  <2>2. /\ t \in Seq(S) /\ Len(t) = Len(store) - 1 /\ Head(store) = h /\ 1 \in DOMAIN store
        /\ DOMAIN store = 1..Len(store) /\ DOMAIN t = 1..(Len(store) - 1)
        /\ \A i \in 1..(Len(store) - 1) : t[i] = store[i + 1] /\ i + 1 \in 1..Len(store)
        /\ Elems(store) = Elems(t) \cup {h}
    BY <1>1, <2>1, TailFacts
  <2>3. \A i \in DOMAIN t : i + 1 \in DOMAIN store /\ i + 1 # 1 /\ i \in Nat /\ t[i] = store[i + 1]
    BY <2>2
  <2> HIDE DEF t, h
  <2>4. h # Tick => h \notin Elems(t)
    <3> SUFFICES ASSUME h # Tick, NEW i \in DOMAIN t, t[i] = h
                 PROVE  FALSE
      BY DEF Elems
    <3>1. store[1] = store[i + 1] /\ store[1] # Tick
      BY <2>3 DEF h
    <3>2. QED
      BY <1>1, <2>2, <2>3, <3>1 DEF OnceEach
  <2>5. OnceEach(t)
    <3> SUFFICES ASSUME NEW i \in DOMAIN t, NEW j \in DOMAIN t, i # j, t[i] # Tick, t[i] = t[j]
                 PROVE  FALSE
      BY DEF OnceEach
    <3>1. /\ i + 1 \in DOMAIN store /\ j + 1 \in DOMAIN store /\ i + 1 # j + 1
          /\ store[i + 1] # Tick /\ store[i + 1] = store[j + 1]
      BY <2>3
    <3>2. QED
      BY <1>1, <3>1 DEF OnceEach
  <2>6. m \notin Elems(t) \/ m = Tick
    BY <1>3, <2>2
  <2>7. /\ store' \in Seq(S \cup {m}) /\ Len(store') = Len(t) + 1
        /\ Elems(store') = Elems(t) \cup {m} /\ OnceEach(store')
    <3>1. store' = Append(t, m)
      BY <1>6 DEF t
    <3>2. /\ Append(t, m) \in Seq(S \cup {m}) /\ Len(Append(t, m)) = Len(t) + 1
          /\ Elems(Append(t, m)) = Elems(t) \cup {m} /\ OnceEach(Append(t, m))
      BY <2>2, <2>5, <2>6, AppendFacts
    <3>3. QED
      BY <3>1, <3>2
  <2>8. Len(store') = Capacity
    BY <1>1, <1>6, <2>2, <2>7
  <2>9. h # Tick => h # m
    <3>1. h \in S
      BY <1>1, <2>2 DEF h
    <3>2. QED
      BY <3>1 DEF S
  <2>10. evicted' = evicted \cup ({h} \ {Tick})
    BY <1>6, <2>2
  <2>11. evicted' \cap Elems(store') = {}
    BY <1>1, <1>2, <2>2, <2>4, <2>7, <2>9, <2>10
  <2>12. Elems(store) \cup {m} \subseteq Elems(store') \cup evicted' \cup {Tick}
    BY <2>2, <2>7, <2>10
  <2>13. evicted' \subseteq evicted \cup (Elems(store) \ {Tick})
    BY <2>2, <2>10
  <2>14. Len(store') <= Capacity
    BY <1>2, <2>8
  <2>15. QED
    BY <2>2, <2>7, <2>8, <2>10, <2>11, <2>12, <2>13, <2>14 DEF S
<1>7. QED
  BY <1>5, <1>6 DEF Take

(* The ledger is kept by a message the stream takes. *)
LEMMA TakeKeepsStore ==
  ASSUME StoreInv, NEW m, m \notin Ids, Take(m), UNCHANGED <<dropped, refused>>,
         issued' \in [Devices -> Nat], Ids' = Ids \cup ({m} \ {Tick})
  PROVE  StoreInv'
<1>1. /\ store' \in Seq(Ids \cup {Tick} \cup {m}) /\ OnceEach(store')
      /\ Len(store') <= Capacity /\ (evicted' # {} => Len(store') = Capacity)
      /\ evicted \subseteq evicted' /\ evicted' \subseteq evicted \cup (Elems(store) \ {Tick})
      /\ Elems(store') \subseteq Elems(store) \cup {m}
      /\ Elems(store) \cup {m} \subseteq Elems(store') \cup evicted' \cup {Tick}
      /\ evicted' \cap Elems(store') = {}
  BY TakeFacts
<1>2. store' \in Seq(Ids' \cup {Tick})
  <2>1. Ids \cup {Tick} \cup {m} = Ids' \cup {Tick}
    OBVIOUS
  <2>2. QED
    BY <1>1, <2>1
<1>3. Elems(store)\ {Tick} \subseteq Ids /\ Tick \notin Ids
  <2>1. \A i \in DOMAIN store : store[i] \in Ids \cup {Tick}
    BY DEF StoreInv
  <2>2. QED
    BY <2>1, IdFacts DEF Elems
<1>4. /\ dropped \cup evicted \cup refused \subseteq Ids
      /\ (dropped \cup evicted \cup refused) \cap Elems(store) = {}
      /\ Ids \subseteq Elems(store) \cup dropped \cup evicted \cup refused
  BY DEF StoreInv, Missing
<1>5. /\ dropped' \cup evicted' \cup refused' \subseteq Ids'
      /\ (dropped' \cup evicted' \cup refused') \cap Elems(store') = {}
      /\ Ids' \subseteq Elems(store') \cup dropped' \cup evicted' \cup refused'
  BY <1>1, <1>3, <1>4
<1>6. Missing' \subseteq Ids' /\ Missing' \cap Elems(store') = {} /\ Ids' \subseteq Elems(store') \cup Missing'
  BY <1>5 DEF Missing
<1>7. QED
  BY <1>1, <1>2, <1>6 DEF StoreInv, Elems, OnceEach, Tick

(* The ledger is kept by an id that is lost before the stream. *)
LEMMA LossKeepsStore ==
  ASSUME StoreInv, NEW d \in Devices, Refuse(d) \/ Drop(d)
  PROVE  StoreInv'
<1> DEFINE x == <<d, issued[d]>>
<1>1. /\ x \notin Ids /\ Ids' = Ids \cup {x} /\ issued' \in [Devices -> Nat]
      /\ UNCHANGED <<store, evicted>> /\ Missing' = Missing \cup {x}
  <2>1. Issue(d) /\ UNCHANGED <<store, evicted>>
    BY DEF Refuse, Drop
  <2>2. Missing' = Missing \cup {x}
    BY DEF Refuse, Drop, Missing
  <2>3. QED
    BY <2>1, <2>2, IssueFacts
<1> HIDE DEF x
<1>2. Elems(store) \subseteq Ids \cup {Tick} /\ x # Tick
  <2>1. \A i \in DOMAIN store : store[i] \in Ids \cup {Tick}
    BY DEF StoreInv
  <2>2. QED
    BY <2>1, IdFacts DEF Elems, x
<1>3. store \in Seq(Ids' \cup {Tick})
  <2>1. store \in Seq(Ids \cup {Tick})
    BY DEF StoreInv
  <2>2. store \in [1..Len(store) -> Ids \cup {Tick}] /\ Len(store) \in Nat
    BY <2>1
  <2>3. store \in [1..Len(store) -> Ids' \cup {Tick}]
    BY <1>1, <2>2
  <2>4. QED
    BY <2>2, <2>3, SeqDef
<1>4. /\ Missing' \subseteq Ids' /\ Missing' \cap Elems(store) = {}
      /\ Ids' \subseteq Elems(store) \cup Missing'
  BY <1>1, <1>2 DEF StoreInv
<1>5. QED
  BY <1>1, <1>3, <1>4 DEF StoreInv, Elems, OnceEach, Tick

(* No step breaks the ledger, and Reset starts another. *)
LEMMA StoreStep ==
  ASSUME StoreInv, [Next]_vars
  PROVE  StoreInv'
<1>1. ASSUME NEW d \in Devices, Publish(d)
      PROVE  StoreInv'
  <2>1. Issue(d) /\ Take(<<d, issued[d]>>) /\ UNCHANGED <<dropped, refused>>
    BY <1>1 DEF Publish
  <2>2. /\ <<d, issued[d]>> \notin Ids /\ Ids' = Ids \cup {<<d, issued[d]>>}
        /\ issued' \in [Devices -> Nat] /\ <<d, issued[d]>> # Tick
    BY <2>1, IssueFacts, IdFacts
  <2>3. Ids' = Ids \cup ({<<d, issued[d]>>} \ {Tick})
    BY <2>2
  <2>4. QED
    BY <2>1, <2>2, <2>3, TakeKeepsStore
<1>2. ASSUME NEW d \in Devices, Refuse(d) \/ Drop(d)
      PROVE  StoreInv'
  BY <1>2, LossKeepsStore
<1>3. CASE PublishTick
  <2>1. Take(Tick) /\ UNCHANGED <<dropped, refused, issued>>
    BY <1>3 DEF PublishTick
  <2>2. Ids' = Ids \cup ({Tick} \ {Tick}) /\ Tick \notin Ids /\ issued' \in [Devices -> Nat]
    BY <2>1, IdFacts DEF Ids, StoreInv
  <2>3. QED
    BY <2>1, <2>2, TakeKeepsStore
<1>4. CASE UNCHANGED <<issued, store, dropped, evicted, refused>>
  BY <1>4 DEF StoreInv, Ids, Missing, Elems, OnceEach, Tick
<1>5. CASE Age \/ Subscribe
  BY <1>4, <1>5 DEF Age, Subscribe, lost
<1>6. CASE Fetch \/ Assess
  BY <1>4, <1>6 DEF Fetch, Assess, lost
<1>7. CASE UNCHANGED vars
  BY <1>4, <1>7 DEF vars, lost
<1>8. ASSUME issued' = [d \in Devices |-> 0], store' = <<>>,
             dropped' = {}, evicted' = {}, refused' = {}
      PROVE  StoreInv'
  <2>1. Ids' = {}
    <3>1. \A d \in Devices : 0..(issued'[d] - 1) = {}
      BY <1>8
    <3>2. QED
      BY <3>1 DEF Ids
  <2>2. store' \in Seq(Ids' \cup {Tick}) /\ Len(store') = 0 /\ DOMAIN store' = {}
    BY <1>8
  <2>3. Len(store') <= Capacity
    BY <2>2, EvidenceAssumption
  <2>4. issued' \in [Devices -> Nat] /\ Missing' = {}
    BY <1>8 DEF Missing
  <2>5. QED
    BY <1>8, <2>1, <2>2, <2>3, <2>4 DEF StoreInv, Elems, OnceEach, Tick
<1>9. CASE Reset
  BY <1>8, <1>9 DEF Reset
<1>10. QED
  BY <1>1, <1>2, <1>3, <1>5, <1>6, <1>7, <1>9 DEF Next

(* What was delivered and what is left are the ids of the stream, and the tag
   follows from what was delivered. *)
LEMMA ReadStep ==
  ASSUME StoreInv, ReadInv, [Next]_vars
  PROVE  ReadInv'
<1>1. CASE Subscribe
  <2>1. /\ pc' = "read" /\ marks' \in BOOLEAN /\ UNCHANGED <<store, got, tag>>
        /\ left' = {i \in DOMAIN store : store[i] # Tick} /\ got = {} /\ tag = "none"
    BY <1>1 DEF Subscribe, ReadInv
  <2>2. {store[i] : i \in left'} = Elems(store) \ {Tick}
    BY <2>1 DEF Elems
  <2>3. QED
    BY <2>1, <2>2 DEF ReadInv, Elems, Tick
<1>2. CASE Fetch
  <2> DEFINE batch == {i \in left : Cardinality({j \in left : j < i}) < Batch}
  <2>1. /\ pc = "read" /\ got' = got \cup {store[i] : i \in batch} /\ left' = left \ batch
        /\ UNCHANGED <<store, pc, marks, tag>>
    BY <1>2 DEF Fetch
  <2>2. batch \subseteq left
    OBVIOUS
  <2> HIDE DEF batch
  <2>3. /\ left \subseteq DOMAIN store /\ got \cup {store[i] : i \in left} = Elems(store) \ {Tick}
        /\ tag = "none" /\ marks \in BOOLEAN
    BY <2>1 DEF ReadInv
  <2>4. got' \cup {store[i] : i \in left'} = got \cup {store[i] : i \in left}
    BY <2>1, <2>2
  <2>5. QED
    BY <2>1, <2>3, <2>4 DEF ReadInv, Elems, Tick
<1>3. CASE Assess
  <2>1. /\ pc = "read" /\ pc' = "done"
        /\ UNCHANGED <<issued, store, sinceTick, sinceVerdict, marks, left, got>>
        /\ \/ tag' = Classify(HasGap(got))
           \/ marks /\ tag' = Classify(ObserveGap(got))
    BY <1>3 DEF Assess, ages
  <2>2. Classify(HasGap(got))' = Classify(HasGap(got))
    BY <2>1 DEF Classify, HasGap, Marked, Mark, PastWatermark
  <2>3. Classify(ObserveGap(got))' = Classify(ObserveGap(got))
    BY <2>1 DEF Classify, ObserveGap, Marked, Mark, PastWatermark
  <2>4. QED
    BY <2>1, <2>2, <2>3 DEF ReadInv, Elems, Tick
<1>4. CASE Reset
  BY <1>4 DEF Reset, ReadInv
<1>5. CASE UNCHANGED vars
  <2>1. UNCHANGED <<issued, store, sinceTick, sinceVerdict, pc, marks, left, got, tag>>
    BY <1>5 DEF vars, ages, check
  <2>2. Classify(HasGap(got))' = Classify(HasGap(got))
    BY <2>1 DEF Classify, HasGap, Marked, Mark, PastWatermark
  <2>3. Classify(ObserveGap(got))' = Classify(ObserveGap(got))
    BY <2>1 DEF Classify, ObserveGap, Marked, Mark, PastWatermark
  <2>4. QED
    BY <2>1, <2>2, <2>3 DEF ReadInv, Elems, Tick
<1>6. ASSUME pc = "publish", UNCHANGED <<pc, marks, left, got, tag>>
      PROVE  ReadInv'
  BY <1>6 DEF ReadInv
<1>7. CASE PublishTick \/ Age
  BY <1>6, <1>7 DEF PublishTick, Age, check
<1>8. ASSUME NEW d \in Devices, Publish(d) \/ Refuse(d) \/ Drop(d)
      PROVE  ReadInv'
  BY <1>6, <1>8 DEF Publish, Refuse, Drop, Issue, check
<1>9. QED
  BY <1>1, <1>2, <1>3, <1>4, <1>5, <1>7, <1>8 DEF Next

(* The inductive invariant: every id is in the stream once or lost, a stream
   that evicted is full, and the tag follows from what was delivered. *)
THEOREM EvidenceInvariant == Spec => []Inv
<1>1. Init => Inv
  <2> SUFFICES ASSUME Init
               PROVE  Inv
    OBVIOUS
  <2>1. Ids = {}
    <3>1. \A d \in Devices : 0..(issued[d] - 1) = {}
      BY DEF Init
    <3>2. QED
      BY <3>1 DEF Ids
  <2>2. store \in Seq(Ids \cup {Tick}) /\ Len(store) = 0 /\ DOMAIN store = {}
    BY DEF Init
  <2>3. Len(store) <= Capacity
    BY <2>2, EvidenceAssumption
  <2>4. issued \in [Devices -> Nat] /\ Missing = {} /\ evicted = {}
    BY DEF Init, Missing
  <2>5. StoreInv
    BY <2>1, <2>2, <2>3, <2>4 DEF StoreInv, Elems, OnceEach
  <2>6. ReadInv
    BY DEF Init, ReadInv
  <2>7. QED
    BY <2>5, <2>6 DEF Inv
<1>2. Inv /\ [Next]_vars => Inv'
  BY StoreStep, ReadStep DEF Inv
<1>3. QED
  BY <1>1, <1>2, PTL DEF Spec
-----------------------------------------------------------------------------
(* A verdict delivered was issued and is not missing; the numbers of a device
   are below its count. *)
LEMMA GotFacts ==
  ASSUME Inv
  PROVE  /\ got \subseteq Ids /\ got \cap Missing = {} /\ issued \in [Devices -> Nat]
         /\ \A d, n : n \in SeqsOf(d, got) <=> <<d, n>> \in got
         /\ \A d \in Devices : SeqsOf(d, got) \in SUBSET (0..(issued[d] - 1))
<1>1. got \subseteq Elems(store) \ {Tick}
  BY DEF Inv, ReadInv
<1>2. Elems(store) \subseteq Ids \cup {Tick} /\ Elems(store) \cap Missing = {}
      /\ issued \in [Devices -> Nat]
  <2>1. \A i \in DOMAIN store : store[i] \in Ids \cup {Tick}
    BY DEF Inv, StoreInv
  <2>2. QED
    BY <2>1 DEF Elems, Inv, StoreInv
<1>3. got \subseteq Ids /\ got \cap Missing = {}
  BY <1>1, <1>2
<1>4. \A m \in got : \E d \in Devices : \E n \in 0..(issued[d] - 1) : m = <<d, n>>
  BY <1>3, IdFacts
<1>5. \A d, n : n \in SeqsOf(d, got) <=> <<d, n>> \in got
  <2> SUFFICES ASSUME NEW d, NEW n
               PROVE  n \in SeqsOf(d, got) <=> <<d, n>> \in got
    OBVIOUS
  <2>1. ASSUME n \in SeqsOf(d, got)
        PROVE  <<d, n>> \in got
    <3>1. PICK m \in got : m[1] = d /\ m[2] = n
      BY <2>1 DEF SeqsOf
    <3>2. m = <<m[1], m[2]>>
      BY <1>4
    <3>3. QED
      BY <3>1, <3>2
  <2>2. ASSUME <<d, n>> \in got
        PROVE  n \in SeqsOf(d, got)
    BY <2>2 DEF SeqsOf
  <2>3. QED
    BY <2>1, <2>2
<1>6. ASSUME NEW d \in Devices, NEW n \in SeqsOf(d, got)
      PROVE  n \in 0..(issued[d] - 1)
  <2>1. <<d, n>> \in got
    BY <1>5
  <2>2. PICK e \in Devices : \E k \in 0..(issued[e] - 1) : <<d, n>> = <<e, k>>
    BY <1>4, <2>1
  <2>3. QED
    BY <2>2
<1>7. QED
  BY <1>2, <1>3, <1>5, <1>6

(* A tag that raises no flag says that has_gap, or observe_gap, found none. *)
LEMMA UnflaggedMeans ==
  ASSUME Inv, Unflagged
  PROVE  /\ \A d \in Devices : ~Hole(SeqsOf(d, got))
         /\ marks => \A d \in Marked : ~Short(SeqsOf(d, got), Mark(d))
<1>1. pc = "done" /\ (tag = Classify(HasGap(got)) \/ (marks /\ tag = Classify(ObserveGap(got))))
  BY DEF Inv, ReadInv, Unflagged
<1>2. (~HasGap(got)) \/ (marks /\ ~ObserveGap(got))
  BY <1>1 DEF Unflagged, Classify
<1>3. CASE ~HasGap(got)
  BY <1>3 DEF HasGap
<1>4. CASE marks /\ ~ObserveGap(got)
  <2>1. ASSUME NEW d \in Marked
        PROVE  ~Hole(SeqsOf(d, got)) /\ ~Short(SeqsOf(d, got), Mark(d))
    BY <1>4 DEF ObserveGap, Hole, Short
  <2>2. ASSUME NEW d \in Devices, d \notin Marked
        PROVE  SeqsOf(d, got) = {}
    <3>1. SeqsOf(d, got) \subseteq 0..(issued[d] - 1) /\ issued[d] \in Nat /\ ~(issued[d] > 0)
      BY <2>2, GotFacts DEF Marked
    <3>2. 0..(issued[d] - 1) = {}
      BY <3>1
    <3>3. QED
      BY <3>1, <3>2
  <2>3. QED
    BY <2>1, <2>2 DEF Hole
<1>5. QED
  BY <1>2, <1>3, <1>4

(* A device's numbers without a hole are an interval. *)
LEMMA NoHoleIsInterval ==
  ASSUME Inv, NEW d \in Devices, SeqsOf(d, got) # {}, ~Hole(SeqsOf(d, got))
  PROVE  LET V == SeqsOf(d, got) IN
         /\ V = Min(V)..Max(V) /\ Max(V) \in V /\ Min(V) \in V
         /\ V \in SUBSET (0..(issued[d] - 1)) /\ issued[d] \in Nat /\ issued[d] > 0
<1> DEFINE V == SeqsOf(d, got)
           k == issued[d] - 1
<1>1. V \in SUBSET (0..k) /\ issued[d] \in Nat
  BY GotFacts
<1>2. k \in Nat
  <2>1. PICK n \in V : TRUE
    OBVIOUS
  <2>2. n \in 0..k /\ k \in Int
    BY <1>1
  <2> HIDE DEF k, V
  <2>3. QED
    BY <2>2
<1>3. Max(V) - Min(V) + 1 = Cardinality(V)
  BY DEF Hole
<1>4. V # {}
  OBVIOUS
<1>5. issued[d] > 0
  BY <1>1, <1>2
<1> HIDE DEF V, k
<1>6. V = Min(V)..Max(V)
  BY <1>1, <1>2, <1>3, <1>4, HoleFacts
<1>7. Max(V) \in V /\ Min(V) \in V
  BY <1>1, <1>2, <1>4, MaxMinFacts
<1>8. QED
  BY <1>1, <1>5, <1>6, <1>7 DEF V, k
-----------------------------------------------------------------------------
(* exp_completeness.py:50: after a complete reading, an incomplete tag stands
   for an id that was issued and is not in the stream. *)
THEOREM GapsAreReal == Spec => []GapIsReal
<1>1. Inv => GapIsReal
  <2> SUFFICES ASSUME Inv, tag = "incomplete", left = {}, Missing = {}
               PROVE  FALSE
    BY DEF GapIsReal
  <2>1. /\ pc = "done" /\ got = Elems(store) \ {Tick}
        /\ tag = Classify(HasGap(got)) \/ (marks /\ tag = Classify(ObserveGap(got)))
    BY DEF Inv, ReadInv
  <2>2. Ids \subseteq got
    BY <2>1, IdFacts DEF Inv, StoreInv
  <2>3. ASSUME NEW d \in Devices, NEW n \in 0..(issued[d] - 1)
        PROVE  n \in SeqsOf(d, got)
    <3>1. <<d, n>> \in Ids
      BY IdFacts
    <3>2. QED
      BY <2>2, <3>1, GotFacts
  <2>4. ASSUME NEW d \in Devices, issued[d] > 0
        PROVE  ~Hole(SeqsOf(d, got)) /\ ~Short(SeqsOf(d, got), Mark(d)) /\ SeqsOf(d, got) # {}
    <3> DEFINE V == SeqsOf(d, got)
               k == issued[d] - 1
    <3>1. V \in SUBSET (0..k) /\ issued[d] \in Nat /\ \A n \in 0..k : n \in V
      BY <2>3, GotFacts
    <3>2. k \in Nat /\ 0 \in 0..k
      BY <2>4, <3>1
    <3>3. Mark(d) = k
      BY DEF Mark
    <3> HIDE DEF V, k
    <3>4. V = 0..k /\ V # {}
      BY <3>1, <3>2
    <3>5. ~Hole(V) /\ Max(V) = k
      BY <3>2, <3>4, HoleFacts
    <3>6. ~Short(V, Mark(d))
      BY <3>2, <3>3, <3>4, <3>5 DEF Short
    <3>7. QED
      BY <3>4, <3>5, <3>6 DEF V
  <2>5. ASSUME NEW d \in Devices, ~(issued[d] > 0)
        PROVE  SeqsOf(d, got) = {}
    <3>1. SeqsOf(d, got) \subseteq 0..(issued[d] - 1) /\ issued[d] \in Nat
      BY GotFacts
    <3>2. 0..(issued[d] - 1) = {}
      BY <2>5, <3>1
    <3>3. QED
      BY <3>1, <3>2
  <2>6. ~HasGap(got)
    BY <2>4, <2>5 DEF HasGap, Marked, Hole
  <2>7. ~ObserveGap(got)
    BY <2>4, <2>5 DEF ObserveGap, Marked, Hole, Short
  <2>8. QED
    BY <2>1, <2>6, <2>7 DEF Classify
<1>2. QED
  BY <1>1, EvidenceInvariant, PTL

(* exp_completeness.py:72: a tag that raises no flag hides no hole, a missing id
   between two delivered ones, whatever the stream discarded and however much
   of it was read. *)
THEOREM HolesAreFlagged == Spec => []NoHoleUnflagged
<1>1. Inv => NoHoleUnflagged
  <2> SUFFICES ASSUME Inv, Unflagged, NEW m \in Missing,
                      NEW a \in SeqsOf(m[1], got), NEW b \in SeqsOf(m[1], got), a < m[2], m[2] < b
               PROVE  FALSE
    BY DEF NoHoleUnflagged
  <2>1. m \in Ids
    BY DEF Inv, StoreInv
  <2>2. PICK d \in Devices : \E n \in 0..(issued[d] - 1) : m = <<d, n>>
    BY <2>1, IdFacts
  <2>3. PICK n \in 0..(issued[d] - 1) : m = <<d, n>>
    BY <2>2
  <2> DEFINE V == SeqsOf(d, got)
  <2>4. m[1] = d /\ m[2] = n /\ a \in V /\ b \in V /\ a < n /\ n < b
    BY <2>3
  <2>5. V # {} /\ ~Hole(V)
    BY <2>4, UnflaggedMeans
  <2>6. /\ V = Min(V)..Max(V) /\ Max(V) \in V /\ Min(V) \in V
        /\ V \in SUBSET (0..(issued[d] - 1)) /\ issued[d] \in Nat
    BY <2>5, NoHoleIsInterval
  <2> HIDE DEF V
  <2>7. /\ Min(V) \in Int /\ Max(V) \in Int /\ a \in Int /\ b \in Int /\ n \in Int
        /\ a \in Min(V)..Max(V) /\ b \in Min(V)..Max(V)
    <3>1. \A x \in V : x \in Int
      BY <2>6
    <3>2. a \in Int /\ b \in Int /\ Min(V) \in Int /\ Max(V) \in Int
      BY <2>4, <2>6, <3>1
    <3>3. n \in Int
      BY <2>3, <2>6
    <3>4. a \in Min(V)..Max(V) /\ b \in Min(V)..Max(V)
      BY <2>4, <2>6
    <3>5. QED
      BY <3>2, <3>3, <3>4
  <2>8. n \in Min(V)..Max(V)
    BY <2>4, <2>7
  <2>9. n \in V
    BY <2>6, <2>8
  <2>10. m \in got
    BY <2>3, <2>9, GotFacts DEF V
  <2>11. QED
    BY <2>10, GotFacts
<1>2. QED
  BY <1>1, EvidenceInvariant, PTL

(* exp_completeness.py:52-56: with high-water marks a tag that raises no flag
   has heard every device that was issued an id, up to its last one, so that
   what it may hide precedes everything delivered. *)
THEOREM OnlyPrefixesAreUnflagged == Spec => []OnlyPrefixUnflagged
<1>1. Inv => OnlyPrefixUnflagged
  <2> SUFFICES ASSUME Inv, Unflagged, marks, NEW d \in Marked
               PROVE  /\ SeqsOf(d, got) # {}
                      /\ \A n \in SeqsOf(d, Missing) : \A k \in SeqsOf(d, got) : n < k
    BY DEF OnlyPrefixUnflagged
  <2> DEFINE V == SeqsOf(d, got)
  <2>1. d \in Devices /\ ~Hole(V) /\ ~Short(V, Mark(d))
    BY UnflaggedMeans DEF Marked
  <2>2. V # {} /\ ~(Max(V) < issued[d] - 1)
    BY <2>1 DEF Short, Mark
  <2>3. /\ V = Min(V)..Max(V) /\ Max(V) \in V /\ Min(V) \in V
        /\ V \in SUBSET (0..(issued[d] - 1)) /\ issued[d] \in Nat
    BY <2>1, <2>2, NoHoleIsInterval
  <2>4. ASSUME NEW n \in SeqsOf(d, Missing), NEW k \in V
        PROVE  n < k
    <3>1. PICK m \in Missing : m[1] = d /\ m[2] = n
      BY DEF SeqsOf
    <3>2. m \in Ids /\ m \notin got
      BY <3>1, GotFacts DEF Inv, StoreInv
    <3>3. PICK e \in Devices : \E j \in 0..(issued[e] - 1) : m = <<e, j>>
      BY <3>2, IdFacts
    <3>4. m = <<d, n>> /\ n \in 0..(issued[d] - 1)
      BY <3>1, <3>3
    <3>5. n \notin V
      BY <3>2, <3>4, GotFacts
    <3> HIDE DEF V
    <3>6. /\ n \in Int /\ k \in Int /\ Min(V) \in Int /\ Max(V) \in Int
          /\ n <= Max(V) /\ Min(V) <= k
      <4>1. Max(V) \in 0..(issued[d] - 1) /\ Min(V) \in 0..(issued[d] - 1) /\ k \in 0..(issued[d] - 1)
        BY <2>3
      <4>2. k \in Min(V)..Max(V)
        BY <2>3
      <4>3. QED
        BY <2>2, <2>3, <3>4, <4>1, <4>2
    <3>7. ~(Min(V) <= n)
      <4>1. Min(V) <= n => n \in Min(V)..Max(V)
        BY <3>6
      <4>2. QED
        BY <2>3, <3>5, <4>1
    <3>8. QED
      BY <3>6, <3>7
  <2>5. QED
    BY <2>2, <2>4
<1>2. QED
  BY <1>1, EvidenceInvariant, PTL

(* classify: a stream that threw evidence away is full, and a full stream is
   past the watermark, so that its verdicts are never tagged sound. *)
THEOREM EvictionIsFlagged == Spec => []EvictionNotSound
<1>1. Inv => EvictionNotSound
  <2> SUFFICES ASSUME Inv, tag = "sound", evicted # {}
               PROVE  FALSE
    BY DEF EvictionNotSound
  <2>1. tag = Classify(HasGap(got)) \/ (marks /\ tag = Classify(ObserveGap(got)))
    BY DEF Inv, ReadInv
  <2>2. ~PastWatermark
    BY <2>1 DEF Classify
  <2>3. Len(store) = Capacity
    BY DEF Inv, StoreInv
  <2>4. \A w \in 0..10 : \A c \in Nat : 10 * c >= w * c
    <3> SUFFICES ASSUME NEW w \in 0..10, NEW c \in Nat
                 PROVE  10 * c >= w * c
      OBVIOUS
    <3>1. w \in {0, 1, 2, 3, 4, 5, 6, 7, 8, 9, 10}
      OBVIOUS
    <3>2. QED
      BY <3>1
  <2>5. WatermarkTenths \in 0..10 /\ Capacity \in Nat
    BY EvidenceAssumption
  <2>6. 10 * Capacity >= WatermarkTenths * Capacity
    BY <2>4, <2>5
  <2>7. QED
    BY <2>2, <2>3, <2>6 DEF PastWatermark
<1>2. QED
  BY <1>1, EvidenceInvariant, PTL
=============================================================================
