--------------------------- MODULE DetectorsProofs ---------------------------
(***************************************************************************)
(* Proofs about Detectors: that the sliding windows of L2Aggregator alert  *)
(* with reason, count no event twice and miss no burst, for every set of   *)
(* devices and programs, every window and threshold, and any number of     *)
(* events, second deliveries and times the clock is set back.              *)
(***************************************************************************)
EXTENDS Detectors, FiniteSetTheorems, SequenceTheorems, WellFoundedInduction, TLAPS

Elems(s)      == {s[k] : k \in DOMAIN s}
Increasing(s) == \A i, j \in DOMAIN s : i < j => s[i] < s[j]

Classes == {"buffer_overflow", "time_anomaly", "logic_fuzz_anomaly", "safe_tx"}
Alerts  == [type    : {"time_anomaly", "fuzzing", "overflow", "safe_tx", "dos_spam"},
            kind    : Kinds \cup {"event"},
            dev     : Devices,
            counted : Seq(Nat)]

Window(kind) == IF kind = "overflow" THEN overflow
                ELSE IF kind = "spam" THEN spam ELSE pulsing
Held(kind, d) == Elems(Window(kind)[d])

(* What TypeOK says, and that the deques and the log agree. *)
TypeInv == TypeOK /\ alerts \in Seq(Alerts) /\ setBack \in Nat

(* Until the clock is set back the log is in the order of time. *)
TimeInv == setBack = 0 => \A i, j \in Indices :
             i <= j => log[i].ts <= log[j].ts /\ log[j].ts <= clock

(* A deque holds events of its kind that no alert counted, in their order,
   and all of them that are not too old for the next event. *)
DequeInv ==
  \A kind \in Kinds, d \in Devices :
    /\ Window(kind)[d] \in Seq(Nat) /\ Increasing(Window(kind)[d])
    /\ Len(Window(kind)[d]) < Threshold(kind)
    /\ Held(kind, d) \subseteq Uncounted(kind, d)
    /\ setBack = 0 => \A n \in Uncounted(kind, d) \ Held(kind, d) :
                        log[n].ts < clock - Spread(kind)
-----------------------------------------------------------------------------
(* A set of natural numbers has a least element. *)
LEMMA LeastNatural ==
  ASSUME NEW T, T \subseteq Nat, T # {}
  PROVE  \E x \in T : \A y \in T : x <= y
<1>1. PICK x \in T : \A y \in T : ~ (<<y, x>> \in OpToRel(<, Nat))
  BY NatLessThanWellFounded, WFMin
<1>2. \A y \in T : ~ (y < x)
  BY <1>1 DEF OpToRel
<1>3. QED
  BY <1>2

(* The numbers before the first one that is missing from a set. *)
LEMMA PrefixLength ==
  ASSUME NEW n \in Nat, NEW L
  PROVE  \E k \in 0..n : /\ Cardinality({j \in 1..n : \A i \in 1..j : i \in L}) = k
                         /\ \A i \in 1..k : i \in L
                         /\ k < n => k + 1 \notin L
<1> DEFINE P == {j \in 1..n : \A i \in 1..j : i \in L}
<1>1. \A k \in 0..n : Cardinality(1..k) = k
  <2>1. SUFFICES ASSUME NEW k \in 0..n PROVE Cardinality(1..k) = k
    OBVIOUS
  <2>2. Cardinality(1..k) = IF 1 > k THEN 0 ELSE k - 1 + 1
    BY FS_Interval
  <2>3. QED
    BY <2>2
<1>2. ASSUME NEW k \in 0..n, \A i \in 1..k : i \in L, k < n => k + 1 \notin L
      PROVE  P = 1..k
  <2>1. ASSUME NEW j \in 1..k
        PROVE  j \in P
    <3>1. 1..j \subseteq 1..k /\ j \in 1..n
      OBVIOUS
    <3>2. QED
      BY <1>2, <3>1
  <2>2. ASSUME NEW j \in P, j \notin 1..k
        PROVE  FALSE
    <3>1. j \in 1..n /\ k < n /\ k + 1 \in 1..j
      BY <2>2
    <3>2. \A i \in 1..j : i \in L
      OBVIOUS
    <3>3. QED
      BY <1>2, <3>1, <3>2
  <2>3. QED
    BY <2>1, <2>2
<1>3. \E k \in 0..n : (\A i \in 1..k : i \in L) /\ (k < n => k + 1 \notin L)
  <2>1. CASE \A i \in 1..n : i \in L
    <3>1. n \in 0..n /\ ~(n < n)
      OBVIOUS
    <3>2. QED
      BY <2>1, <3>1
  <2>2. CASE \E i \in 1..n : i \notin L
    <3> DEFINE T == {i \in 1..n : i \notin L}
    <3>1. T \subseteq Nat /\ T # {}
      BY <2>2
    <3>2. PICK x \in T : \A y \in T : x <= y
      <4> HIDE DEF T
      <4>1. QED
        BY <3>1, LeastNatural
    <3>3. x \in 1..n /\ x - 1 \in 0..n /\ (x - 1) + 1 = x /\ x \notin L
      BY <3>2
    <3>4. ASSUME NEW i \in 1..(x - 1)
          PROVE  i \in L
      <4>1. i \in 1..n /\ i < x
        BY <3>3
      <4>2. QED
        BY <3>2, <3>3, <4>1
    <3>5. QED
      BY <3>3, <3>4
  <2>3. QED
    BY <2>1, <2>2
<1>4. QED
  BY <1>1, <1>2, <1>3

TooOld(h, ts, W, lg) == {i \in 1..Len(h) : lg[h[i]].ts < ts - W}

(* The loop of popleft drops the entries before the first one that is not too
   old. *)
LEMMA PruneDropsPrefix ==
  ASSUME NEW h \in Seq(Nat), NEW ts, NEW W, NEW lg
  PROVE  \E k \in 0..Len(h) :
           /\ Prune(h, ts, W, lg) = SubSeq(h, k + 1, Len(h))
           /\ \A i \in 1..k : i \in TooOld(h, ts, W, lg)
           /\ k < Len(h) => k + 1 \notin TooOld(h, ts, W, lg)
<1>1. Len(h) \in Nat
  OBVIOUS
<1>2. {n \in 1..Len(h) : \A i \in 1..n : lg[h[i]].ts < ts - W}
        = {n \in 1..Len(h) : \A i \in 1..n : i \in TooOld(h, ts, W, lg)}
  BY <1>1 DEF TooOld
<1>3. Prune(h, ts, W, lg) =
        SubSeq(h, Cardinality({n \in 1..Len(h) : \A i \in 1..n : i \in TooOld(h, ts, W, lg)}) + 1,
               Len(h))
  BY <1>2 DEF Prune
<1>4. QED
  BY <1>1, <1>3, PrefixLength

(* An increasing sequence with a larger number at its end. *)
LEMMA AppendLarger ==
  ASSUME NEW h \in Seq(Nat), Increasing(h), NEW n \in Nat, \A k \in DOMAIN h : h[k] < n
  PROVE  LET g == Append(h, n) IN
         /\ g \in Seq(Nat) /\ Len(g) = Len(h) + 1 /\ Len(h) \in Nat
         /\ Increasing(g) /\ Elems(g) = Elems(h) \cup {n}
<1> DEFINE g == Append(h, n)
<1>1. /\ g \in Seq(Nat) /\ Len(g) = Len(h) + 1 /\ Len(h) \in Nat
      /\ DOMAIN g = 1..(Len(h) + 1) /\ DOMAIN h = 1..Len(h)
      /\ \A k \in 1..Len(h) : g[k] = h[k]
      /\ g[Len(h) + 1] = n
  OBVIOUS
<1> HIDE DEF g
<1>2. \A k \in DOMAIN g : k \in 1..Len(h) \/ k = Len(h) + 1
  BY <1>1
<1>3. Increasing(g)
  <2>1. \A i, j \in 1..Len(h) : i < j => g[i] < g[j]
    BY <1>1 DEF Increasing
  <2>2. \A i \in 1..Len(h) : g[i] < g[Len(h) + 1] /\ ~(Len(h) + 1 < i)
    <3> DEFINE l == Len(h)
    <3>1. l \in Nat /\ \A i \in 1..l : g[i] < g[l + 1]
      BY <1>1
    <3> HIDE DEF l
    <3>2. \A i \in 1..l : ~(l + 1 < i)
      BY <3>1
    <3>3. QED
      BY <3>1, <3>2 DEF l
  <2>3. QED
    BY <1>1, <1>2, <2>1, <2>2 DEF Increasing
<1>4. Elems(g) = Elems(h) \cup {n}
  <2>1. \A x \in Elems(g) : x \in Elems(h) \cup {n}
    BY <1>1, <1>2 DEF Elems
  <2>2. 1..Len(h) \subseteq DOMAIN g /\ Len(h) + 1 \in DOMAIN g
    BY <1>1
  <2>3. \A x \in Elems(h) : x \in Elems(g)
    BY <1>1, <2>2 DEF Elems
  <2>4. n \in Elems(g)
    BY <1>1, <2>2 DEF Elems
  <2>5. QED
    BY <2>1, <2>3, <2>4
<1>5. QED
  BY <1>1, <1>3, <1>4 DEF g

(* The window that the append and the loop of popleft leave: what it dropped
   is too old, and what it kept is not, when the log is in order. *)
LEMMA SlidWindow ==
  ASSUME NEW h \in Seq(Nat), Increasing(h), NEW lg, NEW n \in Nat, NEW W \in Nat,
         \A k \in DOMAIN h : h[k] \in 1..n /\ h[k] < n,
         1 <= n, \A i \in 1..n : lg[i].ts \in Int
  PROVE  LET w == Prune(Append(h, n), lg[n].ts, W, lg) IN
         /\ w \in Seq(Nat) /\ Increasing(w)
         /\ Elems(w) \subseteq Elems(h) \cup {n}
         /\ \A m \in (Elems(h) \cup {n}) \ Elems(w) : lg[m].ts < lg[n].ts - W
         /\ (\A i, j \in 1..n : i <= j => lg[i].ts <= lg[j].ts)
              => \A m \in Elems(w) : lg[m].ts >= lg[n].ts - W
<1> DEFINE g == Append(h, n)
           w == Prune(g, lg[n].ts, W, lg)
<1>1. g \in Seq(Nat) /\ Increasing(g) /\ Elems(g) = Elems(h) \cup {n}
  BY AppendLarger
<1>2. \A k \in DOMAIN g : g[k] \in 1..n
  <2>1. \A x \in Elems(g) : x \in 1..n
    BY <1>1 DEF Elems
  <2>2. QED
    BY <2>1 DEF Elems
<1> HIDE DEF g
<1>3. PICK k \in 0..Len(g) :
        /\ w = SubSeq(g, k + 1, Len(g))
        /\ \A i \in 1..k : i \in TooOld(g, lg[n].ts, W, lg)
        /\ k < Len(g) => k + 1 \notin TooOld(g, lg[n].ts, W, lg)
  BY <1>1, PruneDropsPrefix
<1>4. k \in Nat /\ Len(g) \in Nat /\ k <= Len(g) /\ DOMAIN g = 1..Len(g)
  BY <1>1, <1>3
<1>5. /\ w \in Seq(Nat) /\ Len(w) = Len(g) - k /\ DOMAIN w = 1..(Len(g) - k)
      /\ \A i \in 1..(Len(g) - k) : w[i] = g[k + i] /\ k + i \in DOMAIN g
  <2>1. \A i \in (k + 1)..Len(g) : g[i] \in Nat
    BY <1>1, <1>4
  <2>2. /\ SubSeq(g, k + 1, Len(g)) \in Seq(Nat)
        /\ Len(SubSeq(g, k + 1, Len(g))) =
             IF k + 1 <= Len(g) THEN Len(g) - (k + 1) + 1 ELSE 0
        /\ \A i \in 1..(Len(g) - (k + 1) + 1) : SubSeq(g, k + 1, Len(g))[i] = g[k + 1 + i - 1]
    BY <1>4, <2>1, SubSeqProperties
  <2>3. Len(g) - (k + 1) + 1 = Len(g) - k
    BY <1>4
  <2>4. \A i \in 1..(Len(g) - k) : k + i \in DOMAIN g /\ k + 1 + i - 1 = k + i
    BY <1>4
  <2>5. w \in Seq(Nat)
    BY <1>3, <2>2
  <2>6. Len(w) = Len(g) - k
    <3>1. \A a, b \in Nat : a <= b => b - a = IF a + 1 <= b THEN b - (a + 1) + 1 ELSE 0
      OBVIOUS
    <3>2. Len(g) - k = IF k + 1 <= Len(g) THEN Len(g) - (k + 1) + 1 ELSE 0
      BY <1>4, <3>1
    <3>3. QED
      BY <1>3, <2>2, <3>2
  <2>7. ASSUME NEW i \in 1..(Len(g) - k)
        PROVE  w[i] = g[k + i]
    <3>1. i \in 1..(Len(g) - (k + 1) + 1)
      BY <2>3
    <3>2. w[i] = g[k + 1 + i - 1]
      BY <1>3, <2>2, <3>1
    <3>3. QED
      BY <2>4, <3>2
  <2> HIDE DEF w
  <2>8. QED
    BY <2>4, <2>5, <2>6, <2>7
<1> HIDE DEF w
<1>6. Increasing(w)
  <2>1. \A i, j \in 1..(Len(g) - k) : i < j => k + i < k + j
    BY <1>4
  <2>2. QED
    BY <1>1, <1>5, <2>1 DEF Increasing
<1>7. \A i \in DOMAIN g : i \in 1..k \/ (i - k \in 1..(Len(g) - k) /\ k + (i - k) = i)
  BY <1>4
<1>8. Elems(w) \subseteq Elems(g)
  BY <1>5 DEF Elems
<1>9. ASSUME NEW m \in Elems(g), m \notin Elems(w)
      PROVE  lg[m].ts < lg[n].ts - W
  <2>1. PICK i \in DOMAIN g : m = g[i]
    BY <1>9 DEF Elems
  <2>2. i \in 1..k
    <3>1. CASE i - k \in 1..(Len(g) - k) /\ k + (i - k) = i
      BY <1>5, <1>9, <2>1, <3>1 DEF Elems
    <3>2. QED
      BY <1>7, <3>1
  <2>3. QED
    BY <1>3, <2>1, <2>2 DEF TooOld
<1>10. ASSUME \A i, j \in 1..n : i <= j => lg[i].ts <= lg[j].ts, NEW m \in Elems(w)
       PROVE  lg[m].ts >= lg[n].ts - W
  <2>1. PICK i \in 1..(Len(g) - k) : m = w[i]
    BY <1>5 DEF Elems
  <2>2. m = g[k + i] /\ k + i \in DOMAIN g /\ k + 1 \in DOMAIN g /\ k < Len(g) /\ k + 1 <= k + i
    BY <1>4, <1>5, <2>1
  <2>3. g[k + 1] <= m /\ g[k + 1] \in 1..n /\ m \in 1..n
    <3>1. CASE i = 1
      BY <1>2, <2>2, <3>1
    <3>2. CASE i # 1
      <4>1. k + 1 < k + i
        BY <1>4, <3>2
      <4>2. g[k + 1] < g[k + i] /\ g[k + 1] \in 1..n /\ g[k + i] \in 1..n
        BY <1>1, <1>2, <2>2, <4>1 DEF Increasing
      <4>3. QED
        BY <2>2, <4>2
    <3>3. QED
      BY <3>1, <3>2
  <2>4. ~(lg[g[k + 1]].ts < lg[n].ts - W)
    BY <1>3, <1>4, <2>2 DEF TooOld
  <2>5. lg[g[k + 1]].ts <= lg[m].ts /\ lg[g[k + 1]].ts \in Int /\ lg[m].ts \in Int /\ lg[n].ts \in Int
    BY <1>10, <2>3
  <2> DEFINE a == lg[g[k + 1]].ts
             b == lg[m].ts
             c == lg[n].ts
  <2>6. ~(a < c - W) /\ a <= b /\ a \in Int /\ b \in Int /\ c \in Int
    BY <2>4, <2>5
  <2> HIDE DEF a, b, c
  <2>7. b >= c - W
    BY <2>6
  <2>8. QED
    BY <2>7 DEF b, c
<1>11. QED
  BY <1>1, <1>5, <1>6, <1>8, <1>9, <1>10 DEF g, w
-----------------------------------------------------------------------------
(* Whether the last event of a log is one that a window of a device takes, and
   what the window makes of it. *)
Takes(kind, d, lg) == lg[Len(lg)].dev = d /\ lg[Len(lg)].cls = ClassOf(kind)
Slid(kind, lg)     == Slide(Window(kind)[lg[Len(lg)].dev], lg, Spread(kind), Threshold(kind))

(* Windows have a length and a threshold, and count one of two classes. *)
LEMMA KindTypes ==
  ASSUME NEW kind \in Kinds
  PROVE  /\ Spread(kind) \in Nat /\ Threshold(kind) \in Nat \ {0}
         /\ ClassOf(kind) \in {"buffer_overflow", "safe_tx"}
<1>1. CASE kind = "overflow"
  BY <1>1, DetectorsAssumption DEF Spread, Threshold, ClassOf
<1>2. CASE kind = "spam"
  BY <1>2, DetectorsAssumption DEF Spread, Threshold, ClassOf
<1>3. CASE kind = "pulsing"
  BY <1>3, DetectorsAssumption DEF Spread, Threshold, ClassOf
<1>4. QED
  BY <1>1, <1>2, <1>3 DEF Kinds

(* A window alerts when it is full, and is cleared. *)
LEMMA SlideCases ==
  ASSUME NEW h, NEW lg, NEW W, NEW K \in Nat \ {0},
         Prune(Append(h, Len(lg)), lg[Len(lg)].ts, W, lg) \in Seq(Nat)
  PROVE  LET w == Prune(Append(h, Len(lg)), lg[Len(lg)].ts, W, lg)
             s == Slide(h, lg, W, K) IN
         \/ Len(w) < K /\ s.deque = w /\ s.counted = <<>>
         \/ Len(w) >= K /\ s.deque = <<>> /\ s.counted = w /\ w # <<>>
<1> DEFINE w == Prune(Append(h, Len(lg)), lg[Len(lg)].ts, W, lg)
<1>1. Slide(h, lg, W, K) = IF Len(w) >= K THEN [deque |-> <<>>, counted |-> w]
                                          ELSE [deque |-> w, counted |-> <<>>]
  BY DEF Slide
<1>2. Len(w) \in Nat /\ (w = <<>> => Len(w) = 0)
  OBVIOUS
<1> HIDE DEF w
<1>3. CASE Len(w) >= K
  <2>1. Slide(h, lg, W, K) = [deque |-> <<>>, counted |-> w]
    BY <1>1, <1>3
  <2>2. w # <<>>
    BY <1>2, <1>3
  <2>3. QED
    BY <1>3, <2>1, <2>2 DEF w
<1>4. CASE ~(Len(w) >= K)
  <2>1. Slide(h, lg, W, K) = [deque |-> w, counted |-> <<>>]
    BY <1>1, <1>4
  <2>2. Len(w) < K
    BY <1>2, <1>4
  <2>3. QED
    BY <2>1, <2>2 DEF w
<1>5. QED
  BY <1>3, <1>4

(* The deques after aggregate: the windows that take the event slide. *)
LEMMA AggregateWindows ==
  ASSUME NEW lg, lg[Len(lg)].cls \in Classes, lg[Len(lg)].dev \in Devices,
         \A kind \in Kinds : Window(kind) \in [Devices -> Seq(Nat)],
         Aggregate(lg), NEW kind \in Kinds
  PROVE  Window(kind)' = [d \in Devices |-> IF Takes(kind, d, lg) THEN Slid(kind, lg).deque
                                                                 ELSE Window(kind)[d]]
<1> DEFINE e == lg[Len(lg)]
           o == Slide(overflow[e.dev], lg, OVERFLOW_WINDOW, OVERFLOW_THRESHOLD)
           s == Slide(spam[e.dev], lg, SPAM_WINDOW, SPAM_THRESHOLD)
           p == Slide(pulsing[e.dev], lg, PULSING_WINDOW, PULSING_THRESHOLD)
<1>1. /\ Slid("overflow", lg) = o /\ Slid("spam", lg) = s /\ Slid("pulsing", lg) = p
  BY DEF Slid, Window, Spread, Threshold
<1>2. /\ Window("overflow") = overflow /\ Window("spam") = spam /\ Window("pulsing") = pulsing
      /\ Window("overflow")' = overflow' /\ Window("spam")' = spam'
      /\ Window("pulsing")' = pulsing'
  BY DEF Window
<1>3. /\ ClassOf("overflow") = "buffer_overflow" /\ ClassOf("spam") = "safe_tx"
      /\ ClassOf("pulsing") = "safe_tx"
  BY DEF ClassOf
<1>4. {overflow, spam, pulsing} \subseteq [Devices -> Seq(Nat)]
  BY <1>2 DEF Kinds
<1>5. CASE e.cls \in {"time_anomaly", "logic_fuzz_anomaly"}
  <2>1. UNCHANGED <<overflow, spam, pulsing>>
    BY <1>5, Zenon DEF Aggregate, windows
  <2>2. QED
    BY <1>2, <1>3, <1>5, <2>1 DEF Takes, Kinds
<1>6. CASE e.cls = "buffer_overflow"
  <2>1. overflow' = [overflow EXCEPT ![e.dev] = o.deque] /\ UNCHANGED <<spam, pulsing>>
    BY <1>6, Zenon DEF Aggregate
  <2> HIDE DEF o, s, p
  <2>2. QED
    BY <1>1, <1>2, <1>3, <1>4, <1>6, <2>1 DEF Takes, Kinds
<1>7. CASE e.cls = "safe_tx"
  <2>1. /\ spam' = [spam EXCEPT ![e.dev] = s.deque]
        /\ pulsing' = [pulsing EXCEPT ![e.dev] = p.deque]
        /\ overflow' = overflow
    BY <1>7, Zenon DEF Aggregate
  <2> HIDE DEF o, s, p
  <2>2. QED
    BY <1>1, <1>2, <1>3, <1>4, <1>7, <2>1 DEF Takes, Kinds
<1>8. QED
  BY <1>5, <1>6, <1>7 DEF Classes

(* q is the list of alerts after the last event of lg, as far as the windows
   of K have judged it: one alert for each of them that is full. *)
NewAlerts(q, lg, K) ==
  /\ q \in Seq(Alerts) /\ Len(alerts) <= Len(q)
  /\ \A i \in 1..Len(alerts) : q[i] = alerts[i]
  /\ \A j \in (Len(alerts) + 1)..Len(q) :
       /\ q[j].dev = lg[Len(lg)].dev /\ q[j].counted \in Seq(1..Len(lg))
       /\ q[j].kind \in Kinds => /\ q[j].kind \in K
                                 /\ q[j].counted = Slid(q[j].kind, lg).counted
                                 /\ q[j].counted # <<>>
  /\ \A i, j \in (Len(alerts) + 1)..Len(q) :
       q[i].kind \in Kinds /\ q[i].kind = q[j].kind => i = j
  /\ \A kind \in K : Slid(kind, lg).counted # <<>> =>
       \E j \in (Len(alerts) + 1)..Len(q) : q[j].kind = kind

(* A window that is full adds its alert. *)
LEMMA WindowAlertAppended ==
  ASSUME alerts \in Seq(Alerts), NEW lg, NEW q, NEW K, NewAlerts(q, lg, K),
         NEW kind \in Kinds, kind \notin K, NEW type \in {"overflow", "dos_spam"},
         lg[Len(lg)].dev \in Devices, Len(lg) \in Nat,
         Slid(kind, lg).counted \in Seq(1..Len(lg))
  PROVE  NewAlerts(q \o WindowAlert(type, kind, lg[Len(lg)].dev, Slid(kind, lg)), lg, K \cup {kind})
<1> DEFINE c == Slid(kind, lg).counted
           a == Alert(type, kind, lg[Len(lg)].dev, c)
           q1 == q \o WindowAlert(type, kind, lg[Len(lg)].dev, Slid(kind, lg))
           new == (Len(alerts) + 1)..Len(q)
<1>1. q \in Seq(Alerts) /\ Len(q) \in Nat /\ Len(alerts) \in Nat /\ Len(alerts) <= Len(q)
  BY DEF NewAlerts
<1>2. CASE c = <<>>
  <2>1. q1 = q
    <3>1. WindowAlert(type, kind, lg[Len(lg)].dev, Slid(kind, lg)) = <<>>
      BY <1>2 DEF WindowAlert
    <3>2. QED
      BY <1>1, <3>1, ConcatEmptySeq
  <2> HIDE DEF q1
  <2>2. QED
    BY <1>2, <2>1 DEF NewAlerts, q1
<1>3. CASE c # <<>>
  <2>1. c \in Seq(Nat)
    BY SeqMonotonic
  <2>2. /\ a \in Alerts /\ a.kind = kind /\ a.dev = lg[Len(lg)].dev /\ a.counted = c
    BY <2>1 DEF Alert, Alerts
  <2>3. q1 = Append(q, a)
    <3>1. WindowAlert(type, kind, lg[Len(lg)].dev, Slid(kind, lg)) = <<a>>
      BY <1>3 DEF WindowAlert
    <3> HIDE DEF a
    <3>2. QED
      BY <1>1, <2>2, <3>1, AppendIsConcat
  <2> HIDE DEF a, q1, c
  <2>4. /\ q1 \in Seq(Alerts) /\ Len(q1) = Len(q) + 1
        /\ \A i \in 1..Len(q) : q1[i] = q[i]
        /\ q1[Len(q) + 1] = a
    BY <1>1, <2>2, <2>3
  <2>5. /\ \A j \in (Len(alerts) + 1)..Len(q1) : j \in new \/ j = Len(q) + 1
        /\ \A j \in new : j \in 1..Len(q) /\ j \in (Len(alerts) + 1)..Len(q1)
        /\ Len(q) + 1 \in (Len(alerts) + 1)..Len(q1) /\ Len(q) + 1 \notin new
        /\ Len(alerts) <= Len(q1) /\ \A i \in 1..Len(alerts) : i \in 1..Len(q)
    BY <1>1, <2>4
  <2>6. /\ \A i \in 1..Len(alerts) : q[i] = alerts[i]
        /\ \A j \in new :
             /\ q[j].dev = lg[Len(lg)].dev /\ q[j].counted \in Seq(1..Len(lg))
             /\ q[j].kind \in Kinds => /\ q[j].kind \in K
                                       /\ q[j].counted = Slid(q[j].kind, lg).counted
                                       /\ q[j].counted # <<>>
        /\ \A i, j \in new : q[i].kind \in Kinds /\ q[i].kind = q[j].kind => i = j
        /\ \A k \in K : Slid(k, lg).counted # <<>> => \E j \in new : q[j].kind = k
    BY DEF NewAlerts
  <2> HIDE DEF new
  <2>7. \A i \in 1..Len(alerts) : q1[i] = alerts[i]
    BY <2>4, <2>5, <2>6
  <2>8. ASSUME NEW j \in (Len(alerts) + 1)..Len(q1)
        PROVE  /\ q1[j].dev = lg[Len(lg)].dev /\ q1[j].counted \in Seq(1..Len(lg))
               /\ q1[j].kind \in Kinds => /\ q1[j].kind \in K \cup {kind}
                                          /\ q1[j].counted = Slid(q1[j].kind, lg).counted
                                          /\ q1[j].counted # <<>>
    <3>1. CASE j \in new
      BY <2>4, <2>5, <2>6, <3>1
    <3>2. CASE j = Len(q) + 1
      BY <1>3, <2>2, <2>4, <3>2 DEF c
    <3>3. QED
      BY <2>5, <3>1, <3>2
  <2>9. ASSUME NEW i \in (Len(alerts) + 1)..Len(q1), NEW j \in (Len(alerts) + 1)..Len(q1),
               q1[i].kind \in Kinds, q1[i].kind = q1[j].kind
        PROVE  i = j
    <3>1. CASE i \in new /\ j \in new
      BY <2>4, <2>5, <2>6, <2>9, <3>1
    <3>2. \A k \in new : q1[k].kind # kind
      <4> SUFFICES ASSUME NEW k \in new
                   PROVE  q1[k].kind # kind
        OBVIOUS
      <4>1. q1[k] = q[k]
        BY <2>4, <2>5
      <4>2. q[k].kind \in Kinds => q[k].kind \in K
        BY <2>6
      <4>3. QED
        BY <4>1, <4>2
    <3>3. q1[Len(q) + 1].kind = kind
      BY <2>2, <2>4
    <3>4. QED
      BY <2>5, <2>9, <3>1, <3>2, <3>3
  <2>10. ASSUME NEW k \in K \cup {kind}, Slid(k, lg).counted # <<>>
         PROVE  \E j \in (Len(alerts) + 1)..Len(q1) : q1[j].kind = k
    <3>1. CASE k = kind
      BY <2>2, <2>4, <2>5, <3>1
    <3>2. CASE k \in K
      <4>1. PICK j \in new : q[j].kind = k
        BY <2>6, <2>10, <3>2
      <4>2. QED
        BY <2>4, <2>5, <4>1
    <3>3. QED
      BY <3>1, <3>2
  <2>11. NewAlerts(q1, lg, K \cup {kind})
    BY <2>4, <2>5, <2>7, <2>8, <2>9, <2>10 DEF NewAlerts
  <2>12. QED
    BY <2>11 DEF q1
<1>4. QED
  BY <1>2, <1>3

(* The alerts after aggregate: besides those of the event itself one of each
   window that took it and is full. *)
LEMMA AggregateAlerts ==
  ASSUME NEW lg, lg[Len(lg)].cls \in Classes, lg[Len(lg)].dev \in Devices,
         Len(lg) \in Nat \ {0}, alerts \in Seq(Alerts),
         \A kind \in Kinds : Slid(kind, lg).counted \in Seq(1..Len(lg)),
         Aggregate(lg)
  PROVE  NewAlerts(alerts', lg, {kind \in Kinds : ClassOf(kind) = lg[Len(lg)].cls})
<1> DEFINE e == lg[Len(lg)]
           o == Slide(overflow[e.dev], lg, OVERFLOW_WINDOW, OVERFLOW_THRESHOLD)
           s == Slide(spam[e.dev], lg, SPAM_WINDOW, SPAM_THRESHOLD)
           p == Slide(pulsing[e.dev], lg, PULSING_WINDOW, PULSING_THRESHOLD)
           K == {kind \in Kinds : ClassOf(kind) = e.cls}
<1>1. Slid("overflow", lg) = o /\ Slid("spam", lg) = s /\ Slid("pulsing", lg) = p
  BY DEF Slid, Window, Spread, Threshold
<1>2. /\ ClassOf("overflow") = "buffer_overflow" /\ ClassOf("spam") = "safe_tx"
      /\ ClassOf("pulsing") = "safe_tx"
  BY DEF ClassOf
<1>3. NewAlerts(alerts, lg, {})
  <2>1. \A j \in (Len(alerts) + 1)..Len(alerts) : FALSE
    OBVIOUS
  <2>2. Len(alerts) <= Len(alerts)
    OBVIOUS
  <2>3. QED
    BY <2>1, <2>2 DEF NewAlerts
<1>4. ASSUME NEW type \in {"time_anomaly", "fuzzing", "safe_tx"}
      PROVE  NewAlerts(Append(alerts, Alert(type, "event", e.dev, <<Len(lg)>>)), lg, {})
  <2> DEFINE a == Alert(type, "event", e.dev, <<Len(lg)>>)
             q == Append(alerts, a)
  <2>1. <<Len(lg)>> \in Seq(1..Len(lg)) /\ <<Len(lg)>> \in Seq(Nat)
    OBVIOUS
  <2>2. a \in Alerts /\ a.kind = "event" /\ a.dev = e.dev /\ a.counted = <<Len(lg)>>
    BY <2>1 DEF Alert, Alerts
  <2> HIDE DEF a
  <2>3. /\ q \in Seq(Alerts) /\ Len(q) = Len(alerts) + 1 /\ Len(alerts) \in Nat
        /\ \A i \in 1..Len(alerts) : q[i] = alerts[i]
        /\ q[Len(alerts) + 1] = a
    BY <2>2
  <2> HIDE DEF q
  <2>4. \A j \in (Len(alerts) + 1)..Len(q) : j = Len(alerts) + 1
    BY <2>3
  <2>5. "event" \notin Kinds /\ Len(alerts) <= Len(q)
    BY <2>3 DEF Kinds
  <2>6. NewAlerts(q, lg, {})
    BY <2>1, <2>2, <2>3, <2>4, <2>5 DEF NewAlerts
  <2>7. QED
    BY <2>6 DEF q, a
<1>5. CASE e.cls = "time_anomaly"
  <2>1. alerts' = Append(alerts, Alert("time_anomaly", "event", e.dev, <<Len(lg)>>))
    BY <1>5, Zenon DEF Aggregate
  <2>2. K = {}
    BY <1>2, <1>5 DEF Kinds
  <2>3. QED
    BY <1>4, <2>1, <2>2
<1>6. CASE e.cls = "logic_fuzz_anomaly"
  <2>1. alerts' = Append(alerts, Alert("fuzzing", "event", e.dev, <<Len(lg)>>))
    BY <1>6, Zenon DEF Aggregate
  <2>2. K = {}
    BY <1>2, <1>6 DEF Kinds
  <2>3. QED
    BY <1>4, <2>1, <2>2
<1>7. CASE e.cls = "buffer_overflow"
  <2>1. alerts' = alerts \o WindowAlert("overflow", "overflow", e.dev, o)
    BY <1>7, Zenon DEF Aggregate
  <2>2. K = {} \cup {"overflow"} /\ "overflow" \in Kinds
    BY <1>2, <1>7 DEF Kinds
  <2>3. "overflow" \notin {} /\ "overflow" \in {"overflow", "dos_spam"} /\ Len(lg) \in Nat
    OBVIOUS
  <2>4. NewAlerts(alerts \o WindowAlert("overflow", "overflow", lg[Len(lg)].dev,
                                        Slid("overflow", lg)), lg, {} \cup {"overflow"})
    BY <1>3, <2>2, <2>3, WindowAlertAppended
  <2>5. QED
    BY <1>1, <2>1, <2>2, <2>4
<1>8. CASE e.cls = "safe_tx"
  <2> DEFINE a == Alert("safe_tx", "event", e.dev, <<Len(lg)>>)
             q == Append(alerts, a)
  <2>1. alerts' = (alerts \o <<a>>) \o WindowAlert("dos_spam", "spam", e.dev, s)
                                    \o WindowAlert("dos_spam", "pulsing", e.dev, p)
    BY <1>8, Zenon DEF Aggregate
  <2>2. alerts \o <<a>> = q
    <3>1. a \in Alerts
      <4>1. <<Len(lg)>> \in Seq(Nat)
        OBVIOUS
      <4>2. QED
        BY <4>1 DEF Alert, Alerts
    <3> HIDE DEF a
    <3>2. QED
      BY <3>1, AppendIsConcat
  <2>3. K = ({} \cup {"spam"}) \cup {"pulsing"} /\ "spam" \in Kinds /\ "pulsing" \in Kinds
    BY <1>2, <1>8 DEF Kinds
  <2>4. NewAlerts(q, lg, {})
    BY <1>4
  <2> HIDE DEF q
  <2>5. /\ "spam" \notin {} /\ "pulsing" \notin {} \cup {"spam"}
        /\ "dos_spam" \in {"overflow", "dos_spam"} /\ Len(lg) \in Nat
    OBVIOUS
  <2> DEFINE q1 == q \o WindowAlert("dos_spam", "spam", lg[Len(lg)].dev, Slid("spam", lg))
             q2 == q1 \o WindowAlert("dos_spam", "pulsing", lg[Len(lg)].dev,
                                     Slid("pulsing", lg))
  <2>6. NewAlerts(q1, lg, {} \cup {"spam"})
    BY <2>3, <2>4, <2>5, WindowAlertAppended
  <2> HIDE DEF q1
  <2>7. NewAlerts(q2, lg, ({} \cup {"spam"}) \cup {"pulsing"})
    BY <2>3, <2>5, <2>6, WindowAlertAppended
  <2>8. QED
    BY <1>1, <2>1, <2>2, <2>3, <2>7 DEF q1
<1>9. QED
  BY <1>5, <1>6, <1>7, <1>8 DEF Classes
-----------------------------------------------------------------------------
(* lg is the log with one event more, which the windows can take. *)
OneMore(lg) ==
  /\ Len(log) \in Nat /\ Len(lg) = Len(log) + 1
  /\ \A i \in 1..Len(log) : lg[i] = log[i]
  /\ lg[Len(lg)].dev \in Devices /\ lg[Len(lg)].cls \in Classes
  /\ \A i \in 1..Len(lg) : lg[i].ts \in Int

(* What a window that takes the event keeps and what its alert counts. *)
LEMMA SlidFacts ==
  ASSUME DequeInv, NEW lg, OneMore(lg), NEW kind \in Kinds
  PROVE  LET d == lg[Len(lg)].dev
             s == Slid(kind, lg)
             all == Elems(s.deque) \cup Elems(s.counted) IN
         /\ s.deque \in Seq(Nat) /\ Increasing(s.deque) /\ Len(s.deque) < Threshold(kind)
         /\ s.counted \in Seq(1..Len(lg)) /\ Increasing(s.counted)
         /\ s.counted # <<>> => Len(s.counted) >= Threshold(kind)
         /\ Elems(s.deque) = {} \/ Elems(s.counted) = {}
         /\ all \subseteq Held(kind, d) \cup {Len(lg)}
         /\ \A m \in (Held(kind, d) \cup {Len(lg)}) \ all :
              lg[m].ts < lg[Len(lg)].ts - Spread(kind)
         /\ (\A i, j \in 1..Len(lg) : i <= j => lg[i].ts <= lg[j].ts)
              => \A m \in all : lg[m].ts >= lg[Len(lg)].ts - Spread(kind)
<1> DEFINE n == Len(lg)
           d == lg[n].dev
           h == Window(kind)[d]
           w == Prune(Append(h, n), lg[n].ts, Spread(kind), lg)
           s == Slid(kind, lg)
<1>1. /\ d \in Devices /\ n \in Nat /\ 1 <= n /\ n = Len(log) + 1 /\ Len(log) \in Nat
      /\ \A i \in 1..n : lg[i].ts \in Int
  BY DEF OneMore
<1>2. Spread(kind) \in Nat /\ Threshold(kind) \in Nat \ {0}
  BY KindTypes
<1>3. /\ h \in Seq(Nat) /\ Increasing(h) /\ Held(kind, d) = Elems(h)
      /\ Elems(h) \subseteq Uncounted(kind, d)
  BY <1>1 DEF DequeInv, Held
<1>4. \A k \in DOMAIN h : h[k] \in 1..n /\ h[k] < n
  <2>1. \A x \in Uncounted(kind, d) : x \in 1..Len(log)
    BY DEF Uncounted, Indices
  <2>2. \A k \in DOMAIN h : h[k] \in Elems(h)
    BY DEF Elems
  <2> HIDE DEF h, d, n
  <2>3. \A k \in DOMAIN h : h[k] \in 1..Len(log)
    BY <1>3, <2>1, <2>2
  <2>4. \A x \in 1..Len(log) : x \in 1..n /\ x < n
    BY <1>1
  <2>5. QED
    BY <2>3, <2>4
<1> HIDE DEF h
<1>5. /\ w \in Seq(Nat) /\ Increasing(w)
      /\ Elems(w) \subseteq Elems(h) \cup {n}
      /\ \A m \in (Elems(h) \cup {n}) \ Elems(w) : lg[m].ts < lg[n].ts - Spread(kind)
      /\ (\A i, j \in 1..n : i <= j => lg[i].ts <= lg[j].ts)
           => \A m \in Elems(w) : lg[m].ts >= lg[n].ts - Spread(kind)
  <2> HIDE DEF n, d
  <2>1. n \in Nat /\ 1 <= n /\ Spread(kind) \in Nat /\ h \in Seq(Nat) /\ Increasing(h)
    BY <1>1, <1>2, <1>3
  <2>2. \A i \in 1..n : lg[i].ts \in Int
    BY <1>1
  <2>3. QED
    BY <1>4, <2>1, <2>2, SlidWindow
<1>6. \/ Len(w) < Threshold(kind) /\ s.deque = w /\ s.counted = <<>>
      \/ Len(w) >= Threshold(kind) /\ s.deque = <<>> /\ s.counted = w /\ w # <<>>
  <2>1. s = Slide(h, lg, Spread(kind), Threshold(kind))
    BY DEF Slid, h
  <2>2. QED
    BY <1>2, <1>5, <2>1, SlideCases
<1>7. /\ <<>> \in Seq(Nat) /\ <<>> \in Seq(1..n) /\ Increasing(<<>>) /\ Elems(<<>>) = {}
      /\ Len(<<>>) < Threshold(kind)
  BY <1>2 DEF Increasing, Elems
<1>8. w \in Seq(1..n)
  <2>1. \A x \in Elems(w) : x \in 1..n
    <3>1. \A x \in Elems(h) : x \in 1..n
      BY <1>4 DEF Elems
    <3>2. QED
      BY <1>1, <1>5, <3>1
  <2>2. \A i \in 1..Len(w) : w[i] \in Elems(w)
    BY <1>5 DEF Elems
  <2> HIDE DEF w, n
  <2>3. \A i \in 1..Len(w) : w[i] \in 1..n
    BY <2>1, <2>2
  <2>4. w \in [1..Len(w) -> 1..n] /\ Len(w) \in Nat
    BY <1>5, <2>3
  <2>5. QED
    BY <2>4, SeqDef
<1> HIDE DEF w, n, s, d
<1>9. CASE Len(w) < Threshold(kind) /\ s.deque = w /\ s.counted = <<>>
  <2>1. Elems(s.deque) \cup Elems(s.counted) = Elems(w)
    BY <1>7, <1>9
  <2>2. QED
    BY <1>3, <1>5, <1>7, <1>9, <2>1 DEF n, s, d
<1>10. CASE Len(w) >= Threshold(kind) /\ s.deque = <<>> /\ s.counted = w /\ w # <<>>
  <2>1. Elems(s.deque) \cup Elems(s.counted) = Elems(w)
    BY <1>7, <1>10
  <2>2. QED
    BY <1>3, <1>5, <1>7, <1>8, <1>10, <2>1 DEF n, s, d
<1>11. QED
  BY <1>6, <1>9, <1>10

Messages == [dev : Devices, evt : Event, turn : Int]
Entries(S) == [msg : S, dev : Devices, ts : Int, cls : Classes]

(* The types, kind by kind. *)
LEMMA TypesByKind ==
  ASSUME TypeOK
  PROVE  /\ sent \in Seq(Messages) /\ log \in Seq(Entries(DOMAIN sent))
         /\ Len(log) \in Nat /\ DOMAIN log = 1..Len(log)
         /\ \A i \in 1..Len(log) : log[i] \in Entries(DOMAIN sent)
         /\ \A kind \in Kinds : Window(kind) \in [Devices -> Seq(Indices)]
         /\ \A kind \in Kinds : Window(kind) \in [Devices -> Seq(Nat)]
<1>1. /\ sent \in Seq(Messages) /\ log \in Seq(Entries(DOMAIN sent))
  BY DEF TypeOK, Messages, Entries, Classes
<1>2. /\ Len(log) \in Nat /\ DOMAIN log = 1..Len(log)
      /\ \A i \in 1..Len(log) : log[i] \in Entries(DOMAIN sent)
  BY <1>1
<1>3. overflow \in [Devices -> Seq(Indices)] /\ spam \in [Devices -> Seq(Indices)]
      /\ pulsing \in [Devices -> Seq(Indices)]
  BY DEF TypeOK
<1>4. \A kind \in Kinds : Window(kind) \in [Devices -> Seq(Indices)]
  BY <1>3 DEF Window
<1>5. ASSUME NEW kind \in Kinds
      PROVE  Window(kind) \in [Devices -> Seq(Nat)]
  <2>1. \A d \in Devices : Window(kind)[d] \in Seq(Indices)
    BY <1>4
  <2>2. Indices \subseteq Nat
    BY DEF Indices
  <2>3. \A d \in Devices : Window(kind)[d] \in Seq(Nat)
    BY <2>1, <2>2, SeqMonotonic
  <2>4. QED
    BY <1>4, <2>3
<1>6. QED
  BY <1>1, <1>2, <1>4, <1>5

(* Every event is put in one of the classes. *)
LEMMA ClassifyType ==
  ASSUME NEW e, NEW turn, NEW gw_t
  PROVE  Classify(e, turn, gw_t) \in Classes
  BY DEF Classify, Classes

(* The log after an event is handled. *)
LEMMA HandleLog ==
  ASSUME TypeOK, sent' \in Seq(Messages), DOMAIN sent \subseteq DOMAIN sent',
         clock' \in Int, NEW m \in DOMAIN sent', Handle(m)
  PROVE  /\ OneMore(log') /\ log' \in Seq(Entries(DOMAIN sent'))
         /\ log'[Len(log')].ts = clock'
         /\ Aggregate(log') /\ source' = source /\ setBack' = setBack
<1> DEFINE e == [msg |-> m, dev |-> sent'[m].dev,
                 cls |-> Classify(sent'[m].evt, sent'[m].turn, clock'), ts |-> clock']
<1>1. log' = Append(log, e) /\ Aggregate(log') /\ source' = source /\ setBack' = setBack
  BY DEF Handle
<1>2. e \in Entries(DOMAIN sent') /\ e.dev \in Devices /\ e.cls \in Classes /\ e.ts = clock'
  <2>1. sent'[m] \in Messages
    OBVIOUS
  <2>2. QED
    BY <2>1, ClassifyType DEF Messages, Entries
<1> HIDE DEF e
<1>3. log \in Seq(Entries(DOMAIN sent'))
  <2>1. Entries(DOMAIN sent) \subseteq Entries(DOMAIN sent')
    BY DEF Entries
  <2>2. QED
    BY <2>1, TypesByKind, SeqMonotonic
<1>4. /\ Len(log) \in Nat /\ Len(log') = Len(log) + 1
      /\ \A i \in 1..Len(log) : log'[i] = log[i]
      /\ log'[Len(log')] = e
      /\ log' \in Seq(Entries(DOMAIN sent'))
  BY <1>1, <1>2, <1>3
<1>5. \A i \in 1..Len(log') : log'[i].ts \in Int
  <2>1. \A i \in 1..Len(log') : log'[i] \in Entries(DOMAIN sent')
    BY <1>4
  <2>2. QED
    BY <2>1 DEF Entries
<1>6. QED
  BY <1>1, <1>2, <1>4, <1>5 DEF OneMore
-----------------------------------------------------------------------------
(* n is an event that the windows of a kind and device take. *)
IsOf(n, kind, d, lg) == n \in 1..Len(lg) /\ lg[n].dev = d /\ lg[n].cls = ClassOf(kind)

(* An uncounted event, without the set of alerts that could have counted it. *)
LEMMA UncountedIs ==
  ASSUME NEW kind \in Kinds, NEW d, NEW n
  PROVE  n \in Uncounted(kind, d) <=>
           /\ IsOf(n, kind, d, log)
           /\ \A i \in DOMAIN alerts : alerts[i].kind = kind => n \notin Elems(alerts[i].counted)
  BY DEF Uncounted, IsOf, Indices, WindowAlerts, CountedBy, Elems

(* The alerts of a step: the old ones and those of full windows. *)
LEMMA AlertsAfter ==
  ASSUME TypeInv, DequeInv, OneMore(log'), Aggregate(log')
  PROVE  /\ alerts' \in Seq(Alerts) /\ Len(alerts) \in Nat /\ Len(alerts') \in Nat
         /\ Len(alerts) <= Len(alerts')
         /\ DOMAIN alerts = 1..Len(alerts) /\ DOMAIN alerts' = 1..Len(alerts')
         /\ \A i \in 1..Len(alerts) : alerts'[i] = alerts[i] /\ i \in 1..Len(alerts')
         /\ \A j \in 1..Len(alerts') : j \notin 1..Len(alerts) =>
              /\ alerts'[j].dev = log'[Len(log')].dev
              /\ alerts'[j].counted \in Seq(1..Len(log'))
         /\ \A j \in 1..Len(alerts') : j \notin 1..Len(alerts) /\ alerts'[j].kind \in Kinds =>
              /\ log'[Len(log')].cls = ClassOf(alerts'[j].kind)
              /\ alerts'[j].counted = Slid(alerts'[j].kind, log').counted
              /\ alerts'[j].counted # <<>>
         /\ \A i, j \in 1..Len(alerts') :
              i \notin 1..Len(alerts) /\ j \notin 1..Len(alerts) /\ alerts'[i].kind \in Kinds
                /\ alerts'[i].kind = alerts'[j].kind => i = j
         /\ \A kind \in Kinds :
              log'[Len(log')].cls = ClassOf(kind) /\ Slid(kind, log').counted # <<>> =>
                \E j \in 1..Len(alerts') : j \notin 1..Len(alerts) /\ alerts'[j].kind = kind
<1> DEFINE K == {kind \in Kinds : ClassOf(kind) = log'[Len(log')].cls}
<1>1. NewAlerts(alerts', log', K)
  <2>1. /\ log'[Len(log')].cls \in Classes /\ log'[Len(log')].dev \in Devices
        /\ Len(log') \in Nat \ {0} /\ alerts \in Seq(Alerts)
    BY DEF OneMore, TypeInv
  <2>2. \A kind \in Kinds : Slid(kind, log').counted \in Seq(1..Len(log'))
    BY SlidFacts
  <2>3. QED
    BY <2>1, <2>2, AggregateAlerts
<1>2. /\ alerts' \in Seq(Alerts) /\ Len(alerts) \in Nat /\ Len(alerts') \in Nat
      /\ Len(alerts) <= Len(alerts')
      /\ DOMAIN alerts = 1..Len(alerts) /\ DOMAIN alerts' = 1..Len(alerts')
  BY <1>1 DEF NewAlerts, TypeInv
<1>3. /\ \A j \in 1..Len(alerts') : j \notin 1..Len(alerts) =>
           j \in (Len(alerts) + 1)..Len(alerts')
      /\ \A j \in (Len(alerts) + 1)..Len(alerts') :
           j \in 1..Len(alerts') /\ j \notin 1..Len(alerts)
      /\ \A i \in 1..Len(alerts) : i \in 1..Len(alerts')
  BY <1>2
<1>4. /\ \A i \in 1..Len(alerts) : alerts'[i] = alerts[i]
      /\ \A j \in (Len(alerts) + 1)..Len(alerts') :
           /\ alerts'[j].dev = log'[Len(log')].dev
           /\ alerts'[j].counted \in Seq(1..Len(log'))
           /\ alerts'[j].kind \in Kinds =>
                /\ alerts'[j].kind \in K
                /\ alerts'[j].counted = Slid(alerts'[j].kind, log').counted
                /\ alerts'[j].counted # <<>>
      /\ \A i, j \in (Len(alerts) + 1)..Len(alerts') :
           alerts'[i].kind \in Kinds /\ alerts'[i].kind = alerts'[j].kind => i = j
      /\ \A kind \in K : Slid(kind, log').counted # <<>> =>
           \E j \in (Len(alerts) + 1)..Len(alerts') : alerts'[j].kind = kind
  <2> HIDE DEF K
  <2>1. QED
    BY <1>1 DEF NewAlerts
<1>5. QED
  BY <1>2, <1>3, <1>4

(* What is uncounted after a step: the event comes in, and what an alert
   counts goes out. *)
LEMMA UncountedStep ==
  ASSUME TypeInv, DequeInv, OneMore(log'), Aggregate(log'), NEW kind \in Kinds, NEW d \in Devices
  PROVE  Uncounted(kind, d)' =
           IF Takes(kind, d, log')
           THEN (Uncounted(kind, d) \cup {Len(log')}) \ Elems(Slid(kind, log').counted)
           ELSE Uncounted(kind, d)
<1> DEFINE n == Len(log')
           c == Elems(Slid(kind, log').counted)
           e == log'[n].dev
<1>1. /\ n \in Nat /\ n = Len(log) + 1 /\ Len(log) \in Nat /\ n \notin 1..Len(log)
      /\ \A i \in 1..Len(log) : log'[i] = log[i] /\ i \in 1..n
      /\ \A i \in 1..n : i \in 1..Len(log) \/ i = n
      /\ n \in 1..n /\ e \in Devices
  BY DEF OneMore
<1>2. \A i \in DOMAIN alerts : n \notin Elems(alerts[i].counted)
  <2>1. SUFFICES ASSUME NEW i \in DOMAIN alerts, n \in Elems(alerts[i].counted) PROVE FALSE
    OBVIOUS
  <2>2. alerts[i].counted \in Seq(1..Len(log))
    BY DEF TypeInv, TypeOK, Indices
  <2>3. \A k \in DOMAIN alerts[i].counted : alerts[i].counted[k] \in 1..Len(log)
    BY <2>2
  <2>4. QED
    BY <1>1, <2>1, <2>3 DEF Elems
<1>3. \A x \in c : x = n \/ x \in Uncounted(kind, e)
  <2>1. c \subseteq Held(kind, e) \cup {n}
    BY SlidFacts
  <2>2. Held(kind, e) \subseteq Uncounted(kind, e)
    BY <1>1 DEF DequeInv
  <2>3. QED
    BY <2>1, <2>2
<1>4. \A x : x \in Uncounted(kind, d)' <=>
        /\ IsOf(x, kind, d, log')
        /\ \A i \in DOMAIN alerts' : alerts'[i].kind = kind => x \notin Elems(alerts'[i].counted)
  BY DEF Uncounted, IsOf, Indices, WindowAlerts, CountedBy, Elems
<1>5. \A x : IsOf(x, kind, d, log') <=> \/ x # n /\ IsOf(x, kind, d, log)
                                        \/ x = n /\ Takes(kind, d, log')
  BY <1>1 DEF IsOf, Takes
<1>6. \A x : (\A i \in DOMAIN alerts' : alerts'[i].kind = kind => x \notin Elems(alerts'[i].counted))
        <=> /\ \A i \in DOMAIN alerts : alerts[i].kind = kind => x \notin Elems(alerts[i].counted)
            /\ log'[n].cls = ClassOf(kind) => x \notin c
  <2>1. /\ DOMAIN alerts = 1..Len(alerts) /\ DOMAIN alerts' = 1..Len(alerts')
        /\ \A i \in 1..Len(alerts) : alerts'[i] = alerts[i] /\ i \in 1..Len(alerts')
        /\ \A j \in 1..Len(alerts') : j \notin 1..Len(alerts) /\ alerts'[j].kind = kind =>
              /\ log'[n].cls = ClassOf(kind)
              /\ alerts'[j].counted = Slid(kind, log').counted
        /\ log'[n].cls = ClassOf(kind) /\ Slid(kind, log').counted # <<>> =>
              \E j \in 1..Len(alerts') : j \notin 1..Len(alerts) /\ alerts'[j].kind = kind
    BY AlertsAfter
  <2>2. Slid(kind, log').counted = <<>> => c = {}
    BY DEF Elems
  <2>3. QED
    BY <2>1, <2>2
<1>7. IsOf(n, kind, d, log) = FALSE
  BY <1>1 DEF IsOf
<1>8. \A x : x \in Uncounted(kind, d) <=>
        /\ IsOf(x, kind, d, log)
        /\ \A i \in DOMAIN alerts : alerts[i].kind = kind => x \notin Elems(alerts[i].counted)
  BY UncountedIs
<1>9. Takes(kind, d, log') <=> e = d /\ log'[n].cls = ClassOf(kind)
  BY DEF Takes
<1>10. e # d => \A x \in Uncounted(kind, d) : x \notin c
  <2>1. \A x \in Uncounted(kind, d) : log[x].dev = d /\ x # n
    BY <1>1 DEF Uncounted, Indices
  <2>2. \A x \in Uncounted(kind, e) : log[x].dev = e
    BY DEF Uncounted
  <2>3. QED
    BY <1>3, <2>1, <2>2
<1> HIDE DEF n, c, e
<1>11. ASSUME NEW x
       PROVE  x \in Uncounted(kind, d)' <=>
                x \in IF Takes(kind, d, log') THEN (Uncounted(kind, d) \cup {n}) \ c
                                              ELSE Uncounted(kind, d)
  <2>1. CASE x = n
    BY <1>2, <1>4, <1>5, <1>6, <1>7, <1>8, <1>9, <2>1
  <2>2. CASE x # n
    BY <1>4, <1>5, <1>6, <1>8, <1>9, <1>10, <2>2
  <2>3. QED
    BY <2>1, <2>2
<1>12. QED
  BY <1>11 DEF n, c
-----------------------------------------------------------------------------
(* What a program publishes is an event. *)
LEMMA GeneratedTypes ==
  ASSUME NEW src \in Sources
  PROVE  Generated(src) \subseteq Event
<1>1. /\ SafeTx \subseteq Event /\ Overflow \subseteq Event /\ Fuzz \subseteq Event
  BY DEF SafeTx, Overflow, Fuzz, Says, Event
<1>2. TimeSpoof \subseteq Event
  <2>1. SPOOF_S \in Int /\ -SPOOF_S \in Int
    BY DetectorsAssumption
  <2>2. QED
    BY <2>1 DEF TimeSpoof, Says, Event
<1>3. Trace \subseteq Event /\ src \in PROFILES \cup {"trace"}
  BY DetectorsAssumption
<1>4. CASE src \in {"normal", "spam", "pulsing"}
  <2>1. Generated(src) = SafeTx
    BY <1>4 DEF Generated
  <2>2. QED
    BY <1>1, <2>1
<1>5. CASE src \in {"overflow", "stealth"}
  <2>1. Generated(src) = SafeTx \cup Overflow
    BY <1>5 DEF Generated
  <2>2. QED
    BY <1>1, <2>1
<1>6. CASE src = "timespoof"
  <2>1. Generated(src) = TimeSpoof
    BY <1>6 DEF Generated
  <2>2. QED
    BY <1>2, <2>1
<1>7. CASE src = "fuzzer"
  <2>1. Generated(src) = SafeTx \cup Fuzz
    BY <1>7 DEF Generated
  <2>2. QED
    BY <1>1, <2>1
<1>8. CASE src = "mixed"
  <2>1. Generated(src) = SafeTx \cup Overflow \cup TimeSpoof
    BY <1>8 DEF Generated
  <2>2. QED
    BY <1>1, <1>2, <2>1
<1>9. CASE src = "trace"
  <2>1. Generated(src) = Trace
    BY <1>9 DEF Generated
  <2>2. QED
    BY <1>3, <2>1
<1>10. QED
  BY <1>3, <1>4, <1>5, <1>6, <1>7, <1>8, <1>9 DEF PROFILES

(* An event is handled, whether it is delivered for the first time or again. *)
Handling ==
  /\ OneMore(log') /\ Aggregate(log') /\ log'[Len(log')].ts = clock'
  /\ clock' \in Int /\ clock' >= clock
  /\ sent' \in Seq(Messages) /\ log' \in Seq(Entries(DOMAIN sent'))
  /\ source' = source /\ setBack' = setBack

(* A step handles an event, sets the clock back, or leaves everything alone:
   what Deliver, DeliverAgain and the rest have in common. *)
LEMMA EveryStep ==
  ASSUME TypeInv, [Next]_vars
  PROVE  Handling \/ SetBack \/ UNCHANGED vars
<1>1. sent \in Seq(Messages) /\ clock \in Int /\ Steps \subseteq Nat
  BY TypesByKind, DetectorsAssumption DEF TypeInv, TypeOK
<1>2. ASSUME NEW d \in Devices, NEW e \in Generated(source[d]), Deliver(d, e)
      PROVE  Handling
  <2>1. e \in Event
    BY GeneratedTypes DEF TypeInv, TypeOK
  <2>2. clock' \in Int /\ clock' >= clock
    BY <1>1, <1>2 DEF Deliver
  <2> DEFINE msg == [dev |-> d, evt |-> e, turn |-> clock' + e.skew]
  <2>3. msg \in Messages
    BY <2>1, <2>2 DEF Messages, Event
  <2>4. sent' = Append(sent, msg) /\ Handle(Len(sent'))
    BY <1>2 DEF Deliver
  <2> HIDE DEF msg
  <2>5. /\ sent' \in Seq(Messages) /\ DOMAIN sent \subseteq DOMAIN sent'
        /\ Len(sent') \in DOMAIN sent'
    BY <1>1, <2>3, <2>4
  <2>6. QED
    BY <2>2, <2>4, <2>5, HandleLog DEF Handling, TypeInv
<1>3. ASSUME NEW m \in DOMAIN sent, DeliverAgain(m)
      PROVE  Handling
  <2>1. clock' \in Int /\ clock' >= clock
    BY <1>1, <1>3 DEF DeliverAgain
  <2>2. sent' = sent /\ Handle(m)
    BY <1>3 DEF DeliverAgain
  <2>3. sent' \in Seq(Messages) /\ DOMAIN sent \subseteq DOMAIN sent' /\ m \in DOMAIN sent'
    BY <1>1, <2>2
  <2>4. QED
    BY <2>1, <2>2, <2>3, HandleLog DEF Handling, TypeInv
<1>4. QED
  BY <1>2, <1>3 DEF Next, Quiet

(* Until the clock is set back the log is in the order of time. *)
LEMMA TimeStep ==
  ASSUME TypeInv, TimeInv, [Next]_vars
  PROVE  TimeInv'
<1>1. CASE UNCHANGED vars
  BY <1>1 DEF vars, TimeInv, Indices
<1>2. CASE SetBack
  <2>1. setBack' # 0
    BY <1>2 DEF SetBack, TypeInv
  <2>2. QED
    BY <2>1 DEF TimeInv
<1>3. CASE Handling
  <2>1. SUFFICES ASSUME setBack = 0
                 PROVE  TimeInv'
    BY <1>3 DEF Handling, TimeInv
  <2>2. /\ Len(log) \in Nat /\ Len(log') = Len(log) + 1
        /\ \A i \in 1..Len(log) : log'[i] = log[i]
        /\ log'[Len(log')].ts = clock' /\ clock' \in Int /\ clock' >= clock
    BY <1>3 DEF Handling, OneMore
  <2>3. \A i, j \in 1..Len(log) : i <= j => log[i].ts <= log[j].ts /\ log[j].ts <= clock
    BY <2>1 DEF TimeInv, Indices
  <2>4. clock \in Int /\ \A i \in 1..Len(log) : log[i].ts \in Int
    <3>1. \A i \in 1..Len(log) : log[i] \in Entries(DOMAIN sent)
      BY TypesByKind DEF TypeInv
    <3>2. QED
      BY <3>1 DEF Entries, TypeInv, TypeOK
  <2>5. ASSUME NEW i \in 1..Len(log'), NEW j \in 1..Len(log'), i <= j
        PROVE  log'[i].ts <= log'[j].ts /\ log'[j].ts <= clock'
    <3>1. CASE j \in 1..Len(log)
      <4>1. i \in 1..Len(log)
        BY <2>2, <2>5, <3>1
      <4>2. log[i].ts <= log[j].ts /\ log[j].ts <= clock /\ log[j].ts \in Int
        BY <2>3, <2>4, <2>5, <3>1, <4>1
      <4>3. log'[i].ts = log[i].ts /\ log'[j].ts = log[j].ts
        BY <2>2, <3>1, <4>1
      <4>4. QED
        BY <2>2, <2>4, <4>2, <4>3
    <3>2. CASE j = Len(log')
      <4>1. log'[j].ts = clock'
        BY <2>2, <3>2
      <4>2. CASE i \in 1..Len(log)
        <5>1. log[i].ts <= clock /\ log[i].ts \in Int /\ log'[i].ts = log[i].ts
          BY <2>2, <2>3, <2>4, <4>2
        <5>2. QED
          BY <2>2, <2>4, <4>1, <5>1
      <4>3. CASE i = Len(log')
        BY <2>2, <4>1, <4>3
      <4>4. QED
        BY <2>2, <4>2, <4>3
    <3>3. QED
      BY <2>2, <3>1, <3>2
  <2>6. QED
    BY <2>5 DEF TimeInv, Indices
<1>4. QED
  BY <1>1, <1>2, <1>3, EveryStep

(* What a step that handles an event does to a window of a device that takes
   the event, and to another one. *)
LEMMA WindowTakes ==
  ASSUME TypeInv, DequeInv, Handling, NEW kind \in Kinds, NEW d \in Devices,
         Takes(kind, d, log')
  PROVE  LET s == Slid(kind, log')
             n == Len(log')
             all == Elems(s.deque) \cup Elems(s.counted) IN
         /\ Window(kind)'[d] = s.deque /\ Held(kind, d)' = Elems(s.deque)
         /\ Uncounted(kind, d)' = (Uncounted(kind, d) \cup {n}) \ Elems(s.counted)
         /\ s.deque \in Seq(Nat) /\ Increasing(s.deque) /\ Len(s.deque) < Threshold(kind)
         /\ s.counted \in Seq(1..n) /\ Increasing(s.counted)
         /\ s.counted # <<>> => Len(s.counted) >= Threshold(kind)
         /\ Elems(s.deque) = {} \/ Elems(s.counted) = {}
         /\ all \subseteq Held(kind, d) \cup {n}
         /\ \A m \in (Held(kind, d) \cup {n}) \ all : log'[m].ts < clock' - Spread(kind)
         /\ (\A i, j \in 1..n : i <= j => log'[i].ts <= log'[j].ts)
              => \A m \in all : log'[m].ts >= clock' - Spread(kind)
<1>1. OneMore(log') /\ Aggregate(log') /\ log'[Len(log')].ts = clock'
  BY DEF Handling
<1>2. log'[Len(log')].dev = d
  BY DEF Takes
<1>3. Window(kind)'[d] = Slid(kind, log').deque
  <2>1. \A k \in Kinds : Window(k) \in [Devices -> Seq(Nat)]
    BY TypesByKind DEF TypeInv
  <2>2. log'[Len(log')].cls \in Classes /\ log'[Len(log')].dev \in Devices
    BY <1>1 DEF OneMore
  <2>3. QED
    BY <1>1, <2>1, <2>2, AggregateWindows
<1>4. Held(kind, d)' = Elems(Slid(kind, log').deque)
  BY <1>3 DEF Held
<1>5. Uncounted(kind, d)' = (Uncounted(kind, d) \cup {Len(log')}) \ Elems(Slid(kind, log').counted)
  BY <1>1, UncountedStep
<1>6. QED
  BY <1>1, <1>2, <1>3, <1>4, <1>5, SlidFacts

(* An event of another device or class leaves a window as it is, with what it
   holds and what it has not counted. *)
LEMMA WindowRests ==
  ASSUME TypeInv, DequeInv, Handling, NEW kind \in Kinds, NEW d \in Devices,
         ~Takes(kind, d, log')
  PROVE  /\ Window(kind)'[d] = Window(kind)[d] /\ Held(kind, d)' = Held(kind, d)
         /\ Uncounted(kind, d)' = Uncounted(kind, d)
<1>1. OneMore(log') /\ Aggregate(log')
  BY DEF Handling
<1>2. Window(kind)'[d] = Window(kind)[d]
  <2>1. \A k \in Kinds : Window(k) \in [Devices -> Seq(Nat)]
    BY TypesByKind DEF TypeInv
  <2>2. log'[Len(log')].cls \in Classes /\ log'[Len(log')].dev \in Devices
    BY <1>1 DEF OneMore
  <2>3. QED
    BY <1>1, <2>1, <2>2, AggregateWindows
<1>3. Uncounted(kind, d)' = Uncounted(kind, d)
  BY <1>1, UncountedStep
<1>4. QED
  BY <1>2, <1>3 DEF Held

(* The times of what is uncounted do not change. *)
LEMMA OldTimes ==
  ASSUME TypeInv, Handling, NEW kind \in Kinds, NEW d \in Devices, NEW x \in Uncounted(kind, d)
  PROVE  /\ x \in 1..Len(log) /\ log'[x] = log[x] /\ log[x].ts \in Int
         /\ x \in 1..Len(log') /\ x < Len(log')
<1>1. x \in 1..Len(log)
  BY DEF Uncounted, Indices
<1>2. log[x] \in Entries(DOMAIN sent)
  BY <1>1, TypesByKind DEF TypeInv
<1>3. log'[x] = log[x] /\ x \in 1..Len(log') /\ x < Len(log')
  BY <1>1 DEF Handling, OneMore
<1>4. QED
  BY <1>1, <1>2, <1>3 DEF Entries

(* The deques and the log agree after a step. *)
LEMMA DequeStep ==
  ASSUME TypeInv, DequeInv, [Next]_vars
  PROVE  DequeInv'
<1>1. CASE UNCHANGED vars
  <2>1. UNCHANGED <<overflow, spam, pulsing, log, alerts, setBack, clock>>
    BY <1>1 DEF vars, windows
  <2>2. \A kind, d : /\ Window(kind)' = Window(kind) /\ Held(kind, d)' = Held(kind, d)
                    /\ Uncounted(kind, d)' = Uncounted(kind, d)
    BY <2>1 DEF Window, Held, Uncounted, Indices, WindowAlerts, CountedBy
  <2>3. \A kind : Threshold(kind)' = Threshold(kind) /\ Spread(kind)' = Spread(kind)
    BY DEF Threshold, Spread
  <2>4. QED
    BY <2>1, <2>2, <2>3 DEF DequeInv
<1>2. CASE SetBack
  <2>1. setBack' # 0
    BY <1>2 DEF SetBack, TypeInv
  <2>2. UNCHANGED <<overflow, spam, pulsing, log, alerts>>
    BY <1>2 DEF SetBack, windows
  <2>3. \A kind, d : /\ Window(kind)' = Window(kind) /\ Held(kind, d)' = Held(kind, d)
                    /\ Uncounted(kind, d)' = Uncounted(kind, d)
    BY <2>2 DEF Window, Held, Uncounted, Indices, WindowAlerts, CountedBy
  <2>4. \A kind : Threshold(kind)' = Threshold(kind)
    BY DEF Threshold
  <2>5. QED
    BY <2>1, <2>3, <2>4 DEF DequeInv
<1>3. CASE Handling
  <2>1. ASSUME NEW kind \in Kinds, NEW d \in Devices
        PROVE  /\ Window(kind)'[d] \in Seq(Nat) /\ Increasing(Window(kind)'[d])
               /\ Len(Window(kind)'[d]) < Threshold(kind)
               /\ Held(kind, d)' \subseteq Uncounted(kind, d)'
               /\ setBack' = 0 => \A m \in Uncounted(kind, d)' \ Held(kind, d)' :
                                    log'[m].ts < clock' - Spread(kind)
    <3>1. /\ Window(kind)[d] \in Seq(Nat) /\ Increasing(Window(kind)[d])
          /\ Len(Window(kind)[d]) < Threshold(kind)
          /\ Held(kind, d) \subseteq Uncounted(kind, d)
          /\ setBack = 0 => \A m \in Uncounted(kind, d) \ Held(kind, d) :
                              log[m].ts < clock - Spread(kind)
      BY DEF DequeInv
    <3>2. clock \in Int /\ clock' \in Int /\ clock' >= clock /\ setBack' = setBack
          /\ Spread(kind) \in Int
      BY <1>3, KindTypes DEF Handling, TypeInv, TypeOK
    <3>3. setBack = 0 => \A m \in Uncounted(kind, d) \ Held(kind, d) :
                           log'[m].ts < clock' - Spread(kind)
      <4>1. ASSUME setBack = 0, NEW m \in Uncounted(kind, d), m \notin Held(kind, d)
            PROVE  log'[m].ts < clock' - Spread(kind)
        <5>1. log[m].ts < clock - Spread(kind) /\ log[m].ts \in Int /\ log'[m].ts = log[m].ts
          BY <1>3, <3>1, <4>1, OldTimes
        <5>2. QED
          BY <3>2, <5>1
      <4>2. QED
        BY <4>1
    <3>4. CASE Takes(kind, d, log')
      <4> DEFINE s == Slid(kind, log')
                 n == Len(log')
                 all == Elems(s.deque) \cup Elems(s.counted)
      <4>1. /\ Window(kind)'[d] = s.deque /\ Held(kind, d)' = Elems(s.deque)
            /\ Uncounted(kind, d)' = (Uncounted(kind, d) \cup {n}) \ Elems(s.counted)
            /\ s.deque \in Seq(Nat) /\ Increasing(s.deque) /\ Len(s.deque) < Threshold(kind)
            /\ Elems(s.deque) = {} \/ Elems(s.counted) = {}
            /\ all \subseteq Held(kind, d) \cup {n}
            /\ \A m \in (Held(kind, d) \cup {n}) \ all : log'[m].ts < clock' - Spread(kind)
        BY <1>3, <3>4, WindowTakes
      <4> HIDE DEF s, n
      <4>2. Held(kind, d)' \subseteq Uncounted(kind, d)'
        BY <3>1, <4>1
      <4>3. ASSUME setBack = 0, NEW m \in Uncounted(kind, d)', m \notin Held(kind, d)'
            PROVE  log'[m].ts < clock' - Spread(kind)
        <5>1. m \in Uncounted(kind, d) \cup {n} /\ m \notin all
          BY <4>1, <4>3
        <5>2. CASE m \in Held(kind, d) \cup {n}
          BY <4>1, <5>1, <5>2
        <5>3. CASE m \notin Held(kind, d) \cup {n}
          BY <3>3, <4>3, <5>1, <5>3
        <5>4. QED
          BY <5>2, <5>3
      <4>4. QED
        BY <3>2, <4>1, <4>2, <4>3
    <3>5. CASE ~Takes(kind, d, log')
      <4>1. /\ Window(kind)'[d] = Window(kind)[d] /\ Held(kind, d)' = Held(kind, d)
            /\ Uncounted(kind, d)' = Uncounted(kind, d)
        BY <1>3, <3>5, WindowRests
      <4>2. QED
        BY <3>1, <3>2, <3>3, <4>1
    <3>6. QED
      BY <3>4, <3>5
  <2>2. \A kind : Spread(kind)' = Spread(kind) /\ Threshold(kind)' = Threshold(kind)
    BY DEF Spread, Threshold
  <2>3. \A kind \in Kinds, d \in Devices : Window(kind)[d]' = Window(kind)'[d]
    BY DEF Window
  <2>4. QED
    BY <2>1, <2>2, <2>3 DEF DequeInv
<1>4. QED
  BY <1>1, <1>2, <1>3, EveryStep

(* A sequence whose elements are in a set. *)
LEMMA SeqOfElems ==
  ASSUME NEW s \in Seq(Nat), NEW S, Elems(s) \subseteq S
  PROVE  s \in Seq(S)
<1>1. Len(s) \in Nat /\ DOMAIN s = 1..Len(s) /\ s \in [1..Len(s) -> Nat]
  OBVIOUS
<1>2. \A i \in 1..Len(s) : s[i] \in S
  BY <1>1 DEF Elems
<1>3. s \in [1..Len(s) -> S]
  BY <1>1, <1>2
<1>4. QED
  BY <1>1, <1>3, SeqDef

(* The types are kept. *)
LEMMA TypeStep ==
  ASSUME TypeInv, DequeInv, [Next]_vars
  PROVE  TypeInv'
<1>1. CASE UNCHANGED vars
  BY <1>1 DEF vars, windows, TypeInv, TypeOK, Indices
<1>2. CASE SetBack
  <2>1. clock' \in Int /\ setBack' \in Nat
    <3>1. \A n \in Steps : n \in Int
      BY DetectorsAssumption
    <3>2. QED
      BY <1>2, <3>1 DEF SetBack, TypeInv, TypeOK
  <2>2. UNCHANGED <<source, sent, log, overflow, spam, pulsing, alerts>>
    BY <1>2 DEF SetBack, windows
  <2>3. QED
    BY <2>1, <2>2 DEF TypeInv, TypeOK, Indices
<1>3. CASE Handling
  <2>1. /\ source' \in [Devices -> Sources] /\ clock' \in Int /\ sent' \in Seq(Messages)
        /\ log' \in Seq(Entries(DOMAIN sent')) /\ setBack' \in Nat
    BY <1>3 DEF Handling, TypeInv, TypeOK
  <2>2. Len(log) \in Nat /\ Len(log') = Len(log) + 1 /\ OneMore(log') /\ Aggregate(log')
    BY <1>3 DEF Handling, OneMore
  <2>3. DequeInv'
    BY DequeStep
  <2>4. ASSUME NEW kind \in Kinds
        PROVE  /\ Window(kind)' \in [Devices -> Seq(1..Len(log'))]
               /\ \A d \in Devices : Len(Window(kind)'[d]) < Threshold(kind)
    <3>1. Window(kind)' = [d \in Devices |-> IF Takes(kind, d, log') THEN Slid(kind, log').deque
                                                                   ELSE Window(kind)[d]]
      <4>1. \A k \in Kinds : Window(k) \in [Devices -> Seq(Nat)]
        BY TypesByKind DEF TypeInv
      <4>2. log'[Len(log')].cls \in Classes /\ log'[Len(log')].dev \in Devices
        BY <2>2 DEF OneMore
      <4>3. QED
        BY <2>2, <4>1, <4>2, AggregateWindows
    <3>2. DOMAIN Window(kind)' = Devices /\ Window(kind)' = [d \in Devices |-> Window(kind)'[d]]
      BY <3>1
    <3>3. ASSUME NEW d \in Devices
          PROVE  Window(kind)'[d] \in Seq(1..Len(log')) /\ Len(Window(kind)'[d]) < Threshold(kind)
      <4>1. /\ Window(kind)'[d] \in Seq(Nat) /\ Len(Window(kind)'[d]) < Threshold(kind)'
            /\ Held(kind, d)' \subseteq Uncounted(kind, d)'
        BY <2>3 DEF DequeInv
      <4>2. Uncounted(kind, d)' \subseteq 1..Len(log')
        BY DEF Uncounted, Indices
      <4>3. Held(kind, d)' = Elems(Window(kind)'[d])
        BY DEF Held
      <4>4. Threshold(kind)' = Threshold(kind)
        BY DEF Threshold
      <4>5. QED
        BY <4>1, <4>2, <4>3, <4>4, SeqOfElems
    <3>4. QED
      BY <3>2, <3>3
  <2>5. /\ overflow' \in [Devices -> Seq(1..Len(log'))]
        /\ spam' \in [Devices -> Seq(1..Len(log'))]
        /\ pulsing' \in [Devices -> Seq(1..Len(log'))]
        /\ \A d \in Devices : /\ Len(overflow'[d]) < OVERFLOW_THRESHOLD
                              /\ Len(spam'[d]) < SPAM_THRESHOLD
                              /\ Len(pulsing'[d]) < PULSING_THRESHOLD
    <3>1. /\ Window("overflow")' = overflow' /\ Window("spam")' = spam'
          /\ Window("pulsing")' = pulsing'
      BY DEF Window
    <3>2. /\ Threshold("overflow") = OVERFLOW_THRESHOLD /\ Threshold("spam") = SPAM_THRESHOLD
          /\ Threshold("pulsing") = PULSING_THRESHOLD
      BY DEF Threshold
    <3>3. "overflow" \in Kinds /\ "spam" \in Kinds /\ "pulsing" \in Kinds
      BY DEF Kinds
    <3>4. QED
      BY <2>4, <3>1, <3>2, <3>3
  <2>6. alerts' \in Seq(Alerts)
    BY <2>2, AlertsAfter
  <2>7. ASSUME NEW i \in DOMAIN alerts'
        PROVE  alerts'[i].counted \in Seq(1..Len(log'))
    <3>1. /\ DOMAIN alerts = 1..Len(alerts) /\ DOMAIN alerts' = 1..Len(alerts')
          /\ \A j \in 1..Len(alerts) : alerts'[j] = alerts[j]
          /\ \A j \in 1..Len(alerts') : j \notin 1..Len(alerts) =>
               alerts'[j].counted \in Seq(1..Len(log'))
      BY <2>2, AlertsAfter
    <3>2. CASE i \in 1..Len(alerts)
      <4>1. alerts[i].counted \in Seq(1..Len(log))
        BY <3>1, <3>2 DEF TypeInv, TypeOK, Indices
      <4>2. 1..Len(log) \subseteq 1..Len(log')
        BY <2>2
      <4>3. alerts[i].counted \in Seq(1..Len(log'))
        BY <4>1, <4>2, SeqMonotonic
      <4>4. QED
        BY <3>1, <3>2, <4>3
    <3>3. QED
      BY <3>1, <3>2
  <2>8. log' \in Seq([msg : DOMAIN sent', dev : Devices, ts : Int,
                     cls : {"buffer_overflow", "time_anomaly", "logic_fuzz_anomaly", "safe_tx"}])
    BY <2>1 DEF Entries, Classes
  <2>9. QED
    BY <2>1, <2>5, <2>6, <2>7, <2>8 DEF TypeInv, TypeOK, Indices, Messages
<1>4. QED
  BY <1>1, <1>2, <1>3, EveryStep
-----------------------------------------------------------------------------
(* How many elements a sequence has. *)
LEMMA ElemsCardinality ==
  ASSUME NEW S, NEW s \in Seq(S)
  PROVE  /\ IsFiniteSet(Elems(s)) /\ Cardinality(Elems(s)) \in Nat
         /\ Cardinality(Elems(s)) <= Len(s)
         /\ IsInjective(s) => Cardinality(Elems(s)) = Len(s)
<1>1. Len(s) \in Nat /\ DOMAIN s = 1..Len(s) /\ s \in [1..Len(s) -> Elems(s)]
  BY DEF Elems
<1>2. \A x \in Elems(s) : \E i \in 1..Len(s) : s[i] = x
  BY <1>1 DEF Elems
<1>3. s \in Surjection(1..Len(s), Elems(s))
  BY <1>1, <1>2 DEF Surjection
<1>4. IsFiniteSet(1..Len(s)) /\ Cardinality(1..Len(s)) = Len(s)
  <2>1. IsFiniteSet(1..Len(s)) /\ Cardinality(1..Len(s)) = IF 1 > Len(s) THEN 0 ELSE Len(s) - 1 + 1
    BY <1>1, FS_Interval
  <2>2. QED
    BY <1>1, <2>1
<1>5. /\ IsFiniteSet(Elems(s)) /\ Cardinality(Elems(s)) <= Len(s)
      /\ Cardinality(Elems(s)) = Len(s) <=> s \in Injection(1..Len(s), Elems(s))
  BY <1>3, <1>4, FS_Surjection
<1>6. IsInjective(s) => s \in Injection(1..Len(s), Elems(s))
  BY <1>1 DEF Injection
<1>7. QED
  BY <1>5, <1>6, FS_CardinalityType

(* An increasing sequence repeats nothing. *)
LEMMA IncreasingInjective ==
  ASSUME NEW s \in Seq(Nat), Increasing(s)
  PROVE  IsInjective(s)
<1>1. SUFFICES ASSUME NEW a \in DOMAIN s, NEW b \in DOMAIN s, s[a] = s[b]
               PROVE  a = b
  BY DEF IsInjective
<1>2. a \in Nat /\ b \in Nat /\ s[a] \in Nat /\ s[b] \in Nat
  OBVIOUS
<1>3. CASE a < b
  BY <1>1, <1>2, <1>3 DEF Increasing
<1>4. CASE b < a
  BY <1>1, <1>2, <1>4 DEF Increasing
<1>5. QED
  BY <1>2, <1>3, <1>4

(* Every alert of a window counts enough events of its device and class,
   which lie within the window. *)
LEMMA JustifiedStep ==
  ASSUME TypeInv, TimeInv, DequeInv, AlertsJustified, [Next]_vars
  PROVE  AlertsJustified'
<1>0. \A kind : /\ Threshold(kind)' = Threshold(kind) /\ Spread(kind)' = Spread(kind)
                /\ ClassOf(kind)' = ClassOf(kind)
  BY DEF Threshold, Spread, ClassOf
<1>1. CASE UNCHANGED vars
  <2>1. UNCHANGED <<log, alerts, setBack>>
    BY <1>1 DEF vars
  <2>2. QED
    BY <1>0, <2>1 DEF AlertsJustified, WindowAlerts, CountedBy
<1>2. CASE SetBack
  <2>1. setBack' # 0 /\ UNCHANGED <<log, alerts>>
    BY <1>2 DEF SetBack, TypeInv
  <2>2. QED
    BY <1>0, <2>1 DEF AlertsJustified, WindowAlerts, CountedBy
<1>3. CASE Handling
  <2>1. /\ OneMore(log') /\ Aggregate(log') /\ setBack' = setBack
        /\ clock' \in Int /\ log'[Len(log')].ts = clock'
        /\ Len(log) \in Nat /\ Len(log') = Len(log) + 1
        /\ \A i \in 1..Len(log) : log'[i] = log[i]
        /\ \A i \in 1..Len(log') : log'[i].ts \in Int
    BY <1>3 DEF Handling, OneMore
  <2>2. /\ DOMAIN alerts = 1..Len(alerts) /\ DOMAIN alerts' = 1..Len(alerts')
        /\ \A i \in 1..Len(alerts) : alerts'[i] = alerts[i]
        /\ \A j \in 1..Len(alerts') : j \notin 1..Len(alerts) =>
             alerts'[j].dev = log'[Len(log')].dev
        /\ \A j \in 1..Len(alerts') : j \notin 1..Len(alerts) /\ alerts'[j].kind \in Kinds =>
              /\ log'[Len(log')].cls = ClassOf(alerts'[j].kind)
              /\ alerts'[j].counted = Slid(alerts'[j].kind, log').counted
              /\ alerts'[j].counted # <<>>
    BY <2>1, AlertsAfter
  <2>3. ASSUME NEW i \in WindowAlerts'
        PROVE  LET a == alerts'[i]
                   C == Elems(a.counted)
               IN  /\ Cardinality(C) >= Threshold(a.kind)
                   /\ \A n \in C : log'[n].dev = a.dev /\ log'[n].cls = ClassOf(a.kind)
                   /\ setBack' = 0 => \A n, m \in C : log'[n].ts - log'[m].ts <= Spread(a.kind)
    <3> DEFINE a == alerts'[i]
               C == Elems(a.counted)
    <3>1. i \in 1..Len(alerts') /\ a.kind \in Kinds
      BY <2>2 DEF WindowAlerts
    <3>2. CASE i \in 1..Len(alerts)
      <4>1. a = alerts[i] /\ i \in WindowAlerts
        BY <2>2, <3>1, <3>2 DEF WindowAlerts
      <4>2. \A n \in C : n \in 1..Len(log)
        <5>1. alerts[i].counted \in Seq(1..Len(log))
          BY <2>2, <3>2 DEF TypeInv, TypeOK, Indices
        <5>2. \A k \in DOMAIN alerts[i].counted : alerts[i].counted[k] \in 1..Len(log)
          BY <5>1
        <5>3. QED
          BY <4>1, <5>2 DEF Elems
      <4>3. CountedBy(alerts[i]) = C
        BY <4>1 DEF CountedBy, Elems
      <4> HIDE DEF a, C
      <4>4. /\ Cardinality(C) >= Threshold(a.kind)
            /\ \A n \in C : log[n].dev = a.dev /\ log[n].cls = ClassOf(a.kind)
            /\ setBack = 0 => \A n, m \in C : log[n].ts - log[m].ts <= Spread(a.kind)
        BY <4>1, <4>3 DEF AlertsJustified
      <4>5. QED
        BY <2>1, <4>2, <4>4 DEF a, C
    <3>3. CASE i \notin 1..Len(alerts)
      <4> DEFINE k == a.kind
                 d == log'[Len(log')].dev
                 s == Slid(k, log')
      <4>1. d \in Devices /\ Takes(k, d, log') /\ a.dev = d /\ a.counted = s.counted
            /\ a.counted # <<>> /\ k \in Kinds
        BY <2>1, <2>2, <3>1, <3>3 DEF Takes, OneMore
      <4> HIDE DEF a, d, k, s
      <4>2. /\ s.counted \in Seq(1..Len(log')) /\ Increasing(s.counted)
            /\ s.counted # <<>> => Len(s.counted) >= Threshold(k)
            /\ Elems(s.counted) \subseteq Held(k, d) \cup {Len(log')}
            /\ (\A x, y \in 1..Len(log') : x <= y => log'[x].ts <= log'[y].ts)
                 => \A m \in Elems(s.counted) : log'[m].ts >= clock' - Spread(k)
        BY <1>3, <4>1, WindowTakes DEF s
      <4>3. Spread(k) \in Nat /\ Threshold(k) \in Nat \ {0}
        BY <4>1, KindTypes
      <4>4. Cardinality(C) >= Threshold(k)
        <5>1. 1..Len(log') \subseteq Nat
          OBVIOUS
        <5>2. s.counted \in Seq(Nat)
          BY <4>2, <5>1, SeqMonotonic
        <5>3. Cardinality(Elems(s.counted)) = Len(s.counted)
          BY <4>2, <5>2, IncreasingInjective, ElemsCardinality
        <5>4. QED
          BY <4>1, <4>2, <5>3
      <4>5. ASSUME NEW n \in C
            PROVE  n \in 1..Len(log') /\ log'[n].dev = d /\ log'[n].cls = ClassOf(k)
        <5>1. CASE n = Len(log')
          BY <2>1, <4>1, <5>1 DEF Takes
        <5>2. CASE n \in Held(k, d)
          <6>1. n \in Uncounted(k, d)
            BY <4>1, <5>2 DEF DequeInv
          <6>2. n \in 1..Len(log) /\ log[n].dev = d /\ log[n].cls = ClassOf(k)
            BY <6>1 DEF Uncounted, Indices
          <6>3. QED
            BY <2>1, <6>2
        <5>3. QED
          BY <4>1, <4>2, <5>1, <5>2
      <4>6. ASSUME setBack' = 0, NEW n \in C, NEW m \in C
            PROVE  log'[n].ts - log'[m].ts <= Spread(k)
        <5>1. \A x, y \in 1..Len(log') : x <= y => log'[x].ts <= log'[y].ts /\ log'[y].ts <= clock'
          BY <4>6, TimeStep DEF TimeInv, Indices
        <5>2. log'[m].ts >= clock' - Spread(k)
          BY <4>1, <4>2, <5>1
        <5>3. n \in 1..Len(log') /\ m \in 1..Len(log') /\ log'[n].ts \in Int /\ log'[m].ts \in Int
          BY <2>1, <4>5
        <5>4. log'[n].ts <= clock'
          <6>1. n <= n
            BY <5>3
          <6>2. QED
            BY <5>1, <5>3, <6>1
        <5>5. QED
          BY <2>1, <4>3, <5>2, <5>3, <5>4
      <4>7. QED
        BY <4>1, <4>4, <4>5, <4>6 DEF k, a, C
    <3>4. QED
      BY <3>2, <3>3
  <2>4. \A i \in WindowAlerts' : CountedBy(alerts[i])' = Elems(alerts'[i].counted)
    BY DEF CountedBy, Elems
  <2>5. QED
    BY <1>0, <2>3, <2>4 DEF AlertsJustified
<1>4. QED
  BY <1>1, <1>2, <1>3, EveryStep

(* What an alert counted is in the log, and is not uncounted. *)
LEMMA OldCounts ==
  ASSUME TypeInv, NEW i \in DOMAIN alerts
  PROVE  /\ Elems(alerts[i].counted) \subseteq 1..Len(log)
         /\ alerts[i].kind \in Kinds => \A d :
              Elems(alerts[i].counted) \cap Uncounted(alerts[i].kind, d) = {}
<1>1. alerts[i].counted \in Seq(1..Len(log))
  BY DEF TypeInv, TypeOK, Indices
<1>2. \A k \in DOMAIN alerts[i].counted : alerts[i].counted[k] \in 1..Len(log)
  BY <1>1
<1>3. Elems(alerts[i].counted) \subseteq 1..Len(log)
  BY <1>2 DEF Elems
<1>4. QED
  BY <1>3, UncountedIs

(* No event is counted by two alerts of a window. *)
LEMMA CountedOnceStep ==
  ASSUME TypeInv, DequeInv, CountedOnce, [Next]_vars
  PROVE  CountedOnce'
<1>1. CASE UNCHANGED alerts
  BY <1>1 DEF CountedOnce, WindowAlerts, CountedBy
<1>2. CASE Handling
  <2>1. OneMore(log') /\ Aggregate(log') /\ Len(log) \in Nat /\ Len(log') = Len(log) + 1
    BY <1>2 DEF Handling, OneMore
  <2>2. /\ DOMAIN alerts = 1..Len(alerts) /\ DOMAIN alerts' = 1..Len(alerts')
        /\ \A i \in 1..Len(alerts) : alerts'[i] = alerts[i] /\ i \in 1..Len(alerts')
        /\ \A j \in 1..Len(alerts') : j \notin 1..Len(alerts) /\ alerts'[j].kind \in Kinds =>
              /\ log'[Len(log')].cls = ClassOf(alerts'[j].kind)
              /\ alerts'[j].counted = Slid(alerts'[j].kind, log').counted
        /\ \A i, j \in 1..Len(alerts') :
              i \notin 1..Len(alerts) /\ j \notin 1..Len(alerts) /\ alerts'[i].kind \in Kinds
                /\ alerts'[i].kind = alerts'[j].kind => i = j
    BY <2>1, AlertsAfter
  <2>3. ASSUME NEW i \in 1..Len(alerts), NEW j \in 1..Len(alerts'), j \notin 1..Len(alerts),
               alerts'[i].kind \in Kinds, alerts'[i].kind = alerts'[j].kind
        PROVE  Elems(alerts'[i].counted) \cap Elems(alerts'[j].counted) = {}
    <3> DEFINE k == alerts[i].kind
               n == Len(log')
               d == log'[n].dev
    <3>1. k \in Kinds /\ i \in DOMAIN alerts /\ alerts'[i] = alerts[i] /\ alerts'[j].kind = k
      BY <2>2, <2>3
    <3>2. d \in Devices /\ Takes(k, d, log') /\ alerts'[j].counted = Slid(k, log').counted
      BY <2>1, <2>2, <2>3, <3>1 DEF OneMore, Takes
    <3>3. Elems(Slid(k, log').counted) \subseteq Held(k, d) \cup {n}
      BY <1>2, <3>1, <3>2, WindowTakes
    <3>4. Held(k, d) \subseteq Uncounted(k, d)
      BY <3>1, <3>2 DEF DequeInv
    <3>5. Elems(alerts[i].counted) \cap Uncounted(k, d) = {} /\ n \notin Elems(alerts[i].counted)
      <4>1. n \notin 1..Len(log)
        BY <2>1
      <4>2. QED
        BY <3>1, <4>1, OldCounts
    <3> HIDE DEF k, n, d
    <3>6. QED
      BY <3>1, <3>2, <3>3, <3>4, <3>5
  <2>4. ASSUME NEW i \in 1..Len(alerts), NEW j \in 1..Len(alerts), i # j,
               alerts'[i].kind \in Kinds, alerts'[i].kind = alerts'[j].kind
        PROVE  Elems(alerts'[i].counted) \cap Elems(alerts'[j].counted) = {}
    <3>1. /\ i \in WindowAlerts /\ j \in WindowAlerts /\ alerts[i].kind = alerts[j].kind
          /\ alerts'[i] = alerts[i] /\ alerts'[j] = alerts[j]
      BY <2>2, <2>4 DEF WindowAlerts
    <3>2. CountedBy(alerts[i]) = Elems(alerts[i].counted)
          /\ CountedBy(alerts[j]) = Elems(alerts[j].counted)
      BY DEF CountedBy, Elems
    <3>3. QED
      BY <2>4, <3>1, <3>2 DEF CountedOnce
  <2>5. ASSUME NEW i \in 1..Len(alerts'), NEW j \in 1..Len(alerts'), i # j,
               alerts'[i].kind \in Kinds, alerts'[i].kind = alerts'[j].kind
        PROVE  Elems(alerts'[i].counted) \cap Elems(alerts'[j].counted) = {}
    <3>1. CASE i \in 1..Len(alerts) /\ j \in 1..Len(alerts)
      BY <2>4, <2>5, <3>1
    <3>2. CASE i \in 1..Len(alerts) /\ j \notin 1..Len(alerts)
      BY <2>3, <2>5, <3>2
    <3>3. CASE i \notin 1..Len(alerts) /\ j \in 1..Len(alerts)
      <4>1. Elems(alerts'[j].counted) \cap Elems(alerts'[i].counted) = {}
        BY <2>3, <2>5, <3>3
      <4>2. QED
        BY <4>1
    <3>4. CASE i \notin 1..Len(alerts) /\ j \notin 1..Len(alerts)
      BY <2>2, <2>5, <3>4
    <3>5. QED
      BY <3>1, <3>2, <3>3, <3>4
  <2>6. /\ WindowAlerts' = {i \in 1..Len(alerts') : alerts'[i].kind \in Kinds}
        /\ \A i : CountedBy(alerts[i])' = Elems(alerts'[i].counted)
    BY <2>2 DEF WindowAlerts, CountedBy, Elems
  <2>7. QED
    BY <2>5, <2>6 DEF CountedOnce
<1>3. QED
  BY <1>1, <1>2, EveryStep DEF SetBack, vars

(* No window ever leaves out enough uncounted events for another alert. *)
LEMMA BurstStep ==
  ASSUME TypeInv, TimeInv, DequeInv, NoBurstMissed, [Next]_vars
  PROVE  NoBurstMissed'
<1>0. \A kind : Threshold(kind)' = Threshold(kind) /\ Spread(kind)' = Spread(kind)
  BY DEF Threshold, Spread
<1>1. CASE UNCHANGED vars
  <2>1. UNCHANGED <<log, alerts, setBack>>
    BY <1>1 DEF vars
  <2>2. \A kind, d : Uncounted(kind, d)' = Uncounted(kind, d)
    BY <2>1 DEF Uncounted, Indices, WindowAlerts, CountedBy
  <2>3. QED
    BY <1>0, <2>1, <2>2 DEF NoBurstMissed
<1>2. CASE SetBack
  <2>1. setBack' # 0
    BY <1>2 DEF SetBack, TypeInv
  <2>2. QED
    BY <2>1 DEF NoBurstMissed
<1>3. CASE Handling
  <2>1. SUFFICES ASSUME setBack' = 0, NEW kind \in Kinds, NEW d \in Devices,
                        NEW n \in Uncounted(kind, d)'
                 PROVE  Cardinality({m \in Uncounted(kind, d)' :
                           m <= n /\ log'[m].ts >= log'[n].ts - Spread(kind)}) < Threshold(kind)
    BY <1>0 DEF NoBurstMissed
  <2> DEFINE U == Uncounted(kind, d)
             N == Len(log')
             S == {m \in U' : m <= n /\ log'[m].ts >= log'[n].ts - Spread(kind)}
  <2>2. setBack = 0 /\ log'[N].ts = clock' /\ N \in Nat /\ Threshold(kind) \in Nat
        /\ Spread(kind) \in Nat /\ clock' \in Int
    BY <1>3, <2>1, KindTypes DEF Handling, OneMore
  <2>3. \A m \in U' : m \in U \/ m = N
    <3>1. CASE Takes(kind, d, log')
      BY <1>3, <3>1, WindowTakes
    <3>2. CASE ~Takes(kind, d, log')
      BY <1>3, <3>2, WindowRests
    <3>3. QED
      BY <3>1, <3>2
  <2>4. \A m \in U : log'[m].ts = log[m].ts /\ m < N /\ m \in Nat
    BY <1>3, OldTimes
  <2>5. CASE n \in U
    <3> DEFINE T == {m \in U : m <= n /\ log[m].ts >= log[n].ts - Spread(kind)}
    <3>1. S \subseteq T
      <4>1. \A m \in S : m \in U
        BY <2>2, <2>3, <2>4, <2>5
      <4>2. \A m \in S : m <= n /\ log[m].ts >= log[n].ts - Spread(kind)
        BY <2>4, <2>5, <4>1
      <4>3. QED
        BY <4>1, <4>2
    <3>2. Cardinality(T) < Threshold(kind)
      BY <2>2, <2>5 DEF NoBurstMissed
    <3>3. IsFiniteSet(T)
      <4>1. IsFiniteSet(1..Len(log))
        <5>1. 1 \in Int /\ Len(log) \in Int
          BY <1>3 DEF Handling, OneMore
        <5>2. QED
          BY <5>1, FS_Interval
      <4>2. T \subseteq 1..Len(log)
        BY DEF Uncounted, Indices
      <4>3. QED
        BY <4>1, <4>2, FS_Subset
    <3> HIDE DEF S, T
    <3>4. IsFiniteSet(S) /\ Cardinality(S) <= Cardinality(T)
      BY <3>1, <3>3, FS_Subset
    <3>5. Cardinality(S) \in Nat /\ Cardinality(T) \in Nat
      BY <3>3, <3>4, FS_CardinalityType
    <3>6. QED
      BY <2>2, <3>2, <3>4, <3>5 DEF S
  <2>6. CASE n = N
    <3> DEFINE w == Window(kind)'[d]
    <3>1. DequeInv'
      BY DequeStep
    <3>2. w \in Seq(Nat) /\ Len(w) < Threshold(kind)
      BY <1>0, <3>1 DEF DequeInv
    <3>3. \A m \in U' : m \notin Held(kind, d)' => log'[m].ts < clock' - Spread(kind)
      BY <1>0, <2>1, <3>1 DEF DequeInv
    <3>4. Held(kind, d)' = Elems(w)
      BY DEF Held
    <3>5. \A m \in U' : log'[m].ts \in Int
      <4>1. \A m \in U' : m \in 1..Len(log')
        BY DEF Uncounted, Indices
      <4>2. QED
        BY <1>3, <4>1 DEF Handling, OneMore
    <3>6. S \subseteq Elems(w)
      <4>1. ASSUME NEW m \in S
            PROVE  m \in Elems(w)
        <5>1. m \in U' /\ log'[m].ts \in Int /\ log'[m].ts >= clock' - Spread(kind)
          BY <2>2, <2>6, <3>5
        <5>2. QED
          BY <2>2, <3>3, <3>4, <5>1
      <4>2. QED
        BY <4>1
    <3> HIDE DEF S, w
    <3>7. IsFiniteSet(Elems(w)) /\ Cardinality(Elems(w)) \in Nat /\ Cardinality(Elems(w)) <= Len(w)
      BY <3>2, ElemsCardinality
    <3>8. IsFiniteSet(S) /\ Cardinality(S) <= Cardinality(Elems(w))
      BY <3>6, <3>7, FS_Subset
    <3>9. Cardinality(S) \in Nat /\ Len(w) \in Nat
      BY <3>2, <3>8, FS_CardinalityType
    <3>10. QED
      BY <2>2, <3>2, <3>7, <3>8, <3>9 DEF S
  <2>7. QED
    BY <2>3, <2>5, <2>6
<1>4. QED
  BY <1>1, <1>2, <1>3, EveryStep
-----------------------------------------------------------------------------
(* All of it holds before the first event. *)
LEMMA InitHolds ==
  ASSUME Init
  PROVE  TypeInv /\ TimeInv /\ DequeInv /\ AlertsJustified /\ CountedOnce /\ NoBurstMissed
<1>1. /\ source \in [Devices -> Sources] /\ clock = 0 /\ sent = <<>> /\ log = <<>>
      /\ overflow = Empty /\ spam = Empty /\ pulsing = Empty /\ alerts = <<>> /\ setBack = 0
  BY DEF Init
<1>2. Len(log) = 0 /\ Indices = {} /\ WindowAlerts = {}
  BY <1>1 DEF Indices, WindowAlerts
<1>3. \A kind, d : Uncounted(kind, d) = {}
  BY <1>2 DEF Uncounted
<1>4. \A kind \in Kinds, d \in Devices : Window(kind)[d] = <<>>
  BY <1>1 DEF Window, Empty
<1>5. \A kind \in Kinds : Threshold(kind) \in Nat \ {0}
  BY KindTypes
<1>6. TypeInv
  <2>1. /\ log \in Seq([msg : DOMAIN sent, dev : Devices, ts : Int,
                        cls : {"buffer_overflow", "time_anomaly", "logic_fuzz_anomaly", "safe_tx"}])
        /\ sent \in Seq([dev : Devices, evt : Event, turn : Int])
        /\ alerts \in Seq(Alerts) /\ DOMAIN alerts = {} /\ clock \in Int /\ setBack \in Nat
    BY <1>1
  <2>2. Empty \in [Devices -> Seq(Indices)]
    <3>1. <<>> \in Seq(Indices)
      OBVIOUS
    <3>2. QED
      BY <3>1 DEF Empty
  <2>3. \A d \in Devices : Len(Empty[d]) = 0
    <3>1. Len(<<>>) = 0
      OBVIOUS
    <3>2. QED
      BY <3>1 DEF Empty
  <2>4. \A d \in Devices : /\ Len(overflow[d]) < OVERFLOW_THRESHOLD
                           /\ Len(spam[d]) < SPAM_THRESHOLD
                           /\ Len(pulsing[d]) < PULSING_THRESHOLD
    BY <1>1, <2>3, DetectorsAssumption
  <2>5. QED
    BY <1>1, <2>1, <2>2, <2>4 DEF TypeInv, TypeOK
<1>7. TimeInv
  BY <1>2 DEF TimeInv
<1>8. DequeInv
  <2>1. \A kind \in Kinds, d \in Devices : Held(kind, d) = {}
    BY <1>4 DEF Held, Elems
  <2>2. Increasing(<<>>) /\ <<>> \in Seq(Nat) /\ Len(<<>>) = 0
    BY DEF Increasing
  <2>3. ASSUME NEW kind \in Kinds, NEW d \in Devices
        PROVE  /\ Window(kind)[d] \in Seq(Nat) /\ Increasing(Window(kind)[d])
               /\ Len(Window(kind)[d]) < Threshold(kind)
               /\ Held(kind, d) \subseteq Uncounted(kind, d)
               /\ \A n \in Uncounted(kind, d) \ Held(kind, d) : FALSE
    <3>1. Window(kind)[d] = <<>> /\ Held(kind, d) = {} /\ Uncounted(kind, d) = {}
      BY <1>3, <1>4, <2>1
    <3>2. 0 < Threshold(kind)
      BY <1>5
    <3>3. QED
      BY <2>2, <3>1, <3>2
  <2>4. QED
    BY <2>3 DEF DequeInv
<1>9. AlertsJustified /\ CountedOnce
  BY <1>2 DEF AlertsJustified, CountedOnce
<1>10. NoBurstMissed
  BY <1>3 DEF NoBurstMissed
<1>11. QED
  BY <1>6, <1>7, <1>8, <1>9, <1>10

(* The windows of L2Aggregator, for every number of devices, every window
   length and threshold, and any order of events, second deliveries and times
   the clock is set back: the deques hold uncounted events of their kind, and
   every one that is not too old. *)
THEOREM DetectorsInvariant ==
  Spec => [](TypeInv /\ TimeInv /\ DequeInv /\ AlertsJustified /\ CountedOnce /\ NoBurstMissed)
<1>1. Init => TypeInv /\ TimeInv /\ DequeInv /\ AlertsJustified /\ CountedOnce /\ NoBurstMissed
  BY InitHolds
<1>2. TypeInv /\ TimeInv /\ DequeInv /\ AlertsJustified /\ CountedOnce /\ NoBurstMissed /\ [Next]_vars
        => (TypeInv /\ TimeInv /\ DequeInv /\ AlertsJustified /\ CountedOnce /\ NoBurstMissed)'
  BY TypeStep, TimeStep, DequeStep, JustifiedStep, CountedOnceStep, BurstStep
<1>3. QED
  BY <1>1, <1>2, PTL DEF Spec

(* The deques are shorter than their thresholds: L2Aggregator clears a deque
   in the step in which it fills. *)
THEOREM DetectorsTypeCorrect == Spec => []TypeOK
<1>1. TypeInv => TypeOK
  BY DEF TypeInv
<1>2. QED
  BY <1>1, DetectorsInvariant, PTL

(* Every alert of L2Aggregator about a window counts enough events of its
   device and class, and while the clock was not set back they are close. *)
THEOREM AlertsAreJustified == Spec => []AlertsJustified
  BY DetectorsInvariant, PTL

(* L2Aggregator counts no event in two alerts of a window: it clears the
   deque when it alerts. *)
THEOREM EventsCountOnce == Spec => []CountedOnce
  BY DetectorsInvariant, PTL

(* While the clock was not set back, L2Aggregator leaves no burst without an
   alert: pruning only drops events that the next one is too far from. *)
THEOREM BurstsAreReported == Spec => []NoBurstMissed
  BY DetectorsInvariant, PTL
=============================================================================
