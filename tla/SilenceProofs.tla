---------------------------- MODULE SilenceProofs ----------------------------
(***************************************************************************)
(* Proofs about GatewaySilence: a gateway that P3.7 reports was silent,    *)
(* one incident per silence, and no silence goes unreported, for every set *)
(* of gateways, every threshold and delay, and each source of the ticks.   *)
(***************************************************************************)
EXTENDS GatewaySilence, FiniteSetTheorems, SequenceTheorems, TLAPS

K == TicksPerSecondAtMost

Pending(g)  == \E i \in DOMAIN verdicts : verdicts[i].gw = g
Original(g) == \E i \in DOMAIN verdicts : verdicts[i].gw = g /\ ~verdicts[i].copy

TypeInv == TypeOK /\ {redelivered, doubled, restarts} \subseteq Nat

(* What is pending is no older than the lag, and no more than K ticks of a
   second are pending. *)
PendInv ==
  /\ \A i \in DOMAIN verdicts :
       /\ verdicts[i].at <= clock /\ clock <= verdicts[i].at + lag
       /\ ~verdicts[i].copy => verdicts[i].at <= said[verdicts[i].gw]
  /\ \A i \in DOMAIN ticks :
       /\ ticks[i] <= clock /\ clock <= ticks[i] + lag
       /\ Len(ticks) - i < K * (clock - ticks[i] + 1)

(* The second deliveries of ticks that are pending are among those that can
   count against the last verdict of any gateway. *)
AgainInv ==
  /\ \A g \in Gateways : Len(again) <= extra[g]
  /\ Len(again) <= doubled
  /\ Standalone => doubled = 0

(* The age of an armed gateway, with the ticks that are still to be counted,
   is accounted for by the seconds since its last verdict and by the ticks
   delivered twice, once that verdict was heard. *)
AgeInv ==
  \A g \in Gateways : armed[g] /\ ~Original(g) =>
    IF Standalone THEN said[g] <= lastSeen[g]
    ELSE now - lastSeen[g] + Len(ticks) + Len(again)
           <= K * (clock + lag + 1 - said[g]) + extra[g]

(* An armed gateway is not overdue, and unless copies are about it has said
   something since its last incident. *)
ArmedInv ==
  \A g \in Gateways : armed[g] =>
    /\ now <= lastSeen[g] + T
    /\ redelivered = 0 => g \in news

NoCopies == redelivered = 0 => \A i \in DOMAIN verdicts : ~verdicts[i].copy

(* One tick a second: what was counted and what is pending make the clock and
   the ticks delivered twice. *)
TickInv ==
  /\ tickSource = "backend" /\ restarts = 0 =>
       now + Len(ticks) + Len(again) + 1 = clock + doubled
  /\ Standalone => /\ now <= clock
                   /\ \/ now + Len(ticks) = clock
                      \/ now = 0 /\ Len(ticks) + 1 = clock

(* A gateway not reported since its last verdict is still to be heard, or
   armed with no later a time than that verdict, its delay and the second
   deliveries counted so far explain. *)
DueInv ==
  tickSource # "gateway" /\ restarts = 0 /\ redelivered = 0 =>
    \A g \in Gateways : said[g] > 0 /\ lag + extra[g] < T /\ incident[g] <= said[g] =>
      \/ Pending(g)
      \/ armed[g] /\ lastSeen[g] + (IF Standalone THEN 0 ELSE 1)
                     <= said[g] + lag + (doubled - Len(again))

IInv == TypeInv /\ PendInv /\ AgainInv /\ AgeInv /\ ArmedInv /\ NoCopies /\ TickInv /\ DueInv
-----------------------------------------------------------------------------
(* Whoever publishes the ticks, a second has at most K of them. *)
LEMMA TickRate ==
  ASSUME TypeInv
  PROVE  /\ K \in Nat /\ TicksPerSecond \in Nat /\ TicksPerSecond <= K
         /\ tickSource # "gateway" => K = 1 /\ TicksPerSecond = 1
<1>1. /\ IsFiniteSet(Gateways) /\ up \subseteq Gateways
  BY SilenceAssumption DEF TypeInv, TypeOK
<1>2. IsFiniteSet(up) /\ Cardinality(up) <= Cardinality(Gateways)
  BY <1>1, FS_Subset
<1>3. Cardinality(up) \in Nat /\ Cardinality(Gateways) \in Nat
  BY <1>1, <1>2, FS_CardinalityType
<1>4. QED
  BY <1>2, <1>3 DEF K, TicksPerSecondAtMost, TicksPerSecond

(* K ticks more a second later. *)
LEMMA OneMoreSecond ==
  ASSUME NEW k \in Nat, NEW x \in Int
  PROVE  k * (x + 1) = k * x + k
OBVIOUS

(* A longer time has no fewer ticks. *)
LEMMA MoreSeconds ==
  ASSUME NEW k \in Nat, NEW x \in Int, NEW y \in Int, x <= y
  PROVE  k * x <= k * y
<1>1. PICK z \in Nat : y = x + z
  <2>1. y - x \in Nat /\ y = x + (y - x)
    OBVIOUS
  <2>2. QED
    BY <2>1
<1>2. k * (x + z) = k * x + k * z /\ k * z >= 0 /\ k * x \in Int /\ k * z \in Int
  OBVIOUS
<1>3. QED
  BY <1>1, <1>2

(* The ticks that are pending are those of at most lag + 1 seconds. *)
LEMMA FewTicks ==
  ASSUME TypeInv, PendInv
  PROVE  Len(ticks) \in Nat /\ Len(ticks) <= K * (lag + 1)
<1>1. /\ Len(ticks) \in Nat /\ DOMAIN ticks = 1..Len(ticks) /\ ticks \in Seq(2..MaxSeconds)
      /\ lag \in Nat /\ clock \in Int /\ K \in Nat
  <2>1. ticks \in Seq(2..MaxSeconds) /\ lag \in 0..MaxLag /\ clock \in 1..MaxSeconds
    BY DEF TypeInv, TypeOK
  <2>2. MaxLag \in Nat /\ MaxSeconds \in Nat /\ K \in Nat
    BY TickRate, SilenceAssumption
  <2>3. QED
    BY <2>1, <2>2
<1>2. CASE Len(ticks) = 0
  <2>1. K * (lag + 1) >= 0
    BY <1>1
  <2>2. QED
    BY <1>1, <1>2, <2>1
<1>3. CASE Len(ticks) # 0
  <2>1. 1 \in DOMAIN ticks /\ ticks[1] \in 2..MaxSeconds
    <3>1. 1 \in 1..Len(ticks)
      BY <1>1, <1>3
    <3>2. QED
      BY <1>1, <3>1, ElementOfSeq
  <2>2. ticks[1] \in Int
    BY <2>1
  <2>3. clock <= ticks[1] + lag /\ Len(ticks) - 1 < K * (clock - ticks[1] + 1)
    BY <2>1 DEF PendInv
  <2>4. clock - ticks[1] + 1 \in Int /\ lag + 1 \in Int /\ clock - ticks[1] + 1 <= lag + 1
    BY <1>1, <2>2, <2>3
  <2>5. K * (clock - ticks[1] + 1) <= K * (lag + 1)
    BY <1>1, <2>4, MoreSeconds
  <2>6. K * (clock - ticks[1] + 1) \in Int /\ K * (lag + 1) \in Int
    BY <1>1, <2>4
  <2>7. \A l, a, b \in Int : l - 1 < a /\ a <= b => l <= b
    OBVIOUS
  <2>8. QED
    BY <1>1, <2>3, <2>5, <2>6, <2>7
<1>4. QED
  BY <1>1, <1>2, <1>3
-----------------------------------------------------------------------------
(* What the types say, one fact at a time. *)
LEMMA Types ==
  ASSUME TypeInv
  PROVE  /\ clock \in Nat /\ clock >= 1 /\ clock <= MaxSeconds /\ MaxSeconds \in Nat
         /\ lag \in Nat /\ now \in Nat /\ T \in Nat /\ T >= 1 /\ K \in Nat
         /\ Len(ticks) \in Nat /\ DOMAIN ticks = 1..Len(ticks)
         /\ Len(verdicts) \in Nat /\ DOMAIN verdicts = 1..Len(verdicts)
         /\ Len(again) \in Nat /\ doubled \in Nat /\ DOMAIN extra = Gateways
         /\ \A g \in Gateways : extra[g] \in Nat /\ extra[g] <= doubled
         /\ \A i \in DOMAIN ticks : ticks[i] \in Nat
         /\ \A i \in DOMAIN verdicts : /\ verdicts[i].gw \in Gateways /\ verdicts[i].at \in Nat
                                       /\ verdicts[i].copy \in BOOLEAN
         /\ DOMAIN said = Gateways /\ DOMAIN incident = Gateways
         /\ DOMAIN lastSeen = Gateways /\ DOMAIN armed = Gateways
         /\ \A g \in Gateways :
              /\ said[g] \in Nat /\ said[g] <= clock /\ incident[g] \in Nat /\ incident[g] <= clock
              /\ lastSeen[g] \in Nat /\ armed[g] \in BOOLEAN
              /\ lastSeen[g] <= IF Standalone THEN clock ELSE now
<1>1. /\ clock \in 1..MaxSeconds /\ lag \in 0..MaxLag /\ now \in Nat
      /\ ticks \in Seq(2..MaxSeconds)
      /\ verdicts \in Seq([gw : Gateways, at : 1..MaxSeconds, copy : BOOLEAN])
      /\ MaxSeconds \in Nat /\ MaxLag \in Nat /\ T \in Nat /\ T >= 1 /\ K \in Nat
      /\ said \in [Gateways -> 0..clock] /\ incident \in [Gateways -> 0..clock]
      /\ armed \in [Gateways -> BOOLEAN]
  <2>1. MaxSeconds \in Nat /\ MaxLag \in Nat /\ T \in Nat /\ T >= 1 /\ K \in Nat
    BY TickRate, SilenceAssumption
  <2>2. QED
    BY <2>1 DEF TypeInv, TypeOK
<1>2. /\ clock \in Nat /\ clock >= 1 /\ clock <= MaxSeconds /\ lag \in Nat
  BY <1>1
<1>3. /\ Len(ticks) \in Nat /\ DOMAIN ticks = 1..Len(ticks)
      /\ Len(verdicts) \in Nat /\ DOMAIN verdicts = 1..Len(verdicts)
  BY <1>1
<1>4. \A i \in DOMAIN ticks : ticks[i] \in Nat
  <2>1. \A i \in 1..Len(ticks) : ticks[i] \in 2..MaxSeconds
    BY <1>1, ElementOfSeq
  <2>2. QED
    BY <1>3, <2>1
<1>5. \A i \in DOMAIN verdicts : /\ verdicts[i].gw \in Gateways /\ verdicts[i].at \in Nat
                                 /\ verdicts[i].copy \in BOOLEAN
  <2>1. \A i \in 1..Len(verdicts) :
          verdicts[i] \in [gw : Gateways, at : 1..MaxSeconds, copy : BOOLEAN]
    BY <1>1, ElementOfSeq
  <2>2. QED
    BY <1>3, <2>1
<1>6. \A g \in Gateways :
        /\ said[g] \in Nat /\ said[g] <= clock /\ incident[g] \in Nat /\ incident[g] <= clock
        /\ armed[g] \in BOOLEAN
  <2>1. \A g \in Gateways : said[g] \in 0..clock /\ incident[g] \in 0..clock
    BY <1>1
  <2>2. QED
    BY <1>1, <1>2, <2>1
<1>7. DOMAIN lastSeen = Gateways /\ \A g \in Gateways :
         lastSeen[g] \in Nat /\ lastSeen[g] <= IF Standalone THEN clock ELSE now
  <2> DEFINE top == IF Standalone THEN clock ELSE now
  <2>1. top \in Nat
    BY <1>1, <1>2
  <2>2. lastSeen \in [Gateways -> 0..top]
    BY DEF TypeInv, TypeOK
  <2> HIDE DEF top
  <2>3. DOMAIN lastSeen = Gateways /\ \A g \in Gateways : lastSeen[g] \in 0..top
    BY <2>2
  <2>4. DOMAIN lastSeen = Gateways /\ \A g \in Gateways : lastSeen[g] \in Nat /\ lastSeen[g] <= top
    BY <2>1, <2>3
  <2>5. QED
    BY <2>4 DEF top
<1>8. DOMAIN said = Gateways /\ DOMAIN incident = Gateways /\ DOMAIN armed = Gateways
  BY <1>1
<1>9. Len(again) \in Nat /\ doubled \in Nat /\ DOMAIN extra = Gateways
      /\ \A g \in Gateways : extra[g] \in Nat /\ extra[g] <= doubled
  <2>1. again \in Seq(1..MaxSeconds) /\ doubled \in Nat /\ extra \in [Gateways -> 0..doubled]
    BY DEF TypeInv, TypeOK
  <2>2. Len(again) \in Nat
    BY <2>1
  <2>3. DOMAIN extra = Gateways /\ \A g \in Gateways : extra[g] \in 0..doubled
    BY <2>1
  <2>4. QED
    BY <2>1, <2>2, <2>3
<1>10. QED
  BY <1>1, <1>2, <1>3, <1>4, <1>5, <1>6, <1>7, <1>8, <1>9

(* What a sequence loses with its head. *)
LEMMA TailFacts ==
  ASSUME NEW S, NEW s \in Seq(S), s # <<>>
  PROVE  /\ Tail(s) \in Seq(S) /\ Len(s) \in Nat /\ Len(s) >= 1 /\ Len(Tail(s)) = Len(s) - 1
         /\ Head(s) = s[1] /\ s[1] \in S
         /\ \A i \in 1..(Len(s) - 1) : Tail(s)[i] = s[i + 1] /\ i + 1 \in 1..Len(s)
<1>1. Len(s) \in Nat /\ Len(s) >= 1 /\ Head(s) = s[1] /\ Tail(s) \in Seq(S)
      /\ Len(Tail(s)) = Len(s) - 1
  BY HeadTailProperties
<1>2. s[1] \in S
  <2>1. 1 \in 1..Len(s)
    BY <1>1
  <2>2. QED
    BY <2>1, ElementOfSeq
<1>3. \A i \in 1..(Len(s) - 1) : Tail(s)[i] = s[i + 1] /\ i + 1 \in 1..Len(s)
  BY <1>1
<1>4. QED
  BY <1>1, <1>2, <1>3
-----------------------------------------------------------------------------
(* A second passes: nothing that is pending is older than the lag, and the
   ticks of the new second are accounted for by that second. *)
LEMMA SecondStep ==
  ASSUME IInv, Second
  PROVE  IInv'
<1>1. /\ TypeInv /\ PendInv /\ AgainInv /\ AgeInv /\ ArmedInv /\ NoCopies /\ TickInv /\ DueInv
  BY DEF IInv
<1> DEFINE new == [i \in 1..TicksPerSecond |-> clock + 1]
<1>2. /\ clock < MaxSeconds /\ clock' = clock + 1 /\ ticks' = ticks \o new
      /\ \A i \in DOMAIN verdicts : clock - verdicts[i].at < lag
      /\ \A i \in DOMAIN ticks : clock - ticks[i] < lag
      /\ UNCHANGED <<up, verdicts, now, lastSeen, armed, said, news, incident, tickSource, lag,
                     again, ticked, extra,
                     redelivered, doubled, restarts>>
  BY DEF Second, OnTime, monitor, rest, host, copies
<1>3. /\ clock \in Nat /\ clock >= 1 /\ MaxSeconds \in Nat /\ K \in Nat /\ TicksPerSecond \in Nat
      /\ TicksPerSecond <= K /\ Len(ticks) \in Nat /\ lag \in Nat /\ now \in Nat
      /\ tickSource # "gateway" => K = 1 /\ TicksPerSecond = 1
  BY <1>1, Types, TickRate
<1>4. /\ ticks' \in Seq(2..MaxSeconds) /\ DOMAIN ticks' = 1..Len(ticks')
      /\ Len(ticks') = Len(ticks) + TicksPerSecond
      /\ \A i \in 1..Len(ticks) : ticks'[i] = ticks[i]
      /\ \A i \in 1..Len(ticks') : i \notin 1..Len(ticks) => ticks'[i] = clock + 1
  <2>1. clock + 1 \in 2..MaxSeconds
    BY <1>2, <1>3
  <2>2. new \in [1..TicksPerSecond -> 2..MaxSeconds]
    BY <2>1
  <2>3. new \in Seq(2..MaxSeconds) /\ Len(new) = TicksPerSecond
        /\ \A i \in 1..TicksPerSecond : new[i] = clock + 1
    BY <1>3, <2>2, SeqDef
  <2>4. ticks \in Seq(2..MaxSeconds)
    BY <1>1 DEF TypeInv, TypeOK
  <2> HIDE DEF new
  <2>5. /\ ticks \o new \in Seq(2..MaxSeconds) /\ Len(ticks \o new) = Len(ticks) + Len(new)
        /\ \A i \in 1..Len(ticks) + Len(new) :
             (ticks \o new)[i] = IF i <= Len(ticks) THEN ticks[i] ELSE new[i - Len(ticks)]
    BY <2>3, <2>4, ConcatProperties
  <2>6. \A i \in 1..Len(ticks) : i \in 1..Len(ticks) + Len(new) /\ i <= Len(ticks)
    BY <1>3, <2>3
  <2>7. \A i \in 1..Len(ticks) + Len(new) : i \notin 1..Len(ticks) =>
          ~(i <= Len(ticks)) /\ i - Len(ticks) \in 1..TicksPerSecond
    BY <1>3, <2>3
  <2>8. DOMAIN (ticks \o new) = 1..Len(ticks \o new)
    BY <2>5
  <2>9. QED
    BY <1>2, <2>3, <2>5, <2>6, <2>7, <2>8
<1>5. K' = K /\ K' * (clock' + lag' + 1) = K * (clock + lag + 1) + K
  BY <1>2, <1>3 DEF K, TicksPerSecondAtMost
<1>6. TypeInv'
  <2>1. clock' \in 1..MaxSeconds /\ 0..clock \subseteq 0..clock'
    BY <1>2, <1>3
  <2>2. lastSeen' \in [Gateways -> 0..(IF Standalone THEN clock ELSE now)']
    <3>1. lastSeen \in [Gateways -> 0..(IF Standalone THEN clock ELSE now)]
      BY <1>1 DEF TypeInv, TypeOK
    <3>2. 0..(IF Standalone THEN clock ELSE now) \subseteq 0..(IF Standalone THEN clock ELSE now)'
      BY <1>2, <1>3 DEF Standalone
    <3>3. QED
      BY <1>2, <3>1, <3>2
  <2>3. said' \in [Gateways -> 0..clock'] /\ incident' \in [Gateways -> 0..clock']
    <3>1. said \in [Gateways -> 0..clock] /\ incident \in [Gateways -> 0..clock]
      BY <1>1 DEF TypeInv, TypeOK
    <3>2. QED
      BY <1>2, <2>1, <3>1
  <2>4. QED
    BY <1>1, <1>2, <1>4, <2>1, <2>2, <2>3 DEF TypeInv, TypeOK, Standalone
<1>7. PendInv'
  <2>1. ASSUME NEW i \in DOMAIN verdicts'
        PROVE  /\ verdicts'[i].at <= clock' /\ clock' <= verdicts'[i].at + lag'
               /\ ~verdicts'[i].copy => verdicts'[i].at <= said'[verdicts'[i].gw]
    <3>1. /\ verdicts[i].at \in Nat /\ verdicts[i].at <= clock /\ clock - verdicts[i].at < lag
          /\ ~verdicts[i].copy => verdicts[i].at <= said[verdicts[i].gw]
      BY <1>1, <1>2, Types DEF PendInv
    <3>2. QED
      BY <1>2, <1>3, <3>1
  <2>2. ASSUME NEW i \in DOMAIN ticks'
        PROVE  /\ ticks'[i] <= clock' /\ clock' <= ticks'[i] + lag'
               /\ Len(ticks') - i < K' * (clock' - ticks'[i] + 1)
    <3>1. i \in 1..Len(ticks')
      BY <1>4
    <3>2. CASE i \in 1..Len(ticks)
      <4>1. i \in DOMAIN ticks /\ ticks[i] \in Nat
        BY <1>1, <3>2, Types
      <4>2. /\ ticks[i] <= clock /\ clock - ticks[i] < lag /\ Len(ticks) - i < K * (clock - ticks[i] + 1)
        BY <1>1, <1>2, <4>1 DEF PendInv
      <4>3. K' * (clock' - ticks[i] + 1) = K * (clock - ticks[i] + 1) + K
        <5> DEFINE t == ticks[i]
        <5>1. clock - t + 1 \in Int /\ clock' - t + 1 = (clock - t + 1) + 1
          <6>1. clock \in Int /\ clock' = clock + 1 /\ t \in Int
            BY <1>2, <1>3, <4>1
          <6> HIDE DEF t
          <6>2. QED
            BY <6>1
        <5>2. QED
          BY <1>3, <1>5, <5>1, OneMoreSecond
      <4>4. K * (clock - ticks[i] + 1) \in Int
        BY <1>3, <4>1
      <4>5. \A a \in Int : Len(ticks) - i < a => Len(ticks) + TicksPerSecond - i < a + K
        BY <1>3, <3>2
      <4>6. Len(ticks') - i < K' * (clock' - ticks[i] + 1)
        <5> DEFINE q == K * (clock - ticks[i] + 1)
                   r == K' * (clock' - ticks[i] + 1)
        <5>1. q \in Int /\ r = q + K /\ Len(ticks) - i < q
          BY <4>2, <4>3, <4>4
        <5> HIDE DEF q, r
        <5>2. Len(ticks') = Len(ticks) + TicksPerSecond /\ i \in Int
          BY <1>4, <3>2
        <5>3. Len(ticks') - i < r
          BY <1>3, <5>1, <5>2
        <5>4. QED
          BY <5>3 DEF r
      <4>7. ticks[i] <= clock' /\ clock' <= ticks[i] + lag
        <5> DEFINE t == ticks[i]
        <5>1. /\ t \in Nat /\ t <= clock /\ clock - t < lag
              /\ clock \in Int /\ clock' = clock + 1 /\ lag \in Nat
          BY <1>2, <1>3, <4>1, <4>2
        <5> HIDE DEF t
        <5>2. t <= clock' /\ clock' <= t + lag
          BY <5>1
        <5>3. QED
          BY <5>2 DEF t
      <4>8. QED
        BY <1>2, <1>4, <3>2, <4>6, <4>7
    <3>3. CASE i \notin 1..Len(ticks)
      <4>1. ticks'[i] = clock' /\ i > Len(ticks) /\ i \in Nat
        BY <1>2, <1>3, <1>4, <3>1, <3>3
      <4>2. K' * (clock' - ticks'[i] + 1) = K
        <5>1. clock' - ticks'[i] + 1 = 1 /\ K * 1 = K
          BY <1>2, <1>3, <4>1
        <5>2. QED
          BY <1>5, <5>1
      <4>3. Len(ticks') - i < K
        BY <1>3, <1>4, <4>1
      <4>4. QED
        BY <1>2, <1>3, <4>1, <4>2, <4>3
    <3>4. QED
      BY <3>2, <3>3
  <2>3. QED
    BY <2>1, <2>2 DEF PendInv
<1>8. AgeInv'
  <2>1. ASSUME NEW g \in Gateways, armed'[g], ~Original(g)'
        PROVE  IF Standalone' THEN said'[g] <= lastSeen'[g]
               ELSE now' - lastSeen'[g] + Len(ticks') + Len(again')
                      <= K' * (clock' + lag' + 1 - said'[g]) + extra'[g]
    <3>1. IF Standalone THEN said[g] <= lastSeen[g]
          ELSE now - lastSeen[g] + Len(ticks) + Len(again)
                 <= K * (clock + lag + 1 - said[g]) + extra[g]
      BY <1>1, <1>2, <2>1 DEF AgeInv, Original
    <3>2. said[g] \in Nat /\ lastSeen[g] \in Nat /\ Len(again) \in Nat /\ extra[g] \in Nat
      BY <1>1, Types
    <3>3. K' * (clock' + lag' + 1 - said[g]) = K * (clock + lag + 1 - said[g]) + K
      BY <1>2, <1>3, <1>5, <3>2
    <3>4. K * (clock + lag + 1 - said[g]) \in Int
      BY <1>3, <3>2
    <3>5. \A a \in Int : now - lastSeen[g] + Len(ticks) + Len(again) <= a + extra[g] =>
            now - lastSeen[g] + (Len(ticks) + TicksPerSecond) + Len(again) <= a + K + extra[g]
      <4> DEFINE l == lastSeen[g]
                 p == Len(ticks)
                 q == Len(again)
                 e == extra[g]
                 r == TicksPerSecond
      <4>1. /\ l \in Nat /\ p \in Nat /\ q \in Nat /\ e \in Nat /\ r \in Nat /\ r <= K
            /\ now \in Nat /\ K \in Nat
        BY <1>3, <3>2
      <4> HIDE DEF l, p, q, e, r
      <4>2. \A a \in Int : now - l + p + q <= a + e => now - l + (p + r) + q <= a + K + e
        BY <4>1
      <4>3. QED
        BY <4>2 DEF l, p, q, e, r
    <3>6. QED
      BY <1>2, <1>4, <3>1, <3>3, <3>4, <3>5 DEF Standalone
  <2>2. QED
    BY <2>1 DEF AgeInv
<1>9. ArmedInv' /\ NoCopies' /\ AgainInv'
  BY <1>1, <1>2 DEF ArmedInv, NoCopies, AgainInv, Standalone
<1>10. TickInv'
  <2>1. ASSUME tickSource = "backend", restarts = 0
        PROVE  now + Len(ticks') + Len(again) + 1 = clock' + doubled
    <3> DEFINE p == Len(ticks)
               p1 == Len(ticks')
               q == Len(again)
    <3>1. /\ now + p + q + 1 = clock + doubled /\ p1 = p + 1 /\ clock' = clock + 1
          /\ now \in Nat /\ p \in Nat /\ q \in Nat /\ clock \in Nat /\ doubled \in Nat
      BY <1>1, <1>2, <1>3, <1>4, <2>1, Types DEF TickInv
    <3> HIDE DEF p, p1, q
    <3>2. now + p1 + q + 1 = clock' + doubled
      BY <3>1
    <3>3. QED
      BY <3>2 DEF p, p1, q
  <2>2. ASSUME Standalone
        PROVE  /\ now <= clock'
               /\ now + Len(ticks') = clock' \/ (now = 0 /\ Len(ticks') + 1 = clock')
    <3>1. /\ now <= clock
          /\ now + Len(ticks) = clock \/ (now = 0 /\ Len(ticks) + 1 = clock)
      BY <1>1, <2>2 DEF TickInv
    <3>2. Len(ticks') = Len(ticks) + 1
      BY <1>3, <1>4, <2>2 DEF Standalone
    <3>3. QED
      BY <1>2, <1>3, <3>1, <3>2
  <2>3. QED
    BY <1>2, <2>1, <2>2 DEF TickInv, Standalone
<1>11. DueInv'
  BY <1>1, <1>2 DEF DueInv, Pending, Standalone
<1>12. QED
  BY <1>6, <1>7, <1>8, <1>9, <1>10, <1>11 DEF IInv

(* A message is appended to those that are pending. *)
LEMMA Appended ==
  ASSUME NEW S, NEW s \in Seq(S), NEW x \in S
  PROVE  /\ Append(s, x) \in Seq(S) /\ Len(s) \in Nat /\ Len(Append(s, x)) = Len(s) + 1
         /\ DOMAIN s = 1..Len(s) /\ DOMAIN Append(s, x) = 1..(Len(s) + 1)
         /\ \A i \in 1..Len(s) : Append(s, x)[i] = s[i] /\ i \in 1..(Len(s) + 1)
         /\ Append(s, x)[Len(s) + 1] = x /\ Len(s) + 1 \in 1..(Len(s) + 1)
         /\ \A i \in 1..(Len(s) + 1) : i \in 1..Len(s) \/ i = Len(s) + 1
<1>1. /\ Append(s, x) \in Seq(S) /\ Len(Append(s, x)) = Len(s) + 1 /\ Len(s) \in Nat
      /\ \A i \in 1..Len(s) : Append(s, x)[i] = s[i]
      /\ Append(s, x)[Len(s) + 1] = x
  BY AppendProperties
<1>2. QED
  BY <1>1

(* A gateway publishes a verdict, which is now to be heard. *)
LEMMA PublishStep ==
  ASSUME IInv, NEW h \in Gateways, Publish(h)
  PROVE  IInv'
<1>1. /\ TypeInv /\ PendInv /\ AgainInv /\ AgeInv /\ ArmedInv /\ NoCopies /\ TickInv /\ DueInv
  BY DEF IInv
<1> DEFINE v == [gw |-> h, at |-> clock, copy |-> FALSE]
           n == Len(verdicts)
<1>2. /\ verdicts' = Append(verdicts, v) /\ said' = [said EXCEPT ![h] = clock] /\ said[h] < clock
      /\ extra' = [extra EXCEPT ![h] = Len(again)]
      /\ UNCHANGED <<clock, up, ticks, now, lastSeen, armed, news, incident, tickSource, lag,
                     again, ticked, redelivered, doubled, restarts>>
  BY DEF Publish, monitor, rest, host, copies
<1>3. /\ v \in [gw : Gateways, at : 1..MaxSeconds, copy : BOOLEAN]
      /\ verdicts \in Seq([gw : Gateways, at : 1..MaxSeconds, copy : BOOLEAN])
  BY <1>1 DEF TypeInv, TypeOK
<1> HIDE DEF v
<1>4. /\ n \in Nat /\ verdicts' \in Seq([gw : Gateways, at : 1..MaxSeconds, copy : BOOLEAN])
      /\ DOMAIN verdicts = 1..n /\ DOMAIN verdicts' = 1..(n + 1)
      /\ \A i \in 1..n : verdicts'[i] = verdicts[i] /\ i \in 1..(n + 1)
      /\ verdicts'[n + 1] = v /\ n + 1 \in 1..(n + 1)
      /\ \A i \in 1..(n + 1) : i \in 1..n \/ i = n + 1
  BY <1>2, <1>3, Appended
<1>5. /\ \A g \in Gateways : g # h => said'[g] = said[g]
      /\ said'[h] = clock
      /\ \A g \in Gateways : said[g] \in Nat /\ said[g] <= said'[g] /\ said'[g] <= clock
      /\ clock \in Nat /\ lag \in Nat
      /\ \A i \in DOMAIN verdicts : verdicts[i].gw \in Gateways /\ verdicts[i].at \in Nat
  <2>1. /\ clock \in Nat /\ lag \in Nat /\ DOMAIN said = Gateways
        /\ \A g \in Gateways : said[g] \in Nat /\ said[g] <= clock
    BY <1>1, Types
  <2>2. \A i \in DOMAIN verdicts : verdicts[i].gw \in Gateways /\ verdicts[i].at \in Nat
    BY <1>1, Types
  <2>3. said' = [said EXCEPT ![h] = clock]
    BY <1>2
  <2>4. said'[h] = clock /\ \A g \in Gateways : g # h => said'[g] = said[g]
    BY <2>1, <2>3
  <2>5. \A g \in Gateways : said[g] \in Nat /\ said[g] <= clock
    BY <2>1
  <2>6. QED
    BY <2>1, <2>2, <2>4, <2>5
<1>5a. extra'[h] = Len(again) /\ \A g \in Gateways : g # h => extra'[g] = extra[g]
  BY <1>1, <1>2, Types
<1>6. v.gw = h /\ v.at = clock /\ v.copy = FALSE
  BY DEF v
<1>7. K' = K
  BY <1>2 DEF K, TicksPerSecondAtMost
<1> HIDE DEF n
<1>8. TypeInv'
  <2>1. said' \in [Gateways -> 0..clock]
    <3>1. said \in [Gateways -> 0..clock] /\ clock \in 0..clock
      BY <1>1, <1>5 DEF TypeInv, TypeOK
    <3>2. QED
      BY <1>2, <3>1
  <2>2. extra' \in [Gateways -> 0..doubled]
    <3>1. extra \in [Gateways -> 0..doubled] /\ Len(again) \in 0..doubled
      BY <1>1, Types DEF TypeInv, TypeOK, AgainInv
    <3>2. QED
      BY <1>2, <3>1
  <2>3. QED
    BY <1>1, <1>2, <1>4, <2>1, <2>2 DEF TypeInv, TypeOK, Standalone
<1>9. PendInv'
  <2>1. ASSUME NEW i \in DOMAIN verdicts'
        PROVE  /\ verdicts'[i].at <= clock /\ clock <= verdicts'[i].at + lag
               /\ ~verdicts'[i].copy => verdicts'[i].at <= said'[verdicts'[i].gw]
    <3>1. CASE i \in 1..n
      <4>1. /\ verdicts[i].at <= clock /\ clock <= verdicts[i].at + lag
            /\ ~verdicts[i].copy => verdicts[i].at <= said[verdicts[i].gw]
            /\ verdicts[i].gw \in Gateways /\ verdicts[i].at \in Nat
        BY <1>1, <1>4, <1>5, <3>1 DEF PendInv
      <4>2. said[verdicts[i].gw] \in Nat /\ said'[verdicts[i].gw] \in Int
            /\ said[verdicts[i].gw] <= said'[verdicts[i].gw]
        BY <1>1, <1>2, <1>5, <4>1
      <4>3. ~verdicts[i].copy => verdicts[i].at <= said'[verdicts[i].gw]
        BY <4>1, <4>2
      <4>4. QED
        BY <1>4, <3>1, <4>1, <4>3
    <3>2. CASE i = n + 1
      BY <1>4, <1>5, <1>6, <3>2
    <3>3. QED
      BY <1>4, <3>1, <3>2
  <2>2. QED
    BY <1>1, <1>2, <1>7, <2>1 DEF PendInv
<1>10. Original(h)' /\ Pending(h)'
  BY <1>4, <1>6 DEF Original, Pending
<1>11. \A g \in Gateways : Original(g) => Original(g)'
  BY <1>4 DEF Original
<1>12. \A g \in Gateways : Pending(g) => Pending(g)'
  BY <1>4 DEF Pending
<1>13. AgeInv'
  <2>1. ASSUME NEW g \in Gateways, armed'[g], ~Original(g)'
        PROVE  IF Standalone' THEN said'[g] <= lastSeen'[g]
               ELSE now' - lastSeen'[g] + Len(ticks') + Len(again')
                      <= K' * (clock' + lag' + 1 - said'[g]) + extra'[g]
    <3>1. g # h /\ ~Original(g) /\ armed[g]
      BY <1>2, <1>10, <1>11, <2>1
    <3>2. IF Standalone THEN said[g] <= lastSeen[g]
          ELSE now - lastSeen[g] + Len(ticks) + Len(again)
                 <= K * (clock + lag + 1 - said[g]) + extra[g]
      BY <1>1, <3>1 DEF AgeInv
    <3>3. QED
      BY <1>2, <1>5, <1>5a, <1>7, <3>1, <3>2 DEF Standalone
  <2>2. QED
    BY <2>1 DEF AgeInv
<1>14. ArmedInv' /\ TickInv'
  BY <1>1, <1>2 DEF ArmedInv, TickInv, Standalone
<1>15. NoCopies' /\ AgainInv'
  <2>1. Len(again) <= Len(again)
    BY <1>1, Types
  <2>2. QED
    BY <1>1, <1>2, <1>4, <1>5a, <1>6, <2>1 DEF NoCopies, AgainInv, Standalone
<1>16. DueInv'
  <2>1. ASSUME tickSource # "gateway", restarts = 0, redelivered = 0,
               NEW g \in Gateways, said'[g] > 0, lag + extra'[g] < T, incident[g] <= said'[g]
        PROVE  \/ Pending(g)'
               \/ armed[g] /\ lastSeen[g] + (IF Standalone THEN 0 ELSE 1)
                              <= said'[g] + lag + (doubled - Len(again))
    <3>1. CASE g = h
      BY <1>10, <3>1
    <3>2. CASE g # h
      <4>1. said'[g] = said[g] /\ extra'[g] = extra[g]
        BY <1>5, <1>5a, <3>2
      <4>2. said[g] > 0 /\ lag + extra[g] < T /\ incident[g] <= said[g]
        BY <2>1, <4>1
      <4>3. QED
        BY <1>1, <1>12, <2>1, <4>1, <4>2 DEF DueInv
    <3>3. QED
      BY <3>1, <3>2
  <2>2. QED
    BY <1>2, <2>1 DEF DueInv, Standalone
<1>17. QED
  BY <1>8, <1>9, <1>13, <1>14, <1>15, <1>16 DEF IInv

(* A verdict is delivered once more, as a copy of an older one. *)
LEMMA RedeliverStep ==
  ASSUME IInv, NEW h \in Gateways, Redeliver(h)
  PROVE  IInv'
<1>1. /\ TypeInv /\ PendInv /\ AgainInv /\ AgeInv /\ ArmedInv /\ NoCopies /\ TickInv /\ DueInv
  BY DEF IInv
<1> DEFINE v == [gw |-> h, at |-> clock, copy |-> TRUE]
           n == Len(verdicts)
<1>2. /\ verdicts' = Append(verdicts, v) /\ redelivered' = redelivered + 1
      /\ UNCHANGED <<clock, up, ticks, now, lastSeen, armed, said, news, incident,
                     tickSource, lag, again, ticked, extra, doubled, restarts>>
  BY DEF Redeliver, monitor, host, copies
<1>3. /\ v \in [gw : Gateways, at : 1..MaxSeconds, copy : BOOLEAN]
      /\ verdicts \in Seq([gw : Gateways, at : 1..MaxSeconds, copy : BOOLEAN])
  BY <1>1 DEF TypeInv, TypeOK
<1> HIDE DEF v
<1>4. /\ n \in Nat /\ verdicts' \in Seq([gw : Gateways, at : 1..MaxSeconds, copy : BOOLEAN])
      /\ DOMAIN verdicts = 1..n /\ DOMAIN verdicts' = 1..(n + 1)
      /\ \A i \in 1..n : verdicts'[i] = verdicts[i] /\ i \in 1..(n + 1)
      /\ verdicts'[n + 1] = v /\ n + 1 \in 1..(n + 1)
      /\ \A i \in 1..(n + 1) : i \in 1..n \/ i = n + 1
  BY <1>2, <1>3, Appended
<1>5. v.gw = h /\ v.at = clock /\ v.copy = TRUE /\ clock \in Nat /\ lag \in Nat
  BY <1>1, Types DEF v
<1>6. K' = K
  BY <1>2 DEF K, TicksPerSecondAtMost
<1>7. redelivered' \in Nat /\ redelivered' # 0
  BY <1>1, <1>2 DEF TypeInv
<1> HIDE DEF n
<1>8. TypeInv'
  BY <1>1, <1>2, <1>4, <1>7 DEF TypeInv, TypeOK, Standalone
<1>9. PendInv'
  <2>1. ASSUME NEW i \in DOMAIN verdicts'
        PROVE  /\ verdicts'[i].at <= clock /\ clock <= verdicts'[i].at + lag
               /\ ~verdicts'[i].copy => verdicts'[i].at <= said[verdicts'[i].gw]
    <3>1. CASE i \in 1..n
      BY <1>1, <1>4, <3>1 DEF PendInv
    <3>2. CASE i = n + 1
      BY <1>4, <1>5, <3>2
    <3>3. QED
      BY <1>4, <3>1, <3>2
  <2>2. QED
    BY <1>1, <1>2, <1>6, <2>1 DEF PendInv
<1>10. AgeInv'
  <2>1. \A g \in Gateways : Original(g) => Original(g)'
    BY <1>4 DEF Original
  <2>2. QED
    BY <1>1, <1>2, <1>6, <2>1 DEF AgeInv, Standalone
<1>11. ArmedInv' /\ TickInv' /\ NoCopies' /\ DueInv' /\ AgainInv'
  BY <1>1, <1>2, <1>7 DEF ArmedInv, TickInv, NoCopies, DueInv, AgainInv, Standalone
<1>12. QED
  BY <1>8, <1>9, <1>10, <1>11 DEF IInv

(* A tick is delivered once more: it can count against every gateway. *)
LEMMA RedeliverTickStep ==
  ASSUME IInv, RedeliverTick
  PROVE  IInv'
<1>1. /\ TypeInv /\ PendInv /\ AgainInv /\ AgeInv /\ ArmedInv /\ NoCopies /\ TickInv /\ DueInv
  BY DEF IInv
<1>2. /\ again' = Append(again, clock) /\ doubled' = doubled + 1 /\ ~Standalone
      /\ extra' = [g \in Gateways |-> extra[g] + 1]
      /\ UNCHANGED <<clock, up, verdicts, ticks, now, lastSeen, armed, said, news, incident,
                     tickSource, lag, ticked, redelivered, restarts>>
  BY DEF RedeliverTick, monitor, host
<1>3. again' \in Seq(1..MaxSeconds) /\ Len(again') = Len(again) + 1 /\ Len(again) \in Nat
  <2>1. again \in Seq(1..MaxSeconds) /\ clock \in 1..MaxSeconds
    BY <1>1 DEF TypeInv, TypeOK
  <2>2. QED
    BY <1>2, <2>1, Appended
<1>4. /\ doubled \in Nat /\ T \in Nat /\ lag \in Nat /\ K \in Nat /\ clock \in Nat /\ now \in Nat
      /\ Len(ticks) \in Nat
      /\ \A g \in Gateways : /\ extra[g] \in Nat /\ extra[g] <= doubled /\ extra'[g] = extra[g] + 1
                             /\ lastSeen[g] \in Nat /\ said[g] \in Nat
  BY <1>1, <1>2, Types
<1>5. K' = K /\ ~Standalone'
  BY <1>2 DEF K, TicksPerSecondAtMost, Standalone
<1>6. TypeInv'
  <2>1. doubled' \in Nat /\ \A g \in Gateways : extra[g] + 1 \in 0..doubled'
    BY <1>2, <1>4
  <2>2. extra' \in [Gateways -> 0..doubled']
    BY <1>2, <2>1
  <2>3. QED
    BY <1>1, <1>2, <1>3, <2>1, <2>2 DEF TypeInv, TypeOK, Standalone
<1>7. PendInv' /\ ArmedInv' /\ NoCopies'
  BY <1>1, <1>2, <1>5 DEF PendInv, ArmedInv, NoCopies
<1>8. AgainInv'
  <2>1. \A g \in Gateways : Len(again') <= extra'[g]
    BY <1>1, <1>3, <1>4 DEF AgainInv
  <2>2. Len(again') <= doubled'
    BY <1>1, <1>2, <1>3, <1>4 DEF AgainInv
  <2>3. QED
    BY <1>5, <2>1, <2>2 DEF AgainInv
<1>9. AgeInv'
  <2>1. ASSUME NEW g \in Gateways, armed[g], ~Original(g)
        PROVE  now - lastSeen[g] + Len(ticks) + Len(again')
                 <= K * (clock + lag + 1 - said[g]) + extra'[g]
    <3>1. now - lastSeen[g] + Len(ticks) + Len(again) <= K * (clock + lag + 1 - said[g]) + extra[g]
      BY <1>1, <1>2, <2>1 DEF AgeInv
    <3>2. K * (clock + lag + 1 - said[g]) \in Int
      BY <1>4
    <3>3. \A a \in Int : now - lastSeen[g] + Len(ticks) + Len(again) <= a + extra[g] =>
            now - lastSeen[g] + Len(ticks) + Len(again') <= a + extra'[g]
      <4> DEFINE l == lastSeen[g]
                 p == Len(ticks)
                 q == Len(again)
                 q1 == Len(again')
                 e == extra[g]
                 e1 == extra'[g]
      <4>1. /\ l \in Nat /\ p \in Nat /\ q \in Nat /\ e \in Nat /\ now \in Nat
            /\ q1 = q + 1 /\ e1 = e + 1
        BY <1>3, <1>4
      <4> HIDE DEF l, p, q, q1, e, e1
      <4>2. \A a \in Int : now - l + p + q <= a + e => now - l + p + q1 <= a + e1
        BY <4>1
      <4>3. QED
        BY <4>2 DEF l, p, q, q1, e, e1
    <3>4. QED
      BY <3>1, <3>2, <3>3
  <2>2. QED
    BY <1>2, <1>5, <2>1 DEF AgeInv, Original
<1>10. TickInv'
  BY <1>1, <1>2, <1>3, <1>4, <1>5 DEF TickInv
<1>11. DueInv'
  <2>1. doubled' - Len(again') = doubled - Len(again)
    BY <1>2, <1>3, <1>4
  <2>2. \A g \in Gateways : lag + extra'[g] < T => lag + extra[g] < T
    BY <1>4
  <2>3. QED
    BY <1>1, <1>2, <1>5, <2>1, <2>2 DEF DueInv, Pending
<1>12. QED
  BY <1>6, <1>7, <1>8, <1>9, <1>10, <1>11 DEF IInv

(* A gateway dies: what it said is still to be heard. *)
LEMMA DiesStep ==
  ASSUME IInv, NEW h \in Gateways, GatewayDies(h)
  PROVE  IInv'
<1>1. /\ up' \subseteq up
      /\ UNCHANGED <<clock, verdicts, ticks, now, lastSeen, armed, said, news, incident,
                     tickSource, lag, again, ticked, extra,
                     redelivered, doubled, restarts>>
  BY DEF GatewayDies, monitor, rest, host, copies
<1>2. K' = K
  BY <1>1 DEF K, TicksPerSecondAtMost
<1>3. TypeInv' /\ PendInv'
  BY <1>1, <1>2 DEF IInv, TypeInv, TypeOK, PendInv, Standalone
<1>4. AgainInv' /\ AgeInv' /\ ArmedInv' /\ NoCopies' /\ TickInv' /\ DueInv'
  BY <1>1, <1>2 DEF IInv, AgainInv, AgeInv, ArmedInv, NoCopies, TickInv, DueInv, Standalone, Original,
                    Pending
<1>5. QED
  BY <1>3, <1>4 DEF IInv

(* The backend restarts: no gateway is armed. *)
LEMMA RestartStep ==
  ASSUME IInv, BackendRestarts
  PROVE  IInv'
<1>1. /\ now' = 0 /\ lastSeen' = [g \in Gateways |-> 0] /\ armed' = [g \in Gateways |-> FALSE]
      /\ restarts' = restarts + 1 /\ ~Standalone
      /\ UNCHANGED <<clock, up, verdicts, ticks, said, news, incident, tickSource, lag, again,
                     ticked, extra, redelivered, doubled>>
  BY DEF BackendRestarts, host, copies
<1>2. K' = K
  BY <1>1 DEF K, TicksPerSecondAtMost
<1>3. TypeInv' /\ restarts' # 0
  <2>1. lastSeen' \in [Gateways -> 0..now'] /\ armed' \in [Gateways -> BOOLEAN] /\ now' \in Nat
    BY <1>1
  <2>2. ~Standalone'
    BY <1>1 DEF Standalone
  <2>3. QED
    BY <1>1, <2>1, <2>2 DEF IInv, TypeInv, TypeOK
<1>4. PendInv' /\ NoCopies' /\ AgainInv'
  BY <1>1, <1>2 DEF IInv, PendInv, NoCopies, AgainInv, Standalone
<1>5. AgeInv' /\ ArmedInv'
  BY <1>1 DEF AgeInv, ArmedInv
<1>6. TickInv' /\ DueInv'
  BY <1>1, <1>3 DEF TickInv, DueInv, Standalone
<1>7. QED
  BY <1>3, <1>4, <1>5, <1>6 DEF IInv
-----------------------------------------------------------------------------
(* What delivering the first verdict changes, whoever hears it. *)
LEMMA Delivered ==
  ASSUME IInv, verdicts # <<>>, Deliver(Head(verdicts).gw)
  PROVE  LET v == verdicts[1] IN
         /\ Head(verdicts) = v /\ v.gw \in Gateways /\ v.at \in Nat /\ v.copy \in BOOLEAN
         /\ v.at <= clock /\ clock <= v.at + lag
         /\ ~v.copy => v.at <= said[v.gw]
         /\ verdicts' \in Seq([gw : Gateways, at : 1..MaxSeconds, copy : BOOLEAN])
         /\ \A g \in Gateways : g # v.gw => /\ Original(g) => Original(g)'
                                            /\ Pending(g) => Pending(g)'
         /\ news' \subseteq Gateways /\ news \subseteq news'
         /\ ~v.copy => v.gw \in news'
         /\ PendInv' /\ NoCopies'
         /\ K' = K
         /\ UNCHANGED <<clock, up, ticks, now, said, incident, tickSource, lag, again, ticked, extra,
                     redelivered, doubled, restarts>>
<1>1. /\ TypeInv /\ PendInv /\ NoCopies
  BY DEF IInv
<1> DEFINE v == verdicts[1]
           n == Len(verdicts)
           M == [gw : Gateways, at : 1..MaxSeconds, copy : BOOLEAN]
<1>2. /\ verdicts' = Tail(verdicts)
      /\ news' = IF Head(verdicts).copy THEN news ELSE news \cup {Head(verdicts).gw}
      /\ UNCHANGED <<clock, up, ticks, now, said, incident, tickSource, lag, again, ticked, extra,
                     redelivered, doubled, restarts>>
  BY DEF Deliver, rest, host, copies
<1>3. /\ verdicts \in Seq(M) /\ news \subseteq Gateways
  BY <1>1 DEF TypeInv, TypeOK
<1> HIDE DEF M
<1>4. /\ verdicts' \in Seq(M) /\ n \in Nat /\ n >= 1 /\ Len(verdicts') = n - 1
      /\ Head(verdicts) = v
      /\ \A i \in 1..(n - 1) : verdicts'[i] = verdicts[i + 1] /\ i + 1 \in 1..n
  BY <1>2, <1>3, TailFacts
<1>5. DOMAIN verdicts = 1..n /\ DOMAIN verdicts' = 1..(n - 1) /\ 1 \in DOMAIN verdicts
  BY <1>3, <1>4
<1>6. \A i \in 1..n : i = 1 \/ (i - 1 \in 1..(n - 1) /\ (i - 1) + 1 = i)
  BY <1>4
<1>7. \A i \in 1..n : i = 1 \/ (i - 1 \in 1..(n - 1) /\ verdicts'[i - 1] = verdicts[i])
  <2>1. SUFFICES ASSUME NEW i \in 1..n, i # 1
                 PROVE  i - 1 \in 1..(n - 1) /\ verdicts'[i - 1] = verdicts[i]
    OBVIOUS
  <2>2. i - 1 \in 1..(n - 1) /\ (i - 1) + 1 = i
    BY <1>6, <2>1
  <2>3. verdicts'[i - 1] = verdicts[(i - 1) + 1]
    BY <1>4, <2>2
  <2>4. QED
    BY <2>2, <2>3
<1>8. /\ v.gw \in Gateways /\ v.at \in Nat /\ v.copy \in BOOLEAN
      /\ v.at <= clock /\ clock <= v.at + lag
      /\ ~v.copy => v.at <= said[v.gw]
  BY <1>1, <1>5, Types DEF PendInv
<1>9. ASSUME NEW g \in Gateways, g # v.gw
      PROVE  (Original(g) => Original(g)') /\ (Pending(g) => Pending(g)')
  <2>1. \A i \in DOMAIN verdicts : verdicts[i].gw = g =>
          i - 1 \in DOMAIN verdicts' /\ verdicts'[i - 1] = verdicts[i]
    BY <1>5, <1>7, <1>9
  <2>2. QED
    BY <2>1 DEF Original, Pending
<1>10. K' = K
  BY <1>2 DEF K, TicksPerSecondAtMost
<1>11. PendInv'
  <2>1. \A i \in DOMAIN verdicts' : i + 1 \in DOMAIN verdicts /\ verdicts'[i] = verdicts[i + 1]
    BY <1>4, <1>5
  <2>2. QED
    BY <1>1, <1>2, <1>10, <2>1 DEF PendInv
<1>12. NoCopies'
  <2>1. \A i \in DOMAIN verdicts' : i + 1 \in DOMAIN verdicts /\ verdicts'[i] = verdicts[i + 1]
    BY <1>4, <1>5
  <2>2. QED
    BY <1>1, <1>2, <2>1 DEF NoCopies
<1>13. news' \subseteq Gateways /\ news \subseteq news' /\ (~v.copy => v.gw \in news')
  BY <1>2, <1>3, <1>4, <1>8
<1>14. QED
  BY <1>2, <1>4, <1>8, <1>9, <1>10, <1>11, <1>12, <1>13 DEF M

(* The monitor hears a verdict: the gateway is armed, with the ticks that the
   monitor has counted so far. *)
LEMMA FeedStep ==
  ASSUME IInv, FeedVerdict
  PROVE  IInv'
<1> DEFINE v == verdicts[1]
           h == v.gw
<1>1. /\ TypeInv /\ PendInv /\ AgainInv /\ AgeInv /\ ArmedInv /\ NoCopies /\ TickInv /\ DueInv
  BY DEF IInv
<1>2. /\ v.gw \in Gateways /\ v.at \in Nat /\ v.copy \in BOOLEAN
      /\ v.at <= clock /\ clock <= v.at + lag
      /\ ~v.copy => v.at <= said[v.gw]
      /\ verdicts' \in Seq([gw : Gateways, at : 1..MaxSeconds, copy : BOOLEAN])
      /\ \A g \in Gateways : g # v.gw => /\ Original(g) => Original(g)'
                                         /\ Pending(g) => Pending(g)'
      /\ news' \subseteq Gateways /\ news \subseteq news'
      /\ ~v.copy => v.gw \in news'
      /\ PendInv' /\ NoCopies' /\ K' = K /\ Head(verdicts) = v
      /\ UNCHANGED <<clock, up, ticks, now, said, incident, tickSource, lag, again, ticked, extra,
                     redelivered, doubled, restarts>>
  <2>1. verdicts # <<>> /\ Deliver(Head(verdicts).gw)
    BY DEF FeedVerdict
  <2>2. QED
    BY <2>1, Delivered
<1> HIDE DEF v
<1>3. /\ ~Standalone /\ lastSeen' = [lastSeen EXCEPT ![h] = now]
      /\ armed' = [armed EXCEPT ![h] = TRUE]
  BY <1>2 DEF FeedVerdict
<1>4. /\ \A g \in Gateways : g # h => lastSeen'[g] = lastSeen[g] /\ armed'[g] = armed[g]
      /\ lastSeen'[h] = now /\ armed'[h] = TRUE
  BY <1>1, <1>2, <1>3, Types
<1>5. /\ clock \in Nat /\ lag \in Nat /\ now \in Nat /\ T \in Nat /\ K \in Nat
      /\ Len(ticks) \in Nat /\ Len(ticks) <= K * (lag + 1)
      /\ said[h] \in Nat /\ said[h] <= clock
      /\ Len(again) \in Nat /\ extra[h] \in Nat /\ Len(again) <= extra[h] /\ doubled \in Nat
  BY <1>1, <1>2, Types, FewTicks DEF AgainInv
<1> HIDE DEF h
<1>6. TypeInv'
  <2>1. lastSeen' \in [Gateways -> 0..now'] /\ armed' \in [Gateways -> BOOLEAN]
    <3>1. lastSeen \in [Gateways -> 0..now] /\ armed \in [Gateways -> BOOLEAN]
      BY <1>1, <1>3 DEF TypeInv, TypeOK
    <3>1a. now \in 0..now
      BY <1>5
    <3>2. QED
      BY <1>2, <1>3, <3>1, <3>1a
  <2>2. ~Standalone'
    BY <1>2, <1>3 DEF Standalone
  <2>3. QED
    BY <1>1, <1>2, <2>1, <2>2 DEF TypeInv, TypeOK
<1>7. AgeInv'
  <2>1. ASSUME NEW g \in Gateways, armed'[g], ~Original(g)'
        PROVE  now - lastSeen'[g] + Len(ticks) + Len(again)
                 <= K * (clock + lag + 1 - said[g]) + extra[g]
    <3>1. CASE g = h
      <4>1. lag + 1 \in Int /\ clock + lag + 1 - said[h] \in Int
            /\ lag + 1 <= clock + lag + 1 - said[h]
        BY <1>5
      <4>2. K * (lag + 1) <= K * (clock + lag + 1 - said[h])
        BY <1>5, <4>1, MoreSeconds
      <4>3. K * (lag + 1) \in Int /\ K * (clock + lag + 1 - said[h]) \in Int
        BY <1>5, <4>1
      <4>4. now - lastSeen'[g] + Len(ticks) + Len(again) = Len(ticks) + Len(again)
        BY <1>4, <1>5, <3>1
      <4>5. \A l, a, b, p, q \in Int : l <= a /\ a <= b /\ p <= q => l + p <= b + q
        OBVIOUS
      <4>6. Len(ticks) + Len(again) <= K * (clock + lag + 1 - said[h]) + extra[h]
        BY <1>5, <4>2, <4>3, <4>5
      <4>7. QED
        BY <3>1, <4>4, <4>6
    <3>2. CASE g # h
      <4>1. armed[g] /\ ~Original(g) /\ lastSeen'[g] = lastSeen[g]
        BY <1>2, <1>4, <2>1, <3>2 DEF h
      <4>2. QED
        BY <1>1, <1>3, <4>1 DEF AgeInv
    <3>3. QED
      BY <3>1, <3>2
  <2>2. QED
    BY <1>2, <1>3, <2>1 DEF AgeInv, Standalone
<1>8. ArmedInv'
  <2>1. redelivered = 0 => ~v.copy
    <3>1. 1 \in DOMAIN verdicts
      <4>1. verdicts \in Seq([gw : Gateways, at : 1..MaxSeconds, copy : BOOLEAN])
            /\ verdicts # <<>>
        BY <1>1 DEF TypeInv, TypeOK, FeedVerdict
      <4>2. QED
        BY <4>1
    <3>2. QED
      BY <1>1, <3>1 DEF NoCopies, v
  <2>2. now <= now + T
    BY <1>5
  <2>3. QED
    BY <1>1, <1>2, <1>4, <2>1, <2>2 DEF ArmedInv, h
<1>9. TickInv'
  BY <1>1, <1>2 DEF TickInv, Standalone
<1>10. DueInv'
  <2>1. ASSUME tickSource # "gateway", restarts = 0, redelivered = 0,
               NEW g \in Gateways, said[g] > 0, lag + extra[g] < T, incident[g] <= said[g]
        PROVE  \/ Pending(g)'
               \/ armed'[g] /\ lastSeen'[g] + 1 <= said[g] + lag + (doubled - Len(again))
    <3>1. CASE g = h
      <4>1. tickSource = "backend"
        BY <1>1, <1>3, <2>1 DEF TypeInv, TypeOK, TickSources, Standalone
      <4>2. now + Len(ticks) + Len(again) + 1 = clock + doubled
        BY <1>1, <2>1, <4>1 DEF TickInv
      <4>3. v.at <= said[h]
        <5>1. ~v.copy
          <6>1. 1 \in DOMAIN verdicts
            <7>1. verdicts \in Seq([gw : Gateways, at : 1..MaxSeconds, copy : BOOLEAN])
                  /\ verdicts # <<>>
              BY <1>1 DEF TypeInv, TypeOK, FeedVerdict
            <7>2. QED
              BY <7>1
          <6>2. QED
            BY <1>1, <2>1, <6>1 DEF NoCopies, v
        <5>2. QED
          BY <1>2, <5>1 DEF h
      <4>4. now + 1 <= said[h] + lag + (doubled - Len(again))
        <5> DEFINE p == Len(ticks)
                   q == Len(again)
                   w == said[h]
                   a == v.at
        <5>1. /\ now + p + q + 1 = clock + doubled /\ a <= w /\ clock <= a + lag
              /\ now \in Nat /\ p \in Nat /\ q \in Nat /\ w \in Nat /\ a \in Nat
              /\ clock \in Nat /\ doubled \in Nat /\ lag \in Nat
          BY <1>2, <1>5, <4>2, <4>3
        <5> HIDE DEF p, q, w, a
        <5>2. now + 1 <= w + lag + (doubled - q)
          BY <5>1
        <5>3. QED
          BY <5>2 DEF w, q
      <4>5. QED
        BY <1>4, <3>1, <4>4
    <3>2. CASE g # h
      <4>1. \/ Pending(g)
            \/ armed[g] /\ lastSeen[g] + 1 <= said[g] + lag + (doubled - Len(again))
        BY <1>1, <1>3, <2>1 DEF DueInv
      <4>2. QED
        BY <1>2, <1>4, <3>2, <4>1 DEF h
    <3>3. QED
      BY <3>1, <3>2
  <2>2. QED
    BY <1>2, <1>3, <2>1 DEF DueInv, Standalone
<1>11. AgainInv'
  BY <1>1, <1>2 DEF AgainInv, Standalone
<1>12. QED
  BY <1>2, <1>6, <1>7, <1>8, <1>9, <1>10, <1>11 DEF IInv

(* gw_silence.py hears a verdict: the gateway is armed, with the time. *)
LEMMA HearStep ==
  ASSUME IInv, Hear
  PROVE  IInv'
<1> DEFINE v == verdicts[1]
           h == v.gw
<1>1. /\ TypeInv /\ PendInv /\ AgainInv /\ AgeInv /\ ArmedInv /\ NoCopies /\ TickInv /\ DueInv
  BY DEF IInv
<1>2. /\ v.gw \in Gateways /\ v.at \in Nat /\ v.copy \in BOOLEAN
      /\ v.at <= clock /\ clock <= v.at + lag
      /\ ~v.copy => v.at <= said[v.gw]
      /\ verdicts' \in Seq([gw : Gateways, at : 1..MaxSeconds, copy : BOOLEAN])
      /\ \A g \in Gateways : g # v.gw => /\ Original(g) => Original(g)'
                                         /\ Pending(g) => Pending(g)'
      /\ news' \subseteq Gateways /\ news \subseteq news'
      /\ ~v.copy => v.gw \in news'
      /\ PendInv' /\ NoCopies' /\ K' = K /\ Head(verdicts) = v
      /\ UNCHANGED <<clock, up, ticks, now, said, incident, tickSource, lag, again, ticked, extra,
                     redelivered, doubled, restarts>>
  <2>1. verdicts # <<>> /\ Deliver(Head(verdicts).gw)
    BY DEF Hear
  <2>2. QED
    BY <2>1, Delivered
<1>3. redelivered = 0 => ~v.copy
  <2>1. verdicts \in Seq([gw : Gateways, at : 1..MaxSeconds, copy : BOOLEAN]) /\ verdicts # <<>>
    BY <1>1 DEF TypeInv, TypeOK, Hear
  <2>2. 1 \in DOMAIN verdicts
    BY <2>1
  <2>3. QED
    BY <1>1, <2>2 DEF NoCopies
<1> HIDE DEF v
<1>4. /\ Standalone /\ lastSeen' = [lastSeen EXCEPT ![h] = clock]
      /\ armed' = [armed EXCEPT ![h] = TRUE]
  BY <1>2 DEF Hear
<1>5. /\ \A g \in Gateways : g # h => lastSeen'[g] = lastSeen[g] /\ armed'[g] = armed[g]
      /\ lastSeen'[h] = clock /\ armed'[h] = TRUE
  BY <1>1, <1>2, <1>4, Types
<1>6. /\ clock \in Nat /\ lag \in Nat /\ now \in Nat /\ T \in Nat
      /\ said[h] \in Nat /\ said[h] <= clock
  BY <1>1, <1>2, Types
<1> HIDE DEF h
<1>7. TypeInv'
  <2>1. lastSeen' \in [Gateways -> 0..clock'] /\ armed' \in [Gateways -> BOOLEAN]
    <3>1. lastSeen \in [Gateways -> 0..clock] /\ armed \in [Gateways -> BOOLEAN] /\ clock \in 0..clock
      BY <1>1, <1>4, <1>6 DEF TypeInv, TypeOK
    <3>2. QED
      BY <1>2, <1>4, <3>1
  <2>2. Standalone'
    BY <1>2, <1>4 DEF Standalone
  <2>3. QED
    BY <1>1, <1>2, <2>1, <2>2 DEF TypeInv, TypeOK
<1>8. AgeInv'
  <2>1. ASSUME NEW g \in Gateways, armed'[g], ~Original(g)'
        PROVE  said[g] <= lastSeen'[g]
    <3>1. CASE g = h
      BY <1>5, <1>6, <3>1
    <3>2. CASE g # h
      BY <1>1, <1>2, <1>4, <1>5, <2>1, <3>2 DEF AgeInv, h
    <3>3. QED
      BY <3>1, <3>2
  <2>2. QED
    BY <1>2, <1>4, <2>1 DEF AgeInv, Standalone
<1>9. ArmedInv'
  <2>1. now <= clock + T
    BY <1>1, <1>4, <1>6 DEF TickInv
  <2>2. QED
    BY <1>1, <1>2, <1>3, <1>5, <2>1 DEF ArmedInv, h
<1>10. TickInv'
  BY <1>1, <1>2 DEF TickInv, Standalone
<1>11. DueInv'
  <2>1. ASSUME tickSource # "gateway", restarts = 0, redelivered = 0,
               NEW g \in Gateways, said[g] > 0, lag + extra[g] < T, incident[g] <= said[g]
        PROVE  \/ Pending(g)'
               \/ armed'[g] /\ lastSeen'[g] <= said[g] + lag + (doubled - Len(again))
    <3>1. CASE g = h
      <4>1. v.at <= said[h]
        BY <1>2, <1>3, <2>1 DEF h
      <4>2. clock <= said[h] + lag
        BY <1>2, <1>6, <4>1
      <4>3. Len(again) \in Nat /\ doubled \in Nat /\ Len(again) <= doubled
        BY <1>1, Types DEF AgainInv
      <4>4. clock <= said[h] + lag + (doubled - Len(again))
        BY <1>6, <4>2, <4>3
      <4>5. QED
        BY <1>5, <3>1, <4>4
    <3>2. CASE g # h
      <4>1. lastSeen[g] \in Nat
        BY <1>1, Types
      <4>2. \/ Pending(g)
            \/ armed[g] /\ lastSeen[g] <= said[g] + lag + (doubled - Len(again))
        BY <1>1, <1>4, <2>1, <4>1 DEF DueInv
      <4>3. QED
        BY <1>2, <1>5, <3>2, <4>2 DEF h
    <3>3. QED
      BY <3>1, <3>2
  <2>2. \A g \in Gateways : lastSeen'[g] \in Nat
    <3>1. \A g \in Gateways : lastSeen[g] \in Nat
      BY <1>1, Types
    <3>2. QED
      BY <1>5, <1>6, <3>1
  <2>3. \A g \in Gateways : lastSeen'[g] + 0 = lastSeen'[g]
    BY <2>2
  <2>4. QED
    BY <1>2, <1>4, <2>1, <2>3 DEF DueInv, Standalone
<1>12. AgainInv'
  BY <1>1, <1>2 DEF AgainInv, Standalone
<1>13. QED
  BY <1>2, <1>7, <1>8, <1>9, <1>10, <1>11, <1>12 DEF IInv

(* What a report changes: the gateways of S have an incident and no news. *)
LEMMA Reported ==
  ASSUME TypeInv, NEW S \in SUBSET Gateways, Report(S), clock' = clock,
         armed' = [g \in Gateways |-> armed[g] /\ g \notin S]
  PROVE  /\ incident' \in [Gateways -> 0..clock'] /\ news' \subseteq Gateways
         /\ armed' \in [Gateways -> BOOLEAN]
         /\ \A g \in Gateways :
              /\ armed'[g] <=> armed[g] /\ g \notin S
              /\ g \in S => incident'[g] = clock
              /\ g \notin S => incident'[g] = incident[g] /\ (g \in news => g \in news')
<1>1. /\ incident' = [g \in Gateways |-> IF g \in S THEN clock ELSE incident[g]]
      /\ news' = news \ S
  BY DEF Report
<1>2. clock \in 0..clock /\ incident \in [Gateways -> 0..clock] /\ news \subseteq Gateways
  BY Types DEF TypeInv, TypeOK
<1>3. \A g \in Gateways : armed[g] \in BOOLEAN
  BY Types
<1>4. QED
  BY <1>1, <1>2, <1>3

(* A tick is counted: the gateways that it makes overdue are reported. *)
LEMMA TickStep ==
  ASSUME IInv, OnTick
  PROVE  IInv'
<1> DEFINE S == {g \in Gateways : Silent(g)}
           n == Len(ticks)
<1>1. /\ TypeInv /\ PendInv /\ AgainInv /\ AgeInv /\ ArmedInv /\ NoCopies /\ TickInv /\ DueInv
  BY DEF IInv
<1>2. /\ ~Standalone /\ now' = now + 1 /\ ticked' = TRUE
      /\ armed' = [g \in Gateways |-> armed[g] /\ g \notin S] /\ Report(S)
      /\ UNCHANGED <<clock, up, verdicts, lastSeen, said, tickSource, lag, extra, redelivered,
                     doubled, restarts>>
  BY DEF OnTick, NextTick, rest, host, copies
<1>3. /\ ticks' \in Seq(2..MaxSeconds) /\ again' \in Seq(1..MaxSeconds)
      /\ Len(ticks') \in Nat /\ Len(again') \in Nat /\ n \in Nat
      /\ Len(ticks') + Len(again') + 1 = n + Len(again) /\ Len(again') <= Len(again)
      /\ \E d \in {0, 1} : /\ Len(ticks') = n - d
                          /\ \A i \in 1..(n - d) : ticks'[i] = ticks[i + d] /\ i + d \in 1..n
  <2>1. ticks \in Seq(2..MaxSeconds) /\ again \in Seq(1..MaxSeconds)
    BY <1>1 DEF TypeInv, TypeOK
  <2>2. n \in Nat /\ Len(again) \in Nat
    BY <2>1
  <2>3. CASE ticks # <<>> /\ ticks' = Tail(ticks) /\ again' = again
    <3>1. /\ ticks' \in Seq(2..MaxSeconds) /\ n >= 1 /\ Len(ticks') = n - 1
          /\ \A i \in 1..(n - 1) : ticks'[i] = ticks[i + 1] /\ i + 1 \in 1..n
      BY <2>1, <2>3, TailFacts
    <3>2. /\ Len(ticks') \in Nat /\ Len(again') \in Nat /\ again' \in Seq(1..MaxSeconds)
          /\ Len(again') = Len(again)
      BY <2>1, <2>2, <2>3, <3>1
    <3>3. Len(ticks') + Len(again') + 1 = n + Len(again) /\ Len(again') <= Len(again)
      BY <2>2, <3>1, <3>2
    <3>4. QED
      BY <2>2, <3>1, <3>2, <3>3
  <2>4. CASE again # <<>> /\ again' = Tail(again) /\ ticks' = ticks
    <3>1. again' \in Seq(1..MaxSeconds) /\ Len(again) >= 1 /\ Len(again') = Len(again) - 1
      BY <2>1, <2>4, TailFacts
    <3>2. Len(ticks') = n - 0
      BY <2>2, <2>4
    <3>3. \A i \in 1..(n - 0) : ticks'[i] = ticks[i + 0] /\ i + 0 \in 1..n
      BY <2>2, <2>4
    <3>4. /\ ticks' \in Seq(2..MaxSeconds) /\ Len(ticks') \in Nat /\ Len(again') \in Nat
          /\ Len(ticks') + Len(again') + 1 = n + Len(again) /\ Len(again') <= Len(again)
      BY <2>1, <2>2, <2>4, <3>1
    <3>5. QED
      BY <2>2, <3>1, <3>2, <3>3, <3>4
  <2>5. QED
    BY <2>3, <2>4 DEF OnTick, NextTick
<1>4. DOMAIN ticks = 1..n /\ DOMAIN ticks' = 1..Len(ticks')
  BY <1>1, <1>3, Types
<1>5. S \subseteq Gateways /\ \A g \in Gateways : g \in S <=> armed[g] /\ now + 1 - lastSeen[g] > T
  <2>1. now' = now + 1
    BY <1>2
  <2>2. \A g \in Gateways : Silent(g) <=> armed[g] /\ now' - lastSeen[g] > T
    BY DEF Silent
  <2>3. S \subseteq Gateways /\ \A g \in Gateways : g \in S <=> Silent(g)
    OBVIOUS
  <2> HIDE DEF S
  <2>4. \A g \in Gateways : g \in S <=> armed[g] /\ now' - lastSeen[g] > T
    BY <2>2, <2>3
  <2>5. now \in Nat /\ T \in Nat /\ \A g \in Gateways : lastSeen[g] \in Nat
    BY <1>1, Types
  <2>6. QED
    BY <2>1, <2>3, <2>4, <2>5
<1> HIDE DEF S
<1>6. /\ incident' \in [Gateways -> 0..clock'] /\ news' \subseteq Gateways
      /\ armed' \in [Gateways -> BOOLEAN]
      /\ \A g \in Gateways :
           /\ armed'[g] <=> armed[g] /\ g \notin S
           /\ g \in S => incident'[g] = clock
           /\ g \notin S => incident'[g] = incident[g] /\ (g \in news => g \in news')
  BY <1>1, <1>2, <1>5, Reported
<1>7. /\ clock \in Nat /\ now \in Nat /\ lag \in Nat /\ T \in Nat /\ K \in Nat
      /\ \A g \in Gateways : /\ said[g] \in Nat /\ said[g] <= clock /\ lastSeen[g] \in Nat
                             /\ extra[g] \in Nat
      /\ Len(again) \in Nat /\ doubled \in Nat
  BY <1>1, Types
<1>8. K' = K
  BY <1>2 DEF K, TicksPerSecondAtMost
<1> HIDE DEF n
<1>9. TypeInv'
  <2>1. lastSeen' \in [Gateways -> 0..now'] /\ now' \in Nat
    <3>1. lastSeen \in [Gateways -> 0..now] /\ 0..now \subseteq 0..now' /\ now' \in Nat
      BY <1>1, <1>2, <1>7 DEF TypeInv, TypeOK
    <3>2. QED
      BY <1>2, <3>1
  <2>2. ~Standalone'
    BY <1>2 DEF Standalone
  <2>3. QED
    BY <1>1, <1>2, <1>3, <1>6, <2>1, <2>2 DEF TypeInv, TypeOK
<1>10. PendInv'
  <2>1. ASSUME NEW i \in DOMAIN ticks'
        PROVE  /\ ticks'[i] <= clock /\ clock <= ticks'[i] + lag
               /\ Len(ticks') - i < K * (clock - ticks'[i] + 1)
    <3>1. PICK d \in {0, 1} : /\ Len(ticks') = n - d
                             /\ \A k \in 1..(n - d) : ticks'[k] = ticks[k + d] /\ k + d \in 1..n
      BY <1>3
    <3>2. i \in 1..(n - d) /\ ticks'[i] = ticks[i + d] /\ i + d \in DOMAIN ticks
      BY <1>4, <3>1
    <3>3. /\ ticks[i + d] <= clock /\ clock <= ticks[i + d] + lag
          /\ n - (i + d) < K * (clock - ticks[i + d] + 1)
      BY <1>1, <3>2 DEF PendInv, n
    <3>4. Len(ticks') - i = n - (i + d)
      <4>1. i \in Int /\ d \in Int /\ n \in Int /\ Len(ticks') = n - d
        BY <1>3, <3>1, <3>2
      <4>2. QED
        BY <4>1
    <3> DEFINE t == ticks[i + d]
               l == K * (clock - t + 1)
    <3>5. ticks'[i] = t /\ t <= clock /\ clock <= t + lag /\ n - (i + d) < l
      BY <3>2, <3>3
    <3>6. l = K * (clock - ticks'[i] + 1)
      BY <3>5
    <3> HIDE DEF t, l
    <3>7. QED
      BY <3>4, <3>5, <3>6
  <2>2. QED
    BY <1>1, <1>2, <1>8, <2>1 DEF PendInv
<1>11. AgeInv'
  <2>1. ASSUME NEW g \in Gateways, armed'[g], ~Original(g)
        PROVE  now' - lastSeen[g] + Len(ticks') + Len(again')
                 <= K * (clock + lag + 1 - said[g]) + extra[g]
    <3>1. now - lastSeen[g] + n + Len(again) <= K * (clock + lag + 1 - said[g]) + extra[g]
      BY <1>1, <1>2, <1>6, <2>1 DEF AgeInv, n
    <3>2. now' - lastSeen[g] + Len(ticks') + Len(again') = now - lastSeen[g] + n + Len(again)
      <4> DEFINE a == lastSeen[g]
                 p == Len(ticks')
                 q == Len(again')
                 r == Len(again)
      <4>1. a \in Nat /\ p + q + 1 = n + r /\ n \in Nat /\ now \in Nat /\ now' = now + 1
            /\ p \in Nat /\ q \in Nat /\ r \in Nat
        BY <1>2, <1>3, <1>7
      <4> HIDE DEF a, p, q, r
      <4>2. now' - a + p + q = now - a + n + r
        BY <4>1
      <4>3. QED
        BY <4>2 DEF a, p, q, r
    <3>3. QED
      BY <3>1, <3>2
  <2>2. QED
    BY <1>2, <1>8, <2>1 DEF AgeInv, Original, Standalone
<1>12. ArmedInv'
  <2>1. ASSUME NEW g \in Gateways, armed'[g]
        PROVE  now' <= lastSeen[g] + T /\ (redelivered = 0 => g \in news')
    <3>1. armed[g] /\ g \notin S
      BY <1>6, <2>1
    <3>2. ~(now + 1 - lastSeen[g] > T)
      BY <1>5, <3>1
    <3>3. now' <= lastSeen[g] + T
      BY <1>2, <1>7, <3>2
    <3>4. redelivered = 0 => g \in news'
      BY <1>1, <1>6, <3>1 DEF ArmedInv
    <3>5. QED
      BY <3>3, <3>4
  <2>2. QED
    BY <1>2, <2>1 DEF ArmedInv
<1>13. NoCopies'
  BY <1>1, <1>2 DEF NoCopies
<1>14. TickInv'
  <2>1. ASSUME tickSource = "backend", restarts = 0
        PROVE  now' + Len(ticks') + Len(again') + 1 = clock + doubled
    <3>1. now + n + Len(again) + 1 = clock + doubled
      BY <1>1, <2>1 DEF TickInv, n
    <3>2. QED
      BY <1>2, <1>3, <1>7, <3>1
  <2>2. ~Standalone'
    BY <1>2 DEF Standalone
  <2>3. QED
    BY <1>2, <2>1, <2>2 DEF TickInv
<1>15. DueInv'
  <2>1. ASSUME tickSource # "gateway", restarts = 0, redelivered = 0,
               NEW g \in Gateways, said[g] > 0, lag + extra[g] < T, incident'[g] <= said[g]
        PROVE  \/ Pending(g)
               \/ armed'[g] /\ lastSeen[g] + 1 <= said[g] + lag + (doubled - Len(again'))
    <3>1. CASE g \in S
      <4>1. SUFFICES ASSUME ~Pending(g) PROVE FALSE
        OBVIOUS
      <4>2. said[g] = clock /\ ~Original(g)
        BY <1>6, <1>7, <2>1, <3>1, <4>1 DEF Original, Pending
      <4>3. K = 1
        BY <1>1, <2>1, TickRate
      <4>4. now - lastSeen[g] + n + Len(again) <= K * (clock + lag + 1 - said[g]) + extra[g]
        BY <1>1, <1>2, <1>5, <3>1, <4>2 DEF AgeInv, n
      <4>5. K * (clock + lag + 1 - said[g]) = lag + 1
        BY <1>7, <4>2, <4>3
      <4>6. now - lastSeen[g] + n + Len(again) <= lag + 1 + extra[g]
        BY <4>4, <4>5
      <4>7. now + 1 - lastSeen[g] > T
        BY <1>5, <3>1
      <4>8. n + Len(again) >= 1
        BY <1>3, <1>7
      <4> DEFINE l == lastSeen[g]
                 q == Len(again)
                 e == extra[g]
      <4>9. /\ now - l + n + q <= lag + 1 + e /\ now + 1 - l > T /\ n + q >= 1 /\ lag + e < T
            /\ now \in Nat /\ l \in Nat /\ q \in Nat /\ e \in Nat /\ n \in Nat /\ lag \in Nat
            /\ T \in Nat
        BY <1>3, <1>7, <2>1, <4>6, <4>7, <4>8
      <4> HIDE DEF l, q, e
      <4>10. QED
        BY <4>9
    <3>2. CASE g \notin S
      <4>1. \/ Pending(g)
            \/ armed'[g] /\ lastSeen[g] + 1 <= said[g] + lag + (doubled - Len(again))
        BY <1>1, <1>2, <1>6, <2>1, <3>2 DEF DueInv
      <4>2. lastSeen[g] + 1 <= said[g] + lag + (doubled - Len(again)) =>
              lastSeen[g] + 1 <= said[g] + lag + (doubled - Len(again'))
        <5> DEFINE l == lastSeen[g]
                   q == Len(again)
                   q1 == Len(again')
                   w == said[g]
        <5>1. /\ l \in Nat /\ q \in Nat /\ q1 \in Nat /\ q1 <= q /\ w \in Nat /\ lag \in Nat
              /\ doubled \in Nat
          BY <1>3, <1>7
        <5> HIDE DEF l, q, q1, w
        <5>2. l + 1 <= w + lag + (doubled - q) => l + 1 <= w + lag + (doubled - q1)
          BY <5>1
        <5>3. QED
          BY <5>2 DEF l, q, q1, w
      <4>3. QED
        BY <4>1, <4>2
    <3>3. QED
      BY <3>1, <3>2
  <2>2. QED
    BY <1>2, <2>1 DEF DueInv, Pending, Standalone
<1>16. AgainInv'
  <2>1. /\ \A g \in Gateways : Len(again) <= extra[g] /\ extra[g] \in Nat
        /\ Len(again) <= doubled
    BY <1>1, <1>7 DEF AgainInv
  <2>2. /\ \A g \in Gateways : Len(again') <= extra[g]
        /\ Len(again') <= doubled
    BY <1>3, <1>7, <2>1
  <2>3. QED
    BY <1>2, <2>2 DEF AgainInv, Standalone
<1>17. QED
  BY <1>9, <1>10, <1>11, <1>12, <1>13, <1>14, <1>15, <1>16 DEF IInv

(* gw_silence.py looks at every gateway: those overdue are reported. *)
LEMMA LookStep ==
  ASSUME IInv, Look
  PROVE  IInv'
<1> DEFINE S == {g \in Gateways : Silent(g)}
<1>1. /\ TypeInv /\ PendInv /\ AgainInv /\ AgeInv /\ ArmedInv /\ NoCopies /\ TickInv /\ DueInv
  BY DEF IInv
<1>2. /\ Standalone /\ now' = clock /\ ticks' = <<>>
      /\ armed' = [g \in Gateways |-> armed[g] /\ g \notin S] /\ Report(S)
      /\ UNCHANGED <<clock, up, verdicts, lastSeen, said, tickSource, lag, again, ticked, extra,
                     redelivered, doubled, restarts>>
  BY DEF Look, rest, host, copies
<1>3. /\ clock \in Nat /\ now \in Nat /\ lag \in Nat /\ T \in Nat /\ T >= 1
      /\ \A g \in Gateways : said[g] \in Nat /\ said[g] <= clock /\ lastSeen[g] \in Nat
  BY <1>1, Types
<1>4. S \subseteq Gateways /\ \A g \in Gateways : g \in S <=> armed[g] /\ clock - lastSeen[g] > T
  <2>1. \A g \in Gateways : Silent(g) <=> armed[g] /\ now' - lastSeen[g] > T
    BY DEF Silent
  <2>2. S \subseteq Gateways /\ \A g \in Gateways : g \in S <=> Silent(g)
    OBVIOUS
  <2> HIDE DEF S
  <2>3. \A g \in Gateways : g \in S <=> armed[g] /\ now' - lastSeen[g] > T
    BY <2>1, <2>2
  <2>4. QED
    BY <1>2, <1>3, <2>2, <2>3
<1> HIDE DEF S
<1>5. /\ incident' \in [Gateways -> 0..clock'] /\ news' \subseteq Gateways
      /\ armed' \in [Gateways -> BOOLEAN]
      /\ \A g \in Gateways :
           /\ armed'[g] <=> armed[g] /\ g \notin S
           /\ g \in S => incident'[g] = clock
           /\ g \notin S => incident'[g] = incident[g] /\ (g \in news => g \in news')
  BY <1>1, <1>2, <1>4, Reported
<1>6. K' = K
  BY <1>2 DEF K, TicksPerSecondAtMost
<1>7. Standalone'
  BY <1>2 DEF Standalone
<1>8. ticks' \in Seq(2..MaxSeconds) /\ Len(ticks') = 0 /\ DOMAIN ticks' = {}
  BY <1>2
<1>9. TypeInv'
  <2>1. lastSeen' \in [Gateways -> 0..clock'] /\ now' \in Nat
    BY <1>1, <1>2, <1>3 DEF TypeInv, TypeOK
  <2>2. QED
    BY <1>1, <1>2, <1>5, <1>7, <1>8, <2>1 DEF TypeInv, TypeOK
<1>10. PendInv'
  BY <1>1, <1>2, <1>8 DEF PendInv
<1>11. AgeInv'
  BY <1>1, <1>2, <1>5, <1>7 DEF AgeInv, Original
<1>12. ArmedInv'
  <2>1. ASSUME NEW g \in Gateways, armed'[g]
        PROVE  now' <= lastSeen[g] + T /\ (redelivered = 0 => g \in news')
    <3>1. armed[g] /\ g \notin S
      BY <1>5, <2>1
    <3>2. ~(clock - lastSeen[g] > T)
      BY <1>4, <3>1
    <3>3. now' <= lastSeen[g] + T
      BY <1>2, <1>3, <3>2
    <3>4. redelivered = 0 => g \in news'
      BY <1>1, <1>5, <3>1 DEF ArmedInv
    <3>5. QED
      BY <3>3, <3>4
  <2>2. QED
    BY <1>2, <2>1 DEF ArmedInv
<1>13. NoCopies'
  BY <1>1, <1>2 DEF NoCopies
<1>14. TickInv'
  <2>1. tickSource' # "backend"
    BY <1>2 DEF Standalone
  <2>2. now' <= clock' /\ now' + Len(ticks') = clock'
    BY <1>2, <1>3, <1>8
  <2>3. QED
    BY <2>1, <2>2 DEF TickInv
<1>15. DueInv'
  <2>1. ASSUME tickSource # "gateway", restarts = 0, redelivered = 0,
               NEW g \in Gateways, said[g] > 0, lag + extra[g] < T, incident'[g] <= said[g]
        PROVE  \/ Pending(g)
               \/ armed'[g] /\ lastSeen[g] + 0 <= said[g] + lag + (doubled - Len(again))
    <3>1. CASE g \in S
      <4>1. SUFFICES ASSUME ~Pending(g) PROVE FALSE
        OBVIOUS
      <4>2. said[g] = clock /\ ~Original(g)
        BY <1>3, <1>5, <2>1, <3>1, <4>1 DEF Original, Pending
      <4>3. said[g] <= lastSeen[g]
        BY <1>1, <1>2, <1>4, <3>1, <4>2 DEF AgeInv
      <4>4. clock - lastSeen[g] > T
        BY <1>4, <3>1
      <4>5. QED
        BY <1>3, <4>2, <4>3, <4>4
    <3>2. CASE g \notin S
      BY <1>1, <1>2, <1>5, <2>1, <3>2 DEF DueInv
    <3>3. QED
      BY <3>1, <3>2
  <2>2. QED
    BY <1>2, <1>7, <2>1 DEF DueInv, Pending
<1>16. AgainInv'
  BY <1>1, <1>2, <1>7 DEF AgainInv
<1>17. QED
  BY <1>9, <1>10, <1>11, <1>12, <1>13, <1>14, <1>15, <1>16 DEF IInv
-----------------------------------------------------------------------------
(* Nothing changes. *)
LEMMA RestStep ==
  ASSUME IInv, UNCHANGED vars
  PROVE  IInv'
<1>1. UNCHANGED <<clock, up, verdicts, ticks, now, lastSeen, armed, said, news, incident,
                  tickSource, lag, again, ticked, extra,
                     redelivered, doubled, restarts>>
  BY DEF vars, monitor, rest, host, copies
<1>2. K' = K
  BY <1>1 DEF K, TicksPerSecondAtMost
<1>3. TypeInv' /\ PendInv'
  BY <1>1, <1>2 DEF IInv, TypeInv, TypeOK, PendInv, Standalone
<1>4. AgainInv' /\ AgeInv' /\ ArmedInv' /\ NoCopies' /\ TickInv' /\ DueInv'
  BY <1>1, <1>2 DEF IInv, AgainInv, AgeInv, ArmedInv, NoCopies, TickInv, DueInv, Standalone, Original,
                    Pending
<1>5. QED
  BY <1>3, <1>4 DEF IInv

(* At the start nothing is pending and no gateway is armed. *)
LEMMA InitHolds ==
  ASSUME Init
  PROVE  IInv /\ SilenceIsReal
<1>1. /\ tickSource \in TickSources /\ lag \in 0..MaxLag /\ clock = 1 /\ up \subseteq Gateways
      /\ verdicts = <<>> /\ ticks = <<>> /\ now = 0 /\ news = {}
      /\ lastSeen = [g \in Gateways |-> 0] /\ armed = [g \in Gateways |-> FALSE]
      /\ said = [g \in Gateways |-> 0] /\ incident = [g \in Gateways |-> 0]
      /\ redelivered = 0 /\ restarts = 0 /\ doubled = 0
      /\ again = <<>> /\ ticked = FALSE /\ extra = [g \in Gateways |-> 0]
  BY DEF Init, Fresh
<1>2. DOMAIN verdicts = {} /\ DOMAIN ticks = {} /\ Len(ticks) = 0 /\ Len(again) = 0
  BY <1>1
<1>3. TypeInv
  <2>1. /\ clock \in 1..MaxSeconds /\ now \in Nat /\ redelivered \in Nat /\ restarts \in Nat
        /\ 0 \in 0..clock /\ doubled \in Nat /\ 0 \in 0..doubled
    BY <1>1, SilenceAssumption
  <2>2. /\ verdicts \in Seq([gw : Gateways, at : 1..MaxSeconds, copy : BOOLEAN])
        /\ ticks \in Seq(2..MaxSeconds) /\ again \in Seq(1..MaxSeconds)
    BY <1>1
  <2>3. said \in [Gateways -> 0..clock] /\ incident \in [Gateways -> 0..clock]
        /\ armed \in [Gateways -> BOOLEAN]
    BY <1>1, <2>1
  <2>4. lastSeen \in [Gateways -> 0..(IF Standalone THEN clock ELSE now)]
    <3>1. 0 \in 0..(IF Standalone THEN clock ELSE now)
      BY <1>1
    <3>2. QED
      BY <1>1, <3>1
  <2>5. extra \in [Gateways -> 0..doubled] /\ ticked \in BOOLEAN
    BY <1>1, <2>1
  <2>6. QED
    BY <1>1, <2>1, <2>2, <2>3, <2>4, <2>5 DEF TypeInv, TypeOK
<1>4. PendInv /\ NoCopies /\ AgainInv
  BY <1>1, <1>2 DEF PendInv, NoCopies, AgainInv
<1>5. AgeInv /\ ArmedInv /\ DueInv
  BY <1>1 DEF AgeInv, ArmedInv, DueInv
<1>6. TickInv
  BY <1>1, <1>2 DEF TickInv, Standalone
<1>7. SilenceIsReal
  <2>1. lag \in Nat
    BY <1>1, SilenceAssumption
  <2>2. QED
    BY <1>1, <2>1 DEF SilenceIsReal
<1>8. QED
  BY <1>3, <1>4, <1>5, <1>6, <1>7 DEF IInv

(* Every step keeps the invariant. *)
LEMMA EveryStep ==
  ASSUME IInv, [Next]_vars
  PROVE  IInv'
BY SecondStep, PublishStep, RedeliverStep, RedeliverTickStep, DiesStep, RestartStep, FeedStep, HearStep, TickStep,
   LookStep, RestStep DEF Next, Quiet

(* What an incident says stays true: a verdict of the gateway only moves the
   end of the silence it is about, and a second delivery only allows for more. *)
LEMMA RealStep ==
  ASSUME IInv, SilenceIsReal, [Next]_vars
  PROVE  SilenceIsReal'
<1>0. /\ TypeInv /\ PendInv /\ AgeInv
  BY DEF IInv
<1>1. /\ clock \in Nat /\ now \in Nat /\ lag \in Nat /\ T \in Nat /\ K \in Nat
      /\ \A g \in Gateways : /\ said[g] \in Nat /\ said[g] <= clock /\ lastSeen[g] \in Nat
                             /\ incident[g] \in Nat /\ incident[g] <= clock /\ extra[g] \in Nat
  BY <1>0, Types
<1>2. ASSUME UNCHANGED <<said, incident, lag, tickSource, extra>>
      PROVE  SilenceIsReal'
  BY <1>2 DEF SilenceIsReal, TicksPerSecondAtMost
<1>3. ASSUME NEW h \in Gateways, Publish(h)
      PROVE  SilenceIsReal'
  <2>1. /\ said' = [said EXCEPT ![h] = clock] /\ extra' = [extra EXCEPT ![h] = Len(again)]
        /\ UNCHANGED <<incident, lag, tickSource>>
    BY <1>3 DEF Publish, rest, host
  <2>2. DOMAIN said = Gateways /\ DOMAIN extra = Gateways
    BY <1>0, Types
  <2>3. ASSUME NEW g \in Gateways, said'[g] + lag < incident[g]
        PROVE  TicksPerSecondAtMost * (incident[g] + lag - said'[g] + 1) + extra'[g] > T
    <3>1. g # h
      BY <1>1, <2>1, <2>2, <2>3
    <3>2. said'[g] = said[g] /\ extra'[g] = extra[g]
      BY <2>1, <2>2, <3>1
    <3>3. QED
      BY <2>3, <3>2 DEF SilenceIsReal
  <2>4. QED
    BY <2>1, <2>3 DEF SilenceIsReal, TicksPerSecondAtMost
<1>4. ASSUME NEW g \in Gateways, said[g] + lag < clock
      PROVE  ~Original(g)
  <2>1. SUFFICES ASSUME NEW i \in DOMAIN verdicts, verdicts[i].gw = g, ~verdicts[i].copy
                 PROVE  FALSE
    BY DEF Original
  <2>2. verdicts[i].at \in Nat /\ clock <= verdicts[i].at + lag /\ verdicts[i].at <= said[g]
    BY <1>0, <2>1, Types DEF PendInv
  <2>3. QED
    BY <1>1, <1>4, <2>2
<1>5. ASSUME NEW S \in SUBSET Gateways, Report(S),
             UNCHANGED <<said, clock, lag, tickSource, extra>>,
             \A g \in S : armed[g] /\ now' - lastSeen[g] > T,
             \/ Standalone /\ now' = clock
             \/ ~Standalone /\ now' = now + 1 /\ Len(ticks) + Len(again) >= 1
      PROVE  SilenceIsReal'
  <2>1. ASSUME NEW g \in Gateways, said[g] + lag < incident'[g]
        PROVE  K * (incident'[g] + lag - said[g] + 1) + extra[g] > T
    <3>1. CASE g \notin S
      <4>1. incident'[g] = incident[g]
        BY <1>5, <3>1 DEF Report
      <4>2. QED
        BY <2>1, <4>1 DEF SilenceIsReal, K
    <3>2. CASE g \in S
      <4>1. incident'[g] = clock
        BY <1>5, <3>2 DEF Report
      <4>2. ~Original(g) /\ armed[g]
        BY <1>4, <1>5, <2>1, <3>2, <4>1
      <4>3. CASE Standalone /\ now' = clock
        <5>1. K = 1
          BY <4>3 DEF K, TicksPerSecondAtMost, Standalone
        <5>2. said[g] <= lastSeen[g] /\ clock - lastSeen[g] > T
          BY <1>0, <1>5, <3>2, <4>2, <4>3 DEF AgeInv
        <5>3. clock + lag - said[g] + 1 > T
          BY <1>1, <5>2
        <5>4. K * (clock + lag - said[g] + 1) = clock + lag - said[g] + 1
          BY <1>1, <5>1
        <5>5. K * (clock + lag - said[g] + 1) + extra[g] > T
          BY <1>1, <5>3, <5>4
        <5>6. QED
          BY <4>1, <5>5
      <4>4. CASE ~Standalone /\ now' = now + 1 /\ Len(ticks) + Len(again) >= 1
        <5>1. now - lastSeen[g] + Len(ticks) + Len(again)
                <= K * (clock + lag + 1 - said[g]) + extra[g]
          BY <1>0, <4>2, <4>4 DEF AgeInv
        <5>2. clock + lag + 1 - said[g] = clock + lag - said[g] + 1
          BY <1>1
        <5>3. now + 1 - lastSeen[g] > T
          BY <1>1, <1>5, <3>2, <4>4
        <5>4. /\ Len(ticks) \in Nat /\ Len(again) \in Nat
              /\ K * (clock + lag - said[g] + 1) \in Int
          BY <1>0, <1>1, Types
        <5>5. \A a \in Int : now - lastSeen[g] + Len(ticks) + Len(again) <= a + extra[g] =>
                a + extra[g] > T
          <6>1. Len(ticks) \in Nat /\ Len(again) \in Nat /\ Len(ticks) + Len(again) >= 1
            BY <4>4, <5>4
          <6>2. now - lastSeen[g] + Len(ticks) + Len(again) > T
            BY <1>1, <5>3, <6>1
          <6>3. QED
            BY <1>1, <6>1, <6>2
        <5>6. QED
          BY <4>1, <5>1, <5>2, <5>4, <5>5
      <4>5. QED
        BY <1>5, <4>3, <4>4
    <3>3. QED
      BY <3>1, <3>2
  <2>2. K' = K
    BY <1>5 DEF K, TicksPerSecondAtMost
  <2>3. QED
    BY <1>5, <2>1, <2>2 DEF SilenceIsReal, K
<1>6. CASE OnTick
  <2> DEFINE S == {g \in Gateways : Silent(g)}
  <2>1. S \in SUBSET Gateways /\ \A g \in S : armed[g] /\ now' - lastSeen[g] > T
    BY DEF Silent
  <2>2. /\ Report(S) /\ UNCHANGED <<said, clock, lag, tickSource, extra>>
        /\ ~Standalone /\ now' = now + 1 /\ (ticks # <<>> \/ again # <<>>)
    BY <1>6 DEF OnTick, NextTick, rest, host, copies
  <2> HIDE DEF S
  <2>3. Len(ticks) + Len(again) >= 1
    <3>1. ticks \in Seq(2..MaxSeconds) /\ again \in Seq(1..MaxSeconds)
      BY <1>0 DEF TypeInv, TypeOK
    <3>2. Len(ticks) \in Nat /\ Len(again) \in Nat
      BY <1>0, Types
    <3>3. Len(ticks) >= 1 \/ Len(again) >= 1
      BY <2>2, <3>1, TailFacts
    <3>4. QED
      BY <3>2, <3>3
  <2>4. QED
    BY <1>5, <2>1, <2>2, <2>3
<1>7. CASE Look
  <2> DEFINE S == {g \in Gateways : Silent(g)}
  <2>1. S \in SUBSET Gateways /\ \A g \in S : armed[g] /\ now' - lastSeen[g] > T
    BY DEF Silent
  <2>2. /\ Report(S) /\ UNCHANGED <<said, clock, lag, tickSource, extra>> /\ Standalone
        /\ now' = clock
    BY <1>7 DEF Look, rest, host, copies
  <2> HIDE DEF S
  <2>3. QED
    BY <1>5, <2>1, <2>2
<1>8. CASE Second \/ FeedVerdict \/ BackendRestarts \/ Hear \/ UNCHANGED vars
           \/ \E g \in Gateways : GatewayDies(g) \/ Redeliver(g)
  <2>1. UNCHANGED <<said, incident, lag, tickSource, extra>>
    BY <1>8 DEF Second, FeedVerdict, BackendRestarts, Hear, GatewayDies, Redeliver, Deliver, vars,
                rest, host, copies
  <2>2. QED
    BY <1>2, <2>1
<1>9. CASE RedeliverTick
  <2>1. /\ extra' = [g \in Gateways |-> extra[g] + 1]
        /\ UNCHANGED <<said, incident, lag, tickSource>>
    BY <1>9 DEF RedeliverTick, host
  <2>2. K' = K
    BY <2>1 DEF K, TicksPerSecondAtMost
  <2>3. ASSUME NEW g \in Gateways, said[g] + lag < incident[g]
        PROVE  K * (incident[g] + lag - said[g] + 1) + extra'[g] > T
    <3>1. K * (incident[g] + lag - said[g] + 1) + extra[g] > T
      BY <2>3 DEF SilenceIsReal, K
    <3>2. K * (incident[g] + lag - said[g] + 1) \in Int /\ extra'[g] = extra[g] + 1
      BY <1>1, <2>1
    <3>3. \A a \in Int : a + extra[g] > T => a + (extra[g] + 1) > T
      BY <1>1
    <3>4. QED
      BY <3>1, <3>2, <3>3
  <2>4. QED
    BY <2>1, <2>2, <2>3 DEF SilenceIsReal, K
<1>10. QED
  BY <1>3, <1>6, <1>7, <1>8, <1>9 DEF Next, Quiet

(* A gateway that was heard at tick l, e ticks and a delay after its verdict in
   second s, is overdue by second c if only d + 1 ticks are still to be counted;
   x ticks were counted twice. *)
LEMMA Overdue ==
  ASSUME NEW s \in Nat, NEW l \in Nat, NEW n \in Nat, NEW p \in Nat, NEW e \in Nat,
         NEW d \in Nat, NEW t \in Nat, NEW c \in Nat, NEW x \in Nat,
         n + p + e = c + x, l + e <= s + d + x, p <= d + 1, c > s + t + 1 + 2 * d
  PROVE  n > l + t
  OBVIOUS

(* A silence of T + 1 ticks and the delays was reported: what was not is still
   to be heard or armed, and nothing is pending for so long. *)
LEMMA DueInTime ==
  ASSUME IInv
  PROVE  SilenceIsReported
<1>1. /\ TypeInv /\ PendInv /\ AgainInv /\ ArmedInv /\ NoCopies /\ TickInv /\ DueInv
  BY DEF IInv
<1>2. SUFFICES ASSUME tickSource # "gateway", restarts = 0, redelivered = 0,
                      NEW g \in Gateways, said[g] > 0, lag + extra[g] < T,
                      clock > said[g] + T + 1 + 2 * lag, ~(incident[g] > said[g])
               PROVE  FALSE
  BY DEF SilenceIsReported
<1> DEFINE x == doubled - Len(again)
<1>3. /\ clock \in Nat /\ now \in Nat /\ lag \in Nat /\ T \in Nat /\ T >= 1 /\ Len(ticks) \in Nat
      /\ said[g] \in Nat /\ incident[g] \in Nat /\ lastSeen[g] \in Nat
      /\ doubled \in Nat /\ Len(again) \in Nat /\ Len(again) <= doubled
  BY <1>1, Types DEF AgainInv
<1>4. Len(ticks) <= lag + 1
  <2>1. K = 1 /\ Len(ticks) <= K * (lag + 1)
    BY <1>1, <1>2, TickRate, FewTicks
  <2>2. QED
    BY <1>3, <2>1
<1>5. ~Pending(g)
  <2>1. SUFFICES ASSUME NEW i \in DOMAIN verdicts, verdicts[i].gw = g
                 PROVE  FALSE
    BY DEF Pending
  <2>2. /\ verdicts[i].at \in Nat /\ clock <= verdicts[i].at + lag
        /\ verdicts[i].at <= said[g]
    BY <1>1, <1>2, <2>1, Types DEF PendInv, NoCopies
  <2>3. QED
    BY <1>2, <1>3, <2>2
<1>6. armed[g] /\ lastSeen[g] + (IF Standalone THEN 0 ELSE 1) <= said[g] + lag + x
  <2>1. incident[g] <= said[g]
    BY <1>2, <1>3
  <2>2. QED
    BY <1>1, <1>2, <1>5, <2>1 DEF DueInv
<1>7. now <= lastSeen[g] + T /\ x \in Nat
  BY <1>1, <1>3, <1>6 DEF ArmedInv
<1>8. CASE Standalone
  <2>1. lastSeen[g] <= said[g] + lag
    <3>1. x = 0
      BY <1>1, <1>3, <1>8 DEF AgainInv
    <3>2. QED
      BY <1>3, <1>6, <1>8, <3>1
  <2>2. now + Len(ticks) = clock \/ (now = 0 /\ Len(ticks) + 1 = clock)
    BY <1>1, <1>8 DEF TickInv
  <2> HIDE DEF x
  <2>3. CASE now + Len(ticks) = clock
    <3>1. now + Len(ticks) + 0 = clock + 0 /\ lastSeen[g] + 0 <= said[g] + lag + 0
      BY <1>3, <2>1, <2>3
    <3>2. now > lastSeen[g] + T
      BY <1>2, <1>3, <1>4, <3>1, Overdue
    <3>3. QED
      BY <1>3, <1>7, <3>2
  <2>4. CASE now = 0 /\ Len(ticks) + 1 = clock
    BY <1>2, <1>3, <1>4, <2>4
  <2>5. QED
    BY <2>2, <2>3, <2>4
<1>9. CASE ~Standalone
  <2>1. tickSource = "backend"
    BY <1>1, <1>2, <1>9 DEF TypeInv, TypeOK, TickSources, Standalone
  <2>2. now + Len(ticks) + 1 = clock + x
    <3>1. now + Len(ticks) + Len(again) + 1 = clock + doubled
      BY <1>1, <1>2, <2>1 DEF TickInv
    <3>2. QED
      BY <1>3, <3>1
  <2>3. lastSeen[g] + 1 <= said[g] + lag + x
    BY <1>6, <1>9
  <2> HIDE DEF x
  <2>4. now > lastSeen[g] + T
    BY <1>2, <1>3, <1>4, <1>7, <2>2, <2>3, Overdue
  <2>5. QED
    BY <1>3, <1>7, <2>4
<1>10. QED
  BY <1>8, <1>9

(* Only an armed gateway is reported, and an armed one has news. *)
LEMMA ReportsNews ==
  ASSUME IInv, [Next]_vars, NEW g \in Gateways, incident'[g] # incident[g]
  PROVE  g \in news \/ redelivered > 0
<1>1. redelivered \in Nat /\ (armed[g] /\ redelivered = 0 => g \in news)
  BY DEF IInv, TypeInv, ArmedInv
<1>2. CASE OnTick \/ Look
  <2>1. \E S \in SUBSET Gateways : (\A h \in S : armed[h]) /\ Report(S)
    BY <1>2 DEF OnTick, Look, Silent
  <2>2. armed[g]
    <3>1. PICK S \in SUBSET Gateways : (\A h \in S : armed[h]) /\ Report(S)
      BY <2>1
    <3>2. DOMAIN incident = Gateways
      BY Types DEF IInv
    <3>3. g \in S
      BY <3>1, <3>2 DEF Report
    <3>4. QED
      BY <3>1, <3>3
  <2>3. QED
    BY <1>1, <2>2
<1>3. CASE ~(OnTick \/ Look)
  <2>1. UNCHANGED incident
    BY <1>3 DEF Next, Quiet, Second, FeedVerdict, BackendRestarts, Hear, GatewayDies, Redeliver,
                RedeliverTick, Publish, Deliver, vars
  <2>2. QED
    BY <2>1
<1>4. QED
  BY <1>2, <1>3
-----------------------------------------------------------------------------
(* GatewaySilenceMonitor and gw_silence.py, for any gateways, threshold, delay
   and source of ticks: an armed gateway is not overdue, and its age is
   accounted for by the time since its last verdict and by the ticks that were
   delivered twice. *)
THEOREM SilenceInvariant == Spec => [](IInv /\ SilenceIsReal)
<1>1. Init => IInv /\ SilenceIsReal
  BY InitHolds
<1>2. IInv /\ SilenceIsReal /\ [Next]_vars => (IInv /\ SilenceIsReal)'
  BY EveryStep, RealStep
<1>3. QED
  BY <1>1, <1>2, PTL DEF Spec

(* The state of the monitor and of what it is fed stays well formed. *)
THEOREM SilenceTypeCorrect == Spec => []TypeOK
<1>1. IInv => TypeOK
  BY DEF IInv, TypeInv
<1>2. QED
  BY <1>1, SilenceInvariant, PTL

(* on_tick reports no gateway that still talks: when a gateway is reported its
   last verdict is T ticks old, save for what the delays can hide and for one
   tick per second delivery of a tick. *)
THEOREM ReportedWereSilent == Spec => []SilenceIsReal
  BY SilenceInvariant, PTL

(* on_tick leaves no silence unreported while the ticks go on, no verdict is
   delivered twice and the backend runs, whether or not ticks are. *)
THEOREM SilencesAreReported == Spec => []SilenceIsReported
<1>1. IInv => SilenceIsReported
  BY DueInTime
<1>2. QED
  BY <1>1, SilenceInvariant, PTL

(* on_tick disarms what it reports: without copies the next incident of a
   gateway needs a verdict of it. *)
THEOREM OneIncidentPerSilence == Spec => OncePerEpisode
<1>1. IInv /\ [Next]_vars =>
        [\A g \in Gateways : incident'[g] # incident[g] => g \in news \/ redelivered > 0]_vars
  BY ReportsNews
<1>2. QED
  BY <1>1, SilenceInvariant, PTL DEF Spec, OncePerEpisode
=============================================================================
