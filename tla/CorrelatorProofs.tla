--------------------------- MODULE CorrelatorProofs ---------------------------
(***************************************************************************)
(* Proofs about Correlator, for every engine, window, number of devices,   *)
(* gateways, alerts and seconds: a subject has one incident in a window,   *)
(* an incident is real, and none is missed unless MonPoly dropped an event *)
(* or died.                                                                *)
(***************************************************************************)
EXTENDS Correlator, FiniteSetTheorems, SequenceTheorems, TLAPS

(* What OncePerWindow rests on: the keys remembered are those of the
   incidents, no more and no less. *)
Remembered == emitted = {Key(i.dev, i.ts) : i \in incidents}

KeyInv == Remembered /\ OncePerWindow

(* The incidents a line becomes, and the subjects that are new. *)
New(line)  == {s \in line.subjects : Key(s, line.ts) \notin emitted}
Made(line) == {[tp |-> line.tp, ts |-> line.ts, dev |-> s] : s \in New(line)}

(* Two subjects never have the same key. *)
LEMMA KeyTellsSubjects ==
  ASSUME NEW s, NEW t, NEW x, NEW y, Key(s, x) = Key(t, y)
  PROVE  s = t
  BY DEF Key

(* A line becomes incidents whose keys are new and remembered (_parse_violation
   and CrossGatewayMonitor._read). *)
LEMMA EmitKeepsKeys ==
  ASSUME KeyInv, NEW line, Emit(line), engine' = engine
  PROVE  KeyInv'
<1>1. emitted' = emitted \cup {Key(s, line.ts) : s \in New(line)}
  BY DEF Emit, New
<1>2. incidents' = incidents \cup Made(line)
  BY DEF Emit, New, Made
<1>3. \A s, x : Key(s, x)' = Key(s, x)
  BY DEF Key
<1>4. ASSUME NEW i \in Made(line)
      PROVE  /\ i.dev \in New(line) /\ i.ts = line.ts
             /\ i = [tp |-> line.tp, ts |-> line.ts, dev |-> i.dev]
  BY <1>4 DEF Made
<1>5. {Key(i.dev, i.ts) : i \in Made(line)} = {Key(s, line.ts) : s \in New(line)}
  <2>1. ASSUME NEW s \in New(line)
        PROVE  \E i \in Made(line) : i.dev = s /\ i.ts = line.ts
    <3>1. [tp |-> line.tp, ts |-> line.ts, dev |-> s] \in Made(line)
      BY DEF Made
    <3>2. QED
      BY <3>1
  <2>2. QED
    BY <1>4, <2>1
<1>6. Remembered'
  BY <1>1, <1>2, <1>3, <1>5 DEF Remembered, KeyInv
<1>7. ASSUME NEW i \in incidents, NEW j \in Made(line)
      PROVE  Key(i.dev, i.ts) # Key(j.dev, j.ts)
  <2>1. Key(i.dev, i.ts) \in emitted
    BY DEF KeyInv, Remembered
  <2>2. Key(j.dev, j.ts) \notin emitted
    BY <1>4 DEF New
  <2>3. QED
    BY <2>1, <2>2
<1>8. ASSUME NEW i \in Made(line), NEW j \in Made(line), i # j
      PROVE  Key(i.dev, i.ts) # Key(j.dev, j.ts)
  BY <1>4, <1>8, KeyTellsSubjects
<1>9. OncePerWindow'
  <2> SUFFICES ASSUME NEW i \in incidents', NEW j \in incidents', i # j
               PROVE  Key(i.dev, i.ts) # Key(j.dev, j.ts)
    BY <1>3 DEF OncePerWindow
  <2>1. CASE i \in incidents /\ j \in incidents
    BY <2>1 DEF KeyInv, OncePerWindow
  <2>2. CASE i \in incidents /\ j \in Made(line)
    BY <2>2, <1>7
  <2>3. CASE i \in Made(line) /\ j \in incidents
    BY <2>3, <1>7
  <2>4. CASE i \in Made(line) /\ j \in Made(line)
    BY <2>4, <1>8
  <2>5. QED
    BY <1>2, <2>1, <2>2, <2>3, <2>4
<1>10. QED
  BY <1>6, <1>9 DEF KeyInv

(* A step that reports nothing leaves keys and incidents alone. *)
LEMMA SilentKeepsKeys ==
  ASSUME KeyInv, UNCHANGED <<engine, emitted, incidents>>
  PROVE  KeyInv'
  BY DEF KeyInv, Remembered, OncePerWindow, Key

(* The keys remembered are exactly those of the incidents, and no two
   incidents share one: the inductive invariant behind OncePerWindow. *)
THEOREM KeysAreRemembered == Spec => []KeyInv
<1>1. Init => KeyInv
  BY DEF Init, KeyInv, Remembered, OncePerWindow
<1>2. KeyInv /\ [Next]_vars => KeyInv'
  <2> SUFFICES ASSUME KeyInv, [Next]_vars
               PROVE  KeyInv'
    OBVIOUS
  <2>1. CASE Read
    <3>1. engine' = engine
      BY <2>1 DEF Read, setting
    <3>2. CASE Emit(Head(out))
      BY <3>1, <3>2, EmitKeepsKeys
    <3>3. CASE UNCHANGED <<emitted, incidents>>
      BY <3>1, <3>3, SilentKeepsKeys
    <3>4. QED
      BY <2>1, <3>2, <3>3 DEF Read
  <2>2. CASE Collect
    <3>1. engine' = engine /\ Emit(Head(queue))
      BY <2>2 DEF Collect, setting
    <3>2. QED
      BY <3>1, EmitKeepsKeys
  <2>3. CASE Second \/ EngineDies \/ ReaderEnds \/ Checked \/ Close \/ Shutdown
             \/ Quiet \/ UNCHANGED vars
    <3>1. UNCHANGED <<engine, emitted, incidents>>
      BY <2>3 DEF Second, EngineDies, ReaderEnds, Checked, Close, Shutdown, Quiet,
                  vars, setting, output
    <3>2. QED
      BY <3>1, SilentKeepsKeys
  <2>4. ASSUME NEW g \in Gateways, Feed(g)
        PROVE  KeyInv'
    <3>1. UNCHANGED <<engine, emitted, incidents>>
      BY <2>4 DEF Feed, Take, setting
    <3>2. QED
      BY <3>1, SilentKeepsKeys
  <2>5. ASSUME NEW d \in Devices, NEW k \in Kinds[engine], Alert(d, k)
        PROVE  KeyInv'
    <3>1. UNCHANGED <<engine, emitted, incidents>>
      BY <2>5 DEF Alert, setting, output
    <3>2. QED
      BY <3>1, SilentKeepsKeys
  <2>6. QED
    BY <2>1, <2>2, <2>3, <2>4, <2>5 DEF Next
<1>3. QED
  BY <1>1, <1>2, PTL DEF Spec

(* backend_l3.py:84 and the keys of _parse_violation: one incident of a subject
   per window, whatever MonPoly, the clocks and the threads do. *)
THEOREM OneIncidentPerWindow == Spec => []OncePerWindow
  BY KeysAreRemembered, PTL DEF KeyInv
-----------------------------------------------------------------------------
Elems(s) == {s[k] : k \in DOMAIN s}

(* The kinds of alert that the engine is fed. *)
Useful == IF engine = "P3.6" THEN {"overflow"} ELSE Predicates

(* The alerts that were stamped and not yet fed. *)
Waiting == UNION {Elems(relay[g]) : g \in Gateways}

(* The state is well formed, and a timestamp is a gateway's reading of true
   time. *)
StateInv ==
  /\ engine \in Engines /\ host \in {"backend", "standalone"} /\ home \in [Devices -> Gateways]
  /\ offset \in [Gateways -> 0..Skew] /\ clock \in 0..MaxSeconds
  /\ relay \in [Gateways -> Seq(alerts)]
  /\ pc \in {"ready", "check", "draining", "stopped"}
  /\ mono.last \in Nat /\ mono.viol \in Nat /\ newest \in Nat
  /\ alive \in BOOLEAN /\ status \in BOOLEAN /\ (alive => status)
  /\ accepted \subseteq alerts /\ rejected \subseteq alerts
  /\ \A a \in accepted : a.ts <= newest
  /\ out \in Seq(Line) /\ queue \in Seq(Line)
  /\ IsFiniteSet(alerts) /\ Cardinality(alerts) <= MaxAlerts
  /\ \A a \in alerts : /\ a = [dev |-> a.dev, kind |-> a.kind, ts |-> a.ts, at |-> a.at]
                       /\ a.dev \in Devices /\ a.at \in Nat /\ a.kind \in AllKinds
                       /\ a.ts = a.at + offset[home[a.dev]]

(* What one feed does with the alert a: MonPoly takes it, drops it, is not
   there, or is not meant. *)
Taken(a) == /\ a.kind \in Useful /\ alive /\ a.ts >= newest
            /\ accepted' = accepted \cup {a} /\ newest' = a.ts
            /\ out' = IF Satisfied(accepted', a.ts) = {} THEN out
                      ELSE Append(out, [tp |-> Cardinality(accepted), ts |-> a.ts,
                                        subjects |-> Satisfied(accepted', a.ts)])
            /\ UNCHANGED <<alive, status, rejected>>
Dropped(a) == /\ a.kind \in Useful /\ a.ts < newest /\ rejected' = rejected \cup {a}
              /\ UNCHANGED <<alive, status, accepted, newest, out>>
Unheard(a) == /\ a.kind \in Useful /\ ~alive /\ status' = FALSE
              /\ UNCHANGED <<alive, accepted, newest, out, rejected>>
Skipped(a) == a.kind \notin Useful /\ UNCHANGED <<alive, status, accepted, newest, out, rejected>>

(* What a sequence loses with its head. *)
LEMMA TailFacts ==
  ASSUME NEW S, NEW s \in Seq(S), s # <<>>
  PROVE  /\ Tail(s) \in Seq(S) /\ Len(s) \in Nat /\ Len(s) >= 1 /\ Len(Tail(s)) = Len(s) - 1
         /\ DOMAIN s = 1..Len(s) /\ DOMAIN Tail(s) = 1..(Len(s) - 1)
         /\ Head(s) = s[1] /\ s[1] \in S /\ 1 \in DOMAIN s
         /\ \A i \in 1..(Len(s) - 1) : Tail(s)[i] = s[i + 1] /\ i + 1 \in 1..Len(s)
         /\ Elems(s) = Elems(Tail(s)) \cup {s[1]}
<1>1. Len(s) \in Nat /\ Len(s) >= 1 /\ Head(s) = s[1] /\ Tail(s) \in Seq(S)
      /\ Len(Tail(s)) = Len(s) - 1
  BY HeadTailProperties
<1>2. s[1] \in S
  <2>1. 1 \in 1..Len(s)
    BY <1>1
  <2>2. QED
    BY <2>1, ElementOfSeq
<1>3. \A i \in 1..(Len(s) - 1) : Tail(s)[i] = s[i + 1] /\ i + 1 \in 1..Len(s)
  BY <1>1
<1>4. DOMAIN s = 1..Len(s) /\ DOMAIN Tail(s) = 1..(Len(s) - 1) /\ 1 \in DOMAIN s
  BY <1>1
<1>5. Elems(s) = Elems(Tail(s)) \cup {s[1]}
  <2>1. Elems(Tail(s)) \cup {s[1]} \subseteq Elems(s)
    BY <1>3, <1>4 DEF Elems
  <2>2. ASSUME NEW k \in 1..Len(s), k # 1
        PROVE  s[k] \in Elems(Tail(s))
    <3>1. k - 1 \in 1..(Len(s) - 1) /\ (k - 1) + 1 = k
      BY <1>1, <2>2
    <3>2. Tail(s)[k - 1] = s[k]
      <4>1. Tail(s)[k - 1] = s[(k - 1) + 1]
        BY <1>3, <3>1
      <4>2. QED
        BY <3>1, <4>1
    <3>3. QED
      BY <1>4, <3>1, <3>2 DEF Elems
  <2>3. Elems(s) \subseteq Elems(Tail(s)) \cup {s[1]}
    BY <1>4, <2>2 DEF Elems
  <2>4. QED
    BY <2>1, <2>3
<1>6. QED
  BY <1>1, <1>2, <1>3, <1>4, <1>5

(* What a sequence gains with a last element. *)
LEMMA AppendFacts ==
  ASSUME NEW S, NEW s \in Seq(S), NEW x \in S
  PROVE  /\ Append(s, x) \in Seq(S) /\ Len(s) \in Nat
         /\ DOMAIN s = 1..Len(s) /\ DOMAIN Append(s, x) = 1..(Len(s) + 1)
         /\ \A i \in 1..Len(s) : Append(s, x)[i] = s[i] /\ i \in 1..(Len(s) + 1)
         /\ Append(s, x)[Len(s) + 1] = x /\ Len(s) + 1 \in 1..(Len(s) + 1)
         /\ \A i \in 1..(Len(s) + 1) : i \in 1..Len(s) \/ i = Len(s) + 1
         /\ Elems(Append(s, x)) = Elems(s) \cup {x}
<1>1. /\ Append(s, x) \in Seq(S) /\ Len(Append(s, x)) = Len(s) + 1 /\ Len(s) \in Nat
      /\ \A i \in 1..Len(s) : Append(s, x)[i] = s[i]
      /\ Append(s, x)[Len(s) + 1] = x
  BY AppendProperties
<1>2. /\ DOMAIN s = 1..Len(s) /\ DOMAIN Append(s, x) = 1..(Len(s) + 1)
      /\ \A i \in 1..Len(s) : i \in 1..(Len(s) + 1)
      /\ Len(s) + 1 \in 1..(Len(s) + 1)
      /\ \A i \in 1..(Len(s) + 1) : i \in 1..Len(s) \/ i = Len(s) + 1
  BY <1>1
<1>3. Elems(Append(s, x)) = Elems(s) \cup {x}
  BY <1>1, <1>2 DEF Elems
<1>4. QED
  BY <1>1, <1>2, <1>3

(* No step changes what the behaviour is about. *)
LEMMA SettingStays ==
  ASSUME [Next]_vars
  PROVE  UNCHANGED <<engine, host, home, offset>>
BY DEF Next, vars, setting, Second, EngineDies, Read, ReaderEnds, Collect, Checked, Close, Shutdown,
       Quiet, Feed, Take, Alert

(* The next alert of a gateway is fed, in one of four ways. *)
LEMMA FeedFacts ==
  ASSUME StateInv, NEW g \in Gateways, Feed(g)
  PROVE  LET a == relay[g][1] IN
         /\ relay[g] # <<>> /\ relay[g] \in Seq(alerts) /\ a \in alerts
         /\ relay' = [relay EXCEPT ![g] = Tail(relay[g])] /\ CountMono(a)
         /\ pc = "ready" /\ pc' \in {"ready", "check"}
         /\ UNCHANGED <<engine, host, home, offset, clock, queue, emitted, incidents, alerts>>
         /\ Taken(a) \/ Dropped(a) \/ Unheard(a) \/ Skipped(a)
<1> DEFINE a == relay[g][1]
<1>1. relay[g] # <<>> /\ relay[g] \in Seq(alerts)
  BY DEF Feed, Take, StateInv
<1>2. Head(relay[g]) = a /\ a \in alerts
  BY <1>1, TailFacts
<1>3. /\ relay' = [relay EXCEPT ![g] = Tail(relay[g])] /\ CountMono(a) /\ pc = "ready"
      /\ UNCHANGED <<engine, host, home, offset, clock, queue, emitted, incidents, alerts>>
  BY <1>2 DEF Feed, Take, setting
<1>4. \/ /\ a.kind \in Useful /\ Send(a)
         /\ pc' = IF engine = "P3.6" THEN "ready" ELSE "check"
      \/ a.kind \notin Useful /\ UNCHANGED <<pc, status, alive, accepted, newest, out, rejected>>
  BY <1>2 DEF Feed, Useful, monpoly
<1> HIDE DEF a
<1>5. ASSUME a.kind \in Useful, Send(a)
      PROVE  Taken(a) \/ Dropped(a) \/ Unheard(a)
  <2>1. newest \in Nat /\ a.ts \in Int /\ (alive => status) /\ alive \in BOOLEAN /\ status \in BOOLEAN
    <3>1. a.at \in Nat /\ offset[home[a.dev]] \in 0..Skew /\ a.ts = a.at + offset[home[a.dev]]
      BY <1>2 DEF StateInv
    <3>2. QED
      BY <3>1 DEF StateInv
  <2>2. CASE status /\ alive /\ a.ts >= newest /\ Accept(a) /\ UNCHANGED status
    BY <1>5, <2>2 DEF Taken, Accept
  <2>3. CASE status /\ alive /\ ~(a.ts >= newest) /\ Reject(a) /\ UNCHANGED status
    BY <1>5, <2>1, <2>3 DEF Dropped, Reject, monpoly
  <2>4. CASE status /\ ~alive /\ status' = FALSE /\ UNCHANGED <<monpoly, out, rejected>>
    BY <1>5, <2>4 DEF Unheard, monpoly
  <2>5. CASE ~status /\ UNCHANGED <<status, monpoly, out, rejected>>
    BY <1>5, <2>1, <2>5 DEF Unheard, monpoly
  <2>6. QED
    BY <1>5, <2>2, <2>3, <2>4, <2>5 DEF Send
<1>6. pc' \in {"ready", "check"}
  BY <1>3, <1>4
<1>7. QED
  BY <1>1, <1>2, <1>3, <1>4, <1>5, <1>6 DEF Skipped, a

(* Which formula an engine evaluates. *)
LEMMA Formulas ==
  ASSUME NEW S, NEW ts
  PROVE  /\ engine = "P3.1" => Satisfied(S, ts) = AptIndicator(S, ts)
         /\ engine = "P3.2" => Satisfied(S, ts) = CoordinatedAttack(S, ts)
         /\ engine = "P3.3" => Satisfied(S, ts) = EscalationPattern(S, ts)
         /\ engine = "P3.4" => Satisfied(S, ts) = PersistentThreat(S, ts)
         /\ engine = "P3.6" => Satisfied(S, ts) = CrossGatewayCampaign(S, ts)
<1>1. engine = "P3.1" => Satisfied(S, ts) = AptIndicator(S, ts)
  BY Zenon DEF Satisfied
<1>2. engine = "P3.2" => Satisfied(S, ts) = CoordinatedAttack(S, ts)
  BY Zenon DEF Satisfied
<1>3. engine = "P3.3" => Satisfied(S, ts) = EscalationPattern(S, ts)
  BY Zenon DEF Satisfied
<1>4. engine = "P3.4" => Satisfied(S, ts) = PersistentThreat(S, ts)
  BY Zenon DEF Satisfied
<1>5. engine = "P3.6" => Satisfied(S, ts) = CrossGatewayCampaign(S, ts)
  BY Zenon DEF Satisfied
<1>6. QED
  BY <1>1, <1>2, <1>3, <1>4, <1>5

(* The engine is one of the five, and the subjects it finds are devices or
   the subject of P3.2 and P3.6. *)
LEMMA SubjectsAreDevices ==
  ASSUME engine \in Engines, NEW S, NEW ts
  PROVE  /\ engine \in AllEngines /\ Satisfied(S, ts) \subseteq Devices \cup {NoDevice}
         /\ engine \in {"P3.1", "P3.3", "P3.4"} => Satisfied(S, ts) \subseteq Devices
         /\ engine \in {"P3.2", "P3.6"} => Satisfied(S, ts) \subseteq {NoDevice}
<1>1. engine \in {"P3.1", "P3.2", "P3.3", "P3.4", "P3.6"}
  BY CorrelatorAssumption DEF AllEngines
<1>2. CASE engine = "P3.1"
  <2>1. AptIndicator(S, ts) \subseteq Devices
    BY Zenon DEF AptIndicator
  <2>2. Satisfied(S, ts) = AptIndicator(S, ts)
    BY <1>2, Formulas
  <2>3. QED
    BY <1>2, <2>1, <2>2 DEF AllEngines
<1>3. CASE engine = "P3.2"
  <2>1. CoordinatedAttack(S, ts) \subseteq {NoDevice}
    BY Zenon DEF CoordinatedAttack
  <2>2. Satisfied(S, ts) = CoordinatedAttack(S, ts)
    BY <1>3, Formulas
  <2>3. QED
    BY <1>3, <2>1, <2>2 DEF AllEngines
<1>4. CASE engine = "P3.3"
  <2>1. EscalationPattern(S, ts) \subseteq Devices
    BY Zenon DEF EscalationPattern
  <2>2. Satisfied(S, ts) = EscalationPattern(S, ts)
    BY <1>4, Formulas
  <2>3. QED
    BY <1>4, <2>1, <2>2 DEF AllEngines
<1>5. CASE engine = "P3.4"
  <2>1. PersistentThreat(S, ts) \subseteq Devices
    BY Zenon DEF PersistentThreat
  <2>2. Satisfied(S, ts) = PersistentThreat(S, ts)
    BY <1>5, Formulas
  <2>3. QED
    BY <1>5, <2>1, <2>2 DEF AllEngines
<1>6. CASE engine = "P3.6"
  <2>1. CrossGatewayCampaign(S, ts) \subseteq {NoDevice}
    BY Zenon DEF CrossGatewayCampaign
  <2>2. Satisfied(S, ts) = CrossGatewayCampaign(S, ts)
    BY <1>6, Formulas
  <2>3. QED
    BY <1>6, <2>1, <2>2 DEF AllEngines
<1>7. QED
  BY <1>1, <1>2, <1>3, <1>4, <1>5, <1>6

(* A line stays a line while MonPoly reads on. *)
LEMMA LinesStay ==
  ASSUME newest \in Nat, newest' \in Nat, newest <= newest', NEW q \in Seq(Line)
  PROVE  q \in Seq(Line')
<1>1. Line \subseteq Line'
  BY DEF Line
<1>2. q \in [1..Len(q) -> Line] /\ Len(q) \in Nat
  OBVIOUS
<1>3. q \in [1..Len(q) -> Line']
  BY <1>1, <1>2
<1>4. QED
  BY <1>2, <1>3, SeqDef

(* What is known of an alert. *)
LEMMA AlertFacts ==
  ASSUME StateInv, NEW a \in alerts
  PROVE  /\ a.at \in Nat /\ a.ts \in Nat /\ a.dev \in Devices /\ home[a.dev] \in Gateways
         /\ offset[home[a.dev]] \in 0..Skew /\ a.ts = a.at + offset[home[a.dev]]
<1>1. /\ a.at \in Nat /\ a.dev \in Devices /\ home[a.dev] \in Gateways
      /\ offset[home[a.dev]] \in 0..Skew /\ a.ts = a.at + offset[home[a.dev]]
  BY DEF StateInv
<1>2. QED
  BY <1>1

(* A feed keeps the state well formed: above all, a line that MonPoly writes
   has a timestamp it has read and names devices. *)
LEMMA FeedKeepsState ==
  ASSUME StateInv, NEW g \in Gateways, Feed(g)
  PROVE  StateInv'
<1> DEFINE a == relay[g][1]
<1>1. /\ relay[g] # <<>> /\ relay[g] \in Seq(alerts) /\ a \in alerts
      /\ relay' = [relay EXCEPT ![g] = Tail(relay[g])] /\ CountMono(a)
      /\ pc' \in {"ready", "check"}
      /\ UNCHANGED <<engine, host, home, offset, clock, queue, emitted, incidents, alerts>>
      /\ Taken(a) \/ Dropped(a) \/ Unheard(a) \/ Skipped(a)
  BY FeedFacts
<1> HIDE DEF a
<1>2. a.ts \in Nat /\ newest \in Nat /\ out \in Seq(Line) /\ queue \in Seq(Line)
  BY <1>1, AlertFacts DEF StateInv
<1>3. relay' \in [Gateways -> Seq(alerts)]'
  <2>1. Tail(relay[g]) \in Seq(alerts)
    BY <1>1, TailFacts
  <2>2. QED
    BY <1>1, <2>1 DEF StateInv
<1>4. mono'.last \in Nat /\ mono'.viol \in Nat
  <2>1. mono.last \in Nat /\ mono.viol \in Nat
    BY DEF StateInv
  <2>2. \/ mono' = mono
        \/ mono' = [last |-> a.ts, viol |-> mono.viol + 1]
        \/ mono' = [last |-> a.ts, viol |-> mono.viol]
    BY <1>1 DEF CountMono
  <2>3. QED
    BY <1>2, <2>1, <2>2
<1>5. /\ newest' \in Nat /\ newest <= newest' /\ alive' \in BOOLEAN /\ status' \in BOOLEAN
      /\ (alive' => status') /\ accepted' \subseteq alerts /\ rejected' \subseteq alerts
      /\ \A b \in accepted' : b.ts <= newest'
  <2> DEFINE Old == /\ alive \in BOOLEAN /\ status \in BOOLEAN /\ (alive => status)
                    /\ accepted \subseteq alerts /\ rejected \subseteq alerts
                    /\ \A b \in accepted : b.ts <= newest
  <2>o. Old
    BY DEF StateInv
  <2>1. CASE Taken(a)
    <3>1. ASSUME NEW b \in accepted
          PROVE  b.ts <= a.ts
      <4>1. b.ts <= newest /\ b \in alerts
        BY DEF StateInv
      <4>2. b.ts \in Nat
        BY <4>1, AlertFacts
      <4>3. QED
        BY <1>2, <2>1, <4>1, <4>2 DEF Taken
    <3>2. QED
      BY <1>1, <1>2, <2>o, <2>1, <3>1 DEF Taken
  <2>2. CASE Dropped(a)
    BY <1>1, <1>2, <2>o, <2>2 DEF Dropped
  <2>3. CASE Unheard(a)
    <3>1. /\ ~alive' /\ status' = FALSE /\ alive' \in BOOLEAN
          /\ UNCHANGED <<accepted, newest, rejected>>
      BY <2>o, <2>3 DEF Unheard
    <3>2. status' \in BOOLEAN /\ (alive' => status')
      BY <3>1, Zenon
    <3>3. /\ newest' \in Nat /\ newest <= newest'
          /\ accepted' \subseteq alerts /\ rejected' \subseteq alerts
          /\ \A b \in accepted' : b.ts <= newest'
      BY <1>2, <2>o, <3>1
    <3>4. QED
      BY <3>1, <3>2, <3>3
  <2>4. CASE Skipped(a)
    BY <1>1, <1>2, <2>o, <2>4 DEF Skipped
  <2>5. QED
    BY <1>1, <2>1, <2>2, <2>3, <2>4
<1>6. out \in Seq(Line') /\ queue \in Seq(Line')
  BY <1>2, <1>5, LinesStay
<1>7. out' \in Seq(Line')
  <2>1. CASE out' = out
    BY <1>6, <2>1
  <2>2. CASE Taken(a)
    <3> DEFINE line == [tp |-> Cardinality(accepted), ts |-> a.ts,
                        subjects |-> Satisfied(accepted', a.ts)]
    <3>1. line \in Line'
      <4>1. Satisfied(accepted', a.ts) \subseteq Devices \cup {NoDevice}
        BY SubjectsAreDevices DEF StateInv
      <4>2. Cardinality(accepted) \in Nat
        <5>1. IsFiniteSet(accepted)
          BY FS_Subset DEF StateInv
        <5>2. QED
          BY <5>1, FS_CardinalityType
      <4>3. a.ts \in 0..newest'
        BY <1>2, <2>2 DEF Taken
      <4>4. QED
        BY <4>1, <4>2, <4>3 DEF Line
    <3>2. out' = out \/ out' = Append(out, line)
      BY <2>2 DEF Taken
    <3> HIDE DEF line
    <3>3. QED
      BY <1>6, <3>1, <3>2, AppendFacts
  <2>3. QED
    BY <1>1, <2>1, <2>2 DEF Dropped, Unheard, Skipped
<1>8. QED
  BY <1>1, <1>3, <1>4, <1>5, <1>6, <1>7 DEF StateInv

(* A gateway stamps an alert: it is new, and the last of its relay. *)
LEMMA StampFacts ==
  ASSUME StateInv, NEW d \in Devices, NEW k \in Kinds[engine], Alert(d, k)
  PROVE  \E a : /\ a = [dev |-> d, kind |-> k, ts |-> clock + offset[home[d]], at |-> clock]
                /\ a \notin alerts /\ alerts' = alerts \cup {a} /\ k \in AllKinds
                /\ home[d] \in Gateways /\ relay[home[d]] \in Seq(alerts')
                /\ relay' = [relay EXCEPT ![home[d]] = Append(relay[home[d]], a)]
                /\ clock \in Nat /\ offset[home[d]] \in 0..Skew
                /\ pc \in {"ready", "check"} /\ Cardinality(alerts) < MaxAlerts
                /\ UNCHANGED <<engine, host, home, offset, clock, pc, mono, status, alive, accepted,
                               newest, out, queue, emitted, incidents, rejected>>
<1> DEFINE a == [dev |-> d, kind |-> k, ts |-> clock + offset[home[d]], at |-> clock]
<1>1. /\ a \notin alerts /\ alerts' = alerts \cup {a}
      /\ relay' = [relay EXCEPT ![home[d]] = Append(relay[home[d]], a)]
      /\ pc \in {"ready", "check"} /\ Cardinality(alerts) < MaxAlerts
      /\ UNCHANGED <<engine, host, home, offset, clock, pc, mono, status, alive, accepted,
                     newest, out, queue, emitted, incidents, rejected>>
  BY DEF Alert, setting, monpoly, output
<1>2. k \in AllKinds
  <2>1. engine \in Engines /\ Engines \subseteq AllEngines /\ Kinds \in [AllEngines -> SUBSET AllKinds]
    BY CorrelatorAssumption DEF StateInv
  <2>2. QED
    BY <2>1
<1>3. home[d] \in Gateways /\ offset[home[d]] \in 0..Skew /\ clock \in Nat
  <2>1. home \in [Devices -> Gateways] /\ offset \in [Gateways -> 0..Skew] /\ clock \in 0..MaxSeconds
    BY DEF StateInv
  <2>2. MaxSeconds \in Nat
    BY CorrelatorAssumption
  <2>3. QED
    BY <2>1, <2>2
<1>4. relay[home[d]] \in Seq(alerts')
  <2>1. relay[home[d]] \in Seq(alerts) /\ alerts \subseteq alerts'
    BY <1>1, <1>3 DEF StateInv
  <2> DEFINE w == relay[home[d]]
  <2>2. w \in [1..Len(w) -> alerts] /\ Len(w) \in Nat
    BY <2>1
  <2>3. w \in [1..Len(w) -> alerts']
    BY <2>1, <2>2
  <2>4. QED
    BY <2>2, <2>3, SeqDef
<1>5. QED
  BY <1>1, <1>2, <1>3, <1>4

(* A stamp keeps the state well formed. *)
LEMMA AlertKeepsState ==
  ASSUME StateInv, NEW d \in Devices, NEW k \in Kinds[engine], Alert(d, k)
  PROVE  StateInv'
<1>1. PICK a : /\ a = [dev |-> d, kind |-> k, ts |-> clock + offset[home[d]], at |-> clock]
               /\ a \notin alerts /\ alerts' = alerts \cup {a} /\ k \in AllKinds
               /\ home[d] \in Gateways /\ relay[home[d]] \in Seq(alerts')
               /\ relay' = [relay EXCEPT ![home[d]] = Append(relay[home[d]], a)]
               /\ clock \in Nat /\ offset[home[d]] \in 0..Skew
               /\ pc \in {"ready", "check"} /\ Cardinality(alerts) < MaxAlerts
               /\ UNCHANGED <<engine, host, home, offset, clock, pc, mono, status, alive, accepted,
                              newest, out, queue, emitted, incidents, rejected>>
  BY StampFacts
<1>2. relay' \in [Gateways -> Seq(alerts')]
  <2>1. ASSUME NEW g \in Gateways
        PROVE  relay[g] \in Seq(alerts')
    <3>1. relay[g] \in Seq(alerts) /\ alerts \subseteq alerts'
      BY <1>1 DEF StateInv
    <3> DEFINE w == relay[g]
    <3>2. w \in [1..Len(w) -> alerts] /\ Len(w) \in Nat
      BY <3>1
    <3>3. w \in [1..Len(w) -> alerts']
      BY <3>1, <3>2
    <3>4. QED
      BY <3>2, <3>3, SeqDef
  <2>2. Append(relay[home[d]], a) \in Seq(alerts')
    BY <1>1, AppendFacts
  <2>3. DOMAIN relay = Gateways
    BY DEF StateInv
  <2>4. QED
    BY <1>1, <2>1, <2>2, <2>3
<1>3. IsFiniteSet(alerts') /\ Cardinality(alerts') <= MaxAlerts
  <2>1. IsFiniteSet(alerts) /\ MaxAlerts \in Nat
    BY CorrelatorAssumption DEF StateInv
  <2>2. IsFiniteSet(alerts') /\ Cardinality(alerts') = Cardinality(alerts) + 1
    BY <1>1, <2>1, FS_AddElement
  <2>3. Cardinality(alerts) \in Nat
    BY <2>1, FS_CardinalityType
  <2>4. QED
    BY <1>1, <2>1, <2>2, <2>3
<1>4. \A b \in alerts' : /\ b = [dev |-> b.dev, kind |-> b.kind, ts |-> b.ts, at |-> b.at]
                         /\ b.dev \in Devices /\ b.at \in Nat /\ b.kind \in AllKinds
                         /\ b.ts = b.at + offset[home[b.dev]]
  <2>1. /\ a = [dev |-> a.dev, kind |-> a.kind, ts |-> a.ts, at |-> a.at]
        /\ a.dev \in Devices /\ a.at \in Nat /\ a.kind \in AllKinds
        /\ a.ts = a.at + offset[home[a.dev]]
    BY <1>1
  <2>2. QED
    BY <1>1, <2>1 DEF StateInv
<1>5. accepted \subseteq alerts' /\ rejected \subseteq alerts'
  BY <1>1 DEF StateInv
<1>6. out \in Seq(Line)' /\ queue \in Seq(Line)'
  BY <1>1 DEF StateInv, Line
<1>7. QED
  BY <1>1, <1>2, <1>3, <1>4, <1>5, <1>6 DEF StateInv

(* The threads move lines and change nothing else that StateInv speaks of. *)
LEMMA ReaderKeepsState ==
  ASSUME StateInv, Read \/ Collect
  PROVE  StateInv'
<1>1. out' \in Seq(Line) /\ queue' \in Seq(Line)
  <2>1. out \in Seq(Line) /\ queue \in Seq(Line)
    BY DEF StateInv
  <2>2. CASE Read
    <3>1. out # <<>> /\ out' = Tail(out) /\ (queue' = queue \/ queue' = Append(queue, Head(out)))
      BY <2>2 DEF Read
    <3>2. Tail(out) \in Seq(Line) /\ Head(out) \in Line
      BY <2>1, <3>1, TailFacts
    <3>3. Append(queue, Head(out)) \in Seq(Line)
      BY <2>1, <3>2, AppendFacts
    <3>4. QED
      BY <2>1, <3>1, <3>2, <3>3
  <2>3. CASE Collect
    <3>1. queue # <<>> /\ queue' = Tail(queue) /\ out' = out
      BY <2>3 DEF Collect
    <3>2. QED
      BY <2>1, <3>1, TailFacts
  <2>4. QED
    BY <2>2, <2>3
<1>2. UNCHANGED <<setting, clock, relay, pc, mono, status, monpoly, alerts, rejected>>
  BY DEF Read, Collect
<1>3. Line' = Line
  BY <1>2 DEF Line, monpoly
<1>4. QED
  BY <1>1, <1>2, <1>3 DEF StateInv, setting, monpoly

(* The clock, the end of MonPoly and the control of the host. *)
LEMMA RestKeepsState ==
  ASSUME StateInv,
         Second \/ EngineDies \/ ReaderEnds \/ Checked \/ Close \/ Shutdown \/ UNCHANGED vars
  PROVE  StateInv'
<1>1. /\ UNCHANGED <<engine, host, home, offset, relay, mono, accepted, newest, out, queue, alerts, rejected>>
      /\ pc' \in {pc, "ready", "draining", "stopped"}
      /\ clock' = clock \/ (clock < MaxSeconds /\ clock' = clock + 1)
  <2>1. CASE Second
    BY <2>1 DEF Second, setting, monpoly, output
  <2>2. CASE EngineDies \/ ReaderEnds
    BY <2>2 DEF EngineDies, ReaderEnds, setting, monpoly, output
  <2>3. CASE Checked \/ Close \/ Shutdown
    BY <2>3 DEF Checked, Close, Shutdown, setting, monpoly, output
  <2>4. CASE UNCHANGED vars
    BY <2>4 DEF vars, setting, monpoly, output
  <2>5. QED
    BY <2>1, <2>2, <2>3, <2>4
<1>2. alive' \in BOOLEAN /\ status' \in BOOLEAN /\ (alive' => status')
  <2>1. alive \in BOOLEAN /\ status \in BOOLEAN /\ (alive => status)
    BY DEF StateInv
  <2>2. \/ alive' = alive /\ status' = status
        \/ alive' = FALSE /\ status' = status
        \/ ~alive /\ alive' = alive /\ status' = FALSE
    <3>1. CASE Second \/ Checked \/ Close \/ Shutdown
      BY <3>1 DEF Second, Checked, Close, Shutdown, monpoly
    <3>2. CASE EngineDies
      BY <3>2 DEF EngineDies
    <3>3. CASE ReaderEnds
      BY <3>3, Zenon DEF ReaderEnds, monpoly
    <3>4. CASE UNCHANGED vars
      BY <3>4 DEF vars, monpoly
    <3>5. QED
      BY <3>1, <3>2, <3>3, <3>4
  <2>3. CASE alive' = alive /\ status' = status
    BY <2>1, <2>3
  <2>4. CASE alive' = FALSE /\ status' = status
    BY <2>1, <2>4
  <2>5. CASE ~alive /\ alive' = alive /\ status' = FALSE
    <3>1. ~alive' /\ alive' \in BOOLEAN
      BY <2>1, <2>5
    <3>2. status' \in BOOLEAN
      BY <2>5
    <3>3. QED
      BY <3>1, <3>2
  <2>6. QED
    BY <2>2, <2>3, <2>4, <2>5
<1>3. Line' = Line
  BY <1>1 DEF Line
<1>4. clock' \in 0..MaxSeconds
  <2>1. clock \in 0..MaxSeconds /\ MaxSeconds \in Nat
    BY CorrelatorAssumption DEF StateInv
  <2>2. QED
    BY <1>1, <2>1
<1>5. pc' \in {"ready", "check", "draining", "stopped"}
  BY <1>1 DEF StateInv
<1>6. QED
  BY <1>1, <1>2, <1>3, <1>4, <1>5 DEF StateInv
-----------------------------------------------------------------------------
(* An alert waits once, in the relay of its gateway, and _count_mono counts an
   alert at most once. *)
RelayInv ==
  /\ \A g \in Gateways : /\ \A i, j \in DOMAIN relay[g] : i # j => relay[g][i] # relay[g][j]
                         /\ \A i \in DOMAIN relay[g] : home[relay[g][i].dev] = g
  /\ mono.viol <= Cardinality(alerts \ Waiting)

(* What waits was stamped. *)
LEMMA WaitingAreAlerts ==
  ASSUME StateInv
  PROVE  Waiting \subseteq alerts
<1> SUFFICES ASSUME NEW g \in Gateways, NEW i \in DOMAIN relay[g]
             PROVE  relay[g][i] \in alerts
  BY DEF Waiting, Elems
<1>1. relay[g] \in Seq(alerts)
  BY DEF StateInv
<1>2. QED
  BY <1>1

(* A feed takes an alert from those that wait. *)
LEMMA FeedTakesOne ==
  ASSUME StateInv, RelayInv, NEW g \in Gateways, Feed(g)
  PROVE  /\ Waiting = Waiting' \cup {relay[g][1]} /\ relay[g][1] \notin Waiting'
         /\ \A h \in Gateways :
              /\ \A i, j \in DOMAIN relay'[h] : i # j => relay'[h][i] # relay'[h][j]
              /\ \A i \in DOMAIN relay'[h] : home[relay'[h][i].dev] = h
<1> DEFINE s == relay[g]
           a == s[1]
<1>1. /\ s # <<>> /\ s \in Seq(alerts) /\ relay' = [relay EXCEPT ![g] = Tail(s)]
      /\ DOMAIN relay = Gateways
  BY FeedFacts DEF StateInv
<1> HIDE DEF s
<1>2. /\ Len(s) \in Nat /\ Len(s) >= 1 /\ DOMAIN s = 1..Len(s) /\ DOMAIN Tail(s) = 1..(Len(s) - 1)
      /\ 1 \in DOMAIN s
      /\ \A i \in 1..(Len(s) - 1) : Tail(s)[i] = s[i + 1] /\ i + 1 \in 1..Len(s)
      /\ Elems(s) = Elems(Tail(s)) \cup {s[1]}
  BY <1>1, TailFacts
<1>3. /\ \A i, j \in DOMAIN s : i # j => s[i] # s[j]
      /\ \A i \in DOMAIN s : home[s[i].dev] = g
  BY DEF RelayInv, s
<1>4. relay'[g] = Tail(s) /\ \A h \in Gateways : h # g => relay'[h] = relay[h]
  BY <1>1
<1>5. ASSUME NEW i \in DOMAIN Tail(s)
      PROVE  /\ home[Tail(s)[i].dev] = g /\ Tail(s)[i] # a
             /\ \A j \in DOMAIN Tail(s) : i # j => Tail(s)[i] # Tail(s)[j]
  <2>1. i \in Nat /\ i >= 1 /\ i + 1 \in DOMAIN s /\ i + 1 # 1 /\ Tail(s)[i] = s[i + 1]
    BY <1>2
  <2>2. ASSUME NEW j \in DOMAIN Tail(s), i # j
        PROVE  Tail(s)[i] # Tail(s)[j]
    <3>1. j \in Nat /\ j + 1 \in DOMAIN s /\ i + 1 # j + 1 /\ Tail(s)[j] = s[j + 1]
      BY <1>2, <2>1, <2>2
    <3>2. QED
      BY <1>3, <2>1, <3>1
  <2>3. QED
    BY <1>2, <1>3, <2>1, <2>2
<1>6. ASSUME NEW h \in Gateways
      PROVE  /\ \A i, j \in DOMAIN relay'[h] : i # j => relay'[h][i] # relay'[h][j]
             /\ \A i \in DOMAIN relay'[h] : home[relay'[h][i].dev] = h
  <2>1. CASE h = g
    <3>1. relay'[h] = Tail(s)
      BY <1>4, <2>1
    <3>2. \A i, j \in DOMAIN Tail(s) : i # j => Tail(s)[i] # Tail(s)[j]
      BY <1>5
    <3>3. \A i \in DOMAIN Tail(s) : home[Tail(s)[i].dev] = g
      BY <1>5
    <3>4. QED
      BY <2>1, <3>1, <3>2, <3>3
  <2>2. CASE h # g
    BY <1>4, <2>2 DEF RelayInv
  <2>3. QED
    BY <2>1, <2>2
<1>7. a \notin Waiting'
  <2> SUFFICES ASSUME NEW h \in Gateways, NEW i \in DOMAIN relay'[h], relay'[h][i] = a
               PROVE  FALSE
    BY DEF Waiting, Elems
  <2>1. home[a.dev] = g /\ home[a.dev] = h
    BY <1>2, <1>3, <1>6
  <2>2. QED
    BY <1>4, <1>5, <2>1
<1>8. Waiting = Waiting' \cup {a}
  <2>1. \A h \in Gateways : Elems(relay[h]) = Elems(relay'[h]) \cup (IF h = g THEN {a} ELSE {})
    BY <1>2, <1>4 DEF s
  <2>2. Waiting' = UNION {Elems(relay'[h]) : h \in Gateways}
    BY DEF Waiting, Elems
  <2>3. QED
    BY <2>1, <2>2 DEF Waiting
<1>9. QED
  BY <1>6, <1>7, <1>8 DEF s

(* A stamp adds an alert to those that wait. *)
LEMMA StampWaits ==
  ASSUME StateInv, RelayInv, NEW d \in Devices, NEW k \in Kinds[engine], Alert(d, k)
  PROVE  /\ \E a : a \notin alerts /\ alerts' = alerts \cup {a} /\ Waiting' = Waiting \cup {a}
         /\ \A h \in Gateways :
              /\ \A i, j \in DOMAIN relay'[h] : i # j => relay'[h][i] # relay'[h][j]
              /\ \A i \in DOMAIN relay'[h] : home[relay'[h][i].dev] = h
<1>1. PICK a : /\ a = [dev |-> d, kind |-> k, ts |-> clock + offset[home[d]], at |-> clock]
               /\ a \notin alerts /\ alerts' = alerts \cup {a} /\ k \in AllKinds
               /\ home[d] \in Gateways /\ relay[home[d]] \in Seq(alerts')
               /\ relay' = [relay EXCEPT ![home[d]] = Append(relay[home[d]], a)]
               /\ clock \in Nat /\ offset[home[d]] \in 0..Skew
               /\ pc \in {"ready", "check"} /\ Cardinality(alerts) < MaxAlerts
               /\ UNCHANGED <<engine, host, home, offset, clock, pc, mono, status, alive, accepted,
                              newest, out, queue, emitted, incidents, rejected>>
  BY StampFacts
<1> DEFINE g == home[d]
           s == relay[g]
<1>2. /\ g \in Gateways /\ s \in Seq(alerts') /\ a \in alerts' /\ a.dev = d /\ home[a.dev] = g
      /\ DOMAIN relay = Gateways /\ s \in Seq(alerts)
  BY <1>1 DEF StateInv
<1>3. relay'[g] = Append(s, a) /\ \A h \in Gateways : h # g => relay'[h] = relay[h]
  BY <1>1, <1>2
<1>4. \A i \in DOMAIN s : s[i] # a /\ home[s[i].dev] = g
  <2>1. \A i \in DOMAIN s : s[i] \in alerts
    BY <1>2
  <2>2. QED
    BY <1>1, <1>2, <2>1 DEF RelayInv
<1>5. \A i, j \in DOMAIN s : i # j => s[i] # s[j]
  BY <1>2 DEF RelayInv
<1> HIDE DEF s, g
<1>6. /\ DOMAIN s = 1..Len(s) /\ DOMAIN Append(s, a) = 1..(Len(s) + 1)
      /\ \A i \in 1..Len(s) : Append(s, a)[i] = s[i] /\ i \in 1..(Len(s) + 1)
      /\ Append(s, a)[Len(s) + 1] = a /\ Len(s) + 1 \in 1..(Len(s) + 1)
      /\ \A i \in 1..(Len(s) + 1) : i \in 1..Len(s) \/ i = Len(s) + 1
      /\ Elems(Append(s, a)) = Elems(s) \cup {a}
  BY <1>2, AppendFacts
<1>7. ASSUME NEW i \in DOMAIN Append(s, a)
      PROVE  /\ home[Append(s, a)[i].dev] = g
             /\ \A j \in DOMAIN Append(s, a) : i # j => Append(s, a)[i] # Append(s, a)[j]
  BY <1>2, <1>4, <1>5, <1>6
<1>8. ASSUME NEW h \in Gateways
      PROVE  /\ \A i, j \in DOMAIN relay'[h] : i # j => relay'[h][i] # relay'[h][j]
             /\ \A i \in DOMAIN relay'[h] : home[relay'[h][i].dev] = h
  <2>1. CASE h = g
    BY <1>3, <1>7, <2>1
  <2>2. CASE h # g
    BY <1>3, <2>2 DEF RelayInv
  <2>3. QED
    BY <2>1, <2>2
<1>9. Waiting' = Waiting \cup {a}
  <2>1. \A h \in Gateways : Elems(relay'[h]) = Elems(relay[h]) \cup (IF h = g THEN {a} ELSE {})
    BY <1>3, <1>6 DEF s
  <2>2. Waiting' = UNION {Elems(relay'[h]) : h \in Gateways}
    BY DEF Waiting, Elems
  <2>3. QED
    BY <1>2, <2>1, <2>2 DEF Waiting
<1>10. QED
  BY <1>1, <1>8, <1>9

(* The relays and the count of _count_mono. *)
LEMMA RelayStep ==
  ASSUME StateInv, RelayInv, [Next]_vars
  PROVE  RelayInv'
<1>1. ASSUME NEW g \in Gateways, Feed(g)
      PROVE  RelayInv'
  <2> DEFINE a == relay[g][1]
  <2>1. /\ Waiting = Waiting' \cup {a} /\ a \notin Waiting' /\ a \in alerts /\ CountMono(a)
        /\ alerts' = alerts /\ home' = home
    BY <1>1, FeedFacts, FeedTakesOne
  <2>2. \A h \in Gateways :
              /\ \A i, j \in DOMAIN relay'[h] : i # j => relay'[h][i] # relay'[h][j]
              /\ \A i \in DOMAIN relay'[h] : home'[relay'[h][i].dev] = h
    BY <1>1, <2>1, FeedTakesOne
  <2>3. mono'.viol \in {mono.viol, mono.viol + 1} /\ mono.viol \in Nat
    BY <2>1 DEF CountMono, StateInv
  <2> HIDE DEF a
  <2>4. alerts' \ Waiting' = (alerts \ Waiting) \cup {a} /\ a \notin alerts \ Waiting
    BY <2>1
  <2>5. IsFiniteSet(alerts \ Waiting)
    BY FS_Difference DEF StateInv
  <2>6. Cardinality(alerts' \ Waiting') = Cardinality(alerts \ Waiting) + 1
    BY <2>4, <2>5, FS_AddElement
  <2>7. Cardinality(alerts \ Waiting) \in Nat
    BY <2>5, FS_CardinalityType
  <2>8. mono'.viol <= Cardinality(alerts' \ Waiting')
    BY <2>3, <2>6, <2>7 DEF RelayInv
  <2>9. QED
    BY <2>2, <2>8 DEF RelayInv
<1>2. ASSUME NEW d \in Devices, NEW k \in Kinds[engine], Alert(d, k)
      PROVE  RelayInv'
  <2>1. PICK a : a \notin alerts /\ alerts' = alerts \cup {a} /\ Waiting' = Waiting \cup {a}
    BY <1>2, StampWaits
  <2>2. UNCHANGED <<mono, home>>
    BY <1>2, StampFacts
  <2>3. alerts' \ Waiting' = alerts \ Waiting
    BY <2>1, WaitingAreAlerts
  <2>4. \A h \in Gateways :
              /\ \A i, j \in DOMAIN relay'[h] : i # j => relay'[h][i] # relay'[h][j]
              /\ \A i \in DOMAIN relay'[h] : home'[relay'[h][i].dev] = h
    BY <1>2, <2>2, StampWaits
  <2>5. QED
    BY <2>2, <2>3, <2>4 DEF RelayInv
<1>3. CASE UNCHANGED <<relay, home, mono, alerts>>
  BY <1>3 DEF RelayInv, Waiting, Elems
<1>4. CASE Second \/ EngineDies \/ Read \/ ReaderEnds
  BY <1>3, <1>4 DEF Second, EngineDies, Read, ReaderEnds, setting
<1>5. CASE Collect \/ Checked \/ Close \/ Shutdown
  BY <1>3, <1>5 DEF Collect, Checked, Close, Shutdown, setting
<1>6. CASE UNCHANGED vars
  BY <1>3, <1>6 DEF vars, setting
<1>7. QED
  BY <1>1, <1>2, <1>4, <1>5, <1>6 DEF Next, Quiet

(* While _count_mono has seen no timestamp below the last, MonPoly has not
   either. *)
MonoInv == host = "backend" /\ mono.viol = 0 => rejected = {} /\ newest <= mono.last

(* Only a feed can break the order, and it tells both. *)
LEMMA MonoStep ==
  ASSUME StateInv, MonoInv, [Next]_vars
  PROVE  MonoInv'
<1>1. ASSUME NEW g \in Gateways, Feed(g), host' = "backend", mono'.viol = 0
      PROVE  rejected' = {} /\ newest' <= mono'.last
  <2> DEFINE a == relay[g][1]
  <2>1. /\ a \in alerts /\ CountMono(a) /\ host' = host
        /\ Taken(a) \/ Dropped(a) \/ Unheard(a) \/ Skipped(a)
    BY <1>1, FeedFacts
  <2>2. a.ts \in Nat
    BY <2>1, AlertFacts
  <2> HIDE DEF a
  <2>3. mono.last \in Nat /\ mono.viol \in Nat /\ newest \in Nat
    BY DEF StateInv
  <2>4. mono' = [last |-> a.ts, viol |-> IF a.ts < mono.last THEN mono.viol + 1 ELSE mono.viol]
    BY <1>1, <2>1 DEF CountMono
  <2>5. mono.viol = 0 /\ mono.last <= a.ts /\ mono'.last = a.ts
    BY <1>1, <2>2, <2>3, <2>4
  <2>6. rejected = {} /\ newest <= a.ts
    BY <1>1, <2>1, <2>2, <2>3, <2>5 DEF MonoInv
  <2>7. CASE Taken(a)
    BY <2>2, <2>5, <2>6, <2>7 DEF Taken
  <2>8. CASE Dropped(a)
    BY <2>2, <2>3, <2>6, <2>8 DEF Dropped
  <2>9. CASE Unheard(a) \/ Skipped(a)
    BY <2>5, <2>6, <2>9 DEF Unheard, Skipped
  <2>10. QED
    BY <2>1, <2>7, <2>8, <2>9
<1>2. CASE UNCHANGED <<host, mono, rejected, newest>>
  BY <1>2 DEF MonoInv
<1>3. CASE Second \/ EngineDies \/ Read \/ ReaderEnds
  BY <1>2, <1>3 DEF Second, EngineDies, Read, ReaderEnds, setting, monpoly
<1>4. CASE Collect \/ Checked \/ Close \/ Shutdown
  BY <1>2, <1>4 DEF Collect, Checked, Close, Shutdown, setting, monpoly
<1>5. CASE UNCHANGED vars
  BY <1>2, <1>5 DEF vars, setting, monpoly
<1>6. ASSUME NEW d \in Devices, NEW k \in Kinds[engine], Alert(d, k)
      PROVE  MonoInv'
  BY <1>2, <1>6 DEF Alert, setting, monpoly
<1>7. QED
  BY <1>1, <1>3, <1>4, <1>5, <1>6 DEF Next, Quiet, MonoInv

(* The state is well formed whatever step is taken. *)
LEMMA StateStep ==
  ASSUME StateInv, [Next]_vars
  PROVE  StateInv'
<1>1. ASSUME NEW g \in Gateways, Feed(g)
      PROVE  StateInv'
  BY <1>1, FeedKeepsState
<1>2. ASSUME NEW d \in Devices, NEW k \in Kinds[engine], Alert(d, k)
      PROVE  StateInv'
  BY <1>2, AlertKeepsState
<1>3. CASE Read \/ Collect
  BY <1>3, ReaderKeepsState
<1>4. CASE Second \/ EngineDies \/ ReaderEnds \/ Checked \/ Close \/ Shutdown \/ UNCHANGED vars
  BY <1>4, RestKeepsState
<1>5. QED
  BY <1>1, <1>2, <1>3, <1>4 DEF Next, Quiet

(* The three hold at the start. *)
LEMMA InitHolds ==
  ASSUME Init
  PROVE  StateInv /\ RelayInv /\ MonoInv
<1>1. /\ engine \in Engines /\ home \in [Devices -> Gateways] /\ offset \in [Gateways -> 0..Skew]
      /\ host \in {"backend", "standalone"} /\ clock = 0 /\ pc = "ready"
      /\ relay = [g \in Gateways |-> <<>>] /\ mono = [last |-> 0, viol |-> 0] /\ newest = 0
      /\ accepted = {} /\ alerts = {} /\ rejected = {} /\ out = <<>> /\ queue = <<>>
  BY DEF Init
<1>2. alive \in BOOLEAN /\ status \in BOOLEAN /\ (alive => status)
  BY DEF Init, Started
<1>3. IsFiniteSet(alerts) /\ Cardinality(alerts) = 0
  BY <1>1, FS_EmptySet
<1>4. relay \in [Gateways -> Seq(alerts)] /\ out \in Seq(Line) /\ queue \in Seq(Line)
  <2>1. \A S : <<>> \in Seq(S)
    OBVIOUS
  <2>2. QED
    BY <1>1, <2>1
<1>5. clock \in 0..MaxSeconds /\ Cardinality(alerts) <= MaxAlerts
  <2>1. MaxSeconds \in Nat /\ MaxAlerts \in Nat
    BY CorrelatorAssumption
  <2>2. QED
    BY <1>1, <1>3, <2>1
<1>6. StateInv
  BY <1>1, <1>2, <1>3, <1>4, <1>5 DEF StateInv
<1>7. RelayInv
  <2>1. \A g \in Gateways : DOMAIN relay[g] = {}
    BY <1>1
  <2>2. Cardinality(alerts \ Waiting) = 0
    BY <1>1, FS_EmptySet
  <2>3. QED
    BY <1>1, <2>1, <2>2 DEF RelayInv
<1>8. MonoInv
  BY <1>1 DEF MonoInv
<1>9. QED
  BY <1>6, <1>7, <1>8

Inv == KeyInv /\ StateInv /\ RelayInv /\ MonoInv

(* The inductive invariant: the state is well formed, an alert waits once, and
   _count_mono misses no timestamp out of order. *)
THEOREM CorrelatorInvariant == Spec => []Inv
<1>1. Init => StateInv /\ RelayInv /\ MonoInv
  BY InitHolds
<1>2. (StateInv /\ RelayInv /\ MonoInv) /\ [Next]_vars => (StateInv /\ RelayInv /\ MonoInv)'
  BY StateStep, RelayStep, MonoStep
<1>3. QED
  BY <1>1, <1>2, KeysAreRemembered, PTL DEF Spec, Inv

(* Every variable has its type: among others, what was fed was stamped,
   MonPoly's lines are from the past, and the keys are those of the incidents. *)
THEOREM TypeCorrect == Spec => []TypeOK
<1>1. Inv => TypeOK
  <2> SUFFICES ASSUME Inv
               PROVE  TypeOK
    OBVIOUS
  <2>1. mono.viol \in 0..MaxAlerts
    <3>1. IsFiniteSet(alerts) /\ Cardinality(alerts) <= MaxAlerts /\ mono.viol \in Nat
      BY DEF Inv, StateInv
    <3>2. Cardinality(alerts \ Waiting) <= Cardinality(alerts)
      BY <3>1, FS_Subset
    <3>3. Cardinality(alerts \ Waiting) \in Nat /\ Cardinality(alerts) \in Nat
      BY <3>1, FS_Difference, FS_CardinalityType
    <3>4. mono.viol <= Cardinality(alerts \ Waiting) /\ MaxAlerts \in Nat
      BY CorrelatorAssumption DEF Inv, RelayInv
    <3>5. QED
      BY <3>1, <3>2, <3>3, <3>4
  <2>2. ~status => ~alive
    BY Zenon DEF Inv, StateInv
  <2>3. emitted = {Key(i.dev, i.ts) : i \in incidents}
    BY DEF Inv, KeyInv, Remembered
  <2>4. QED
    BY <2>1, <2>2, <2>3 DEF Inv, StateInv, TypeOK
<1>2. QED
  BY <1>1, CorrelatorInvariant, PTL

(* backend_l3.py:229-233: where _count_mono has counted nothing, MonPoly has
   dropped no event. *)
THEOREM MonoIsHonest == Spec => []MonoReportsRejections
<1>1. Inv => MonoReportsRejections
  BY DEF Inv, MonoInv, MonoReportsRejections
<1>2. QED
  BY <1>1, CorrelatorInvariant, PTL
-----------------------------------------------------------------------------
(* What an engine has to show for an incident. *)
LEMMA RealIf ==
  ASSUME NEW i, NEW S \in SUBSET alerts
  PROVE  /\ engine = "P3.1" /\ (\A a \in S : a.dev = i.dev) /\ AptIsReal(S) => Real(i)
         /\ engine = "P3.2" /\ CoordinatedIsReal(S) => Real(i)
         /\ engine = "P3.3" /\ (\A a \in S : a.dev = i.dev) /\ EscalationIsReal(S) => Real(i)
         /\ engine = "P3.4" /\ (\A a \in S : a.dev = i.dev) /\ PersistentIsReal(S) => Real(i)
         /\ engine = "P3.6" /\ CampaignIsReal(S) => Real(i)
<1>1. (\A a \in S : a.dev = i.dev) \/ engine \in {"P3.2", "P3.6"}
        => S \in SUBSET {a \in alerts : engine \in {"P3.2", "P3.6"} \/ a.dev = i.dev}
  OBVIOUS
<1>2. engine = "P3.1" /\ (\A a \in S : a.dev = i.dev) /\ AptIsReal(S) => Real(i)
  BY <1>1, Zenon DEF Real
<1>3. engine = "P3.2" /\ CoordinatedIsReal(S) => Real(i)
  BY <1>1, Zenon DEF Real
<1>4. engine = "P3.3" /\ (\A a \in S : a.dev = i.dev) /\ EscalationIsReal(S) => Real(i)
  BY <1>1, Zenon DEF Real
<1>5. engine = "P3.4" /\ (\A a \in S : a.dev = i.dev) /\ PersistentIsReal(S) => Real(i)
  BY <1>1, Zenon DEF Real
<1>6. engine = "P3.6" /\ CampaignIsReal(S) => Real(i)
  BY <1>1, Zenon DEF Real
<1>7. QED
  BY <1>2, <1>3, <1>4, <1>5, <1>6

(* An incident stays real when more alerts are stamped. *)
LEMMA RealGrows ==
  ASSUME NEW i, Real(i), engine \in AllEngines, UNCHANGED <<engine, home>>, alerts \subseteq alerts'
  PROVE  Real(i)'
<1>1. PICK S \in SUBSET {a \in alerts : engine \in {"P3.2", "P3.6"} \/ a.dev = i.dev} :
             CASE engine = "P3.1" -> AptIsReal(S)
               [] engine = "P3.2" -> CoordinatedIsReal(S)
               [] engine = "P3.3" -> EscalationIsReal(S)
               [] engine = "P3.4" -> PersistentIsReal(S)
               [] engine = "P3.6" -> CampaignIsReal(S)
  BY Zenon DEF Real
<1>2. S \in SUBSET {a \in alerts' : engine' \in {"P3.2", "P3.6"} \/ a.dev = i.dev}
  OBVIOUS
<1>3. CampaignIsReal(S)' = CampaignIsReal(S) /\ engine' = engine
  BY DEF CampaignIsReal
<1>4. engine \in {"P3.1", "P3.2", "P3.3", "P3.4", "P3.6"}
  BY DEF AllEngines
<1>5. CASE engine = "P3.1"
  BY <1>1, <1>2, <1>3, <1>5, Zenon DEF Real
<1>6. CASE engine = "P3.2"
  BY <1>1, <1>2, <1>3, <1>6, Zenon DEF Real
<1>7. CASE engine = "P3.3"
  BY <1>1, <1>2, <1>3, <1>7, Zenon DEF Real
<1>8. CASE engine = "P3.4"
  BY <1>1, <1>2, <1>3, <1>8, Zenon DEF Real
<1>9. CASE engine = "P3.6"
  BY <1>1, <1>2, <1>3, <1>9, Zenon DEF Real
<1>10. QED
  BY <1>4, <1>5, <1>6, <1>7, <1>8, <1>9

(* Alerts stamped within w of one another are as close in true time, but for
   the skew where their clocks differ. *)
LEMMA StampsAreTrue ==
  ASSUME StateInv, NEW S \in SUBSET alerts, NEW w \in Nat, NEW ts \in Nat,
         \A a \in S : a.ts <= ts /\ ts <= a.ts + w
  PROVE  /\ (\A a, b \in S : a.dev = b.dev) => Together(S, w)
         /\ Together(S, w + Skew)
<1>1. ASSUME NEW a \in S, NEW b \in S
      PROVE  /\ a.dev = b.dev => Apart(a.at, b.at) <= w
             /\ Apart(a.at, b.at) <= w + Skew
  <2> DEFINE x == offset[home[a.dev]]
             y == offset[home[b.dev]]
  <2>1. /\ a.at \in Nat /\ a.ts \in Nat /\ x \in 0..Skew /\ a.ts = a.at + x
        /\ a.ts <= ts /\ ts <= a.ts + w
    BY AlertFacts
  <2>2. /\ b.at \in Nat /\ b.ts \in Nat /\ y \in 0..Skew /\ b.ts = b.at + y
        /\ b.ts <= ts /\ ts <= b.ts + w
    BY AlertFacts
  <2>3. Skew \in Nat /\ (a.dev = b.dev => x = y)
    BY CorrelatorAssumption
  <2> HIDE DEF x, y
  <2>4. QED
    BY <2>1, <2>2, <2>3 DEF Apart
<1>2. QED
  BY <1>1 DEF Together

(* What the five formulas find is what they are to find. *)
LEMMA FoundIsReal ==
  ASSUME StateInv, NEW A \in SUBSET alerts, NEW ts \in Nat, NEW i, i.dev \in Satisfied(A, ts)
  PROVE  Real(i)
<1> DEFINE w == Window[engine]
<1>1. engine \in {"P3.1", "P3.2", "P3.3", "P3.4", "P3.6"} /\ w \in Nat
  <2>1. engine \in AllEngines
    BY CorrelatorAssumption DEF StateInv
  <2>2. QED
    BY <2>1, CorrelatorAssumption DEF AllEngines
<1>2. \A a \in A : a \in alerts /\ a.ts \in Nat
  BY AlertFacts
<1>3. CASE engine = "P3.1"
  <2>1. i.dev \in AptIndicator(A, ts)
    BY <1>3, Formulas
  <2>2. PICK p \in Attacks, q \in Attacks :
          p # q /\ \A k \in {p, q} : Of(Once(A, ts, 0, Window["P3.1"]), k, i.dev) # {}
    BY <2>1 DEF AptIndicator
  <2>3. PICK a \in Of(Once(A, ts, 0, Window["P3.1"]), p, i.dev) : TRUE
    BY <2>2
  <2>4. PICK b \in Of(Once(A, ts, 0, Window["P3.1"]), q, i.dev) : TRUE
    BY <2>2
  <2>5. /\ a \in alerts /\ a.kind = p /\ a.dev = i.dev /\ a.ts <= ts /\ ts <= a.ts + w
        /\ b \in alerts /\ b.kind = q /\ b.dev = i.dev /\ b.ts <= ts /\ ts <= b.ts + w
    BY <1>2, <1>3, <2>3, <2>4 DEF Of, Once
  <2> DEFINE S == {a, b}
  <2>6. Together(S, Window["P3.1"])
    <3>1. /\ S \in SUBSET alerts /\ \A c \in S : c.ts <= ts /\ ts <= c.ts + w
          /\ \A c, d \in S : c.dev = d.dev
      BY <2>5
    <3>2. QED
      BY <1>1, <1>3, <3>1, StampsAreTrue
  <2>7. Cardinality({c.kind : c \in S} \cap Attacks) >= 2
    <3>1. {c.kind : c \in S} \cap Attacks = {p, q}
      BY <2>5
    <3>2. Cardinality({p, q}) = 2
      <4>1. Cardinality({p}) = 1 /\ IsFiniteSet({p})
        BY FS_Singleton
      <4>2. Cardinality({p} \cup {q}) = Cardinality({p}) + 1
        BY <2>2, <4>1, FS_AddElement
      <4>3. {p} \cup {q} = {p, q}
        OBVIOUS
      <4>4. QED
        BY <4>1, <4>2, <4>3
    <3>3. QED
      BY <3>1, <3>2
  <2>8. S \in SUBSET alerts /\ \A c \in S : c.dev = i.dev
    BY <2>5
  <2> HIDE DEF S
  <2>9. QED
    BY <1>3, <2>6, <2>7, <2>8, RealIf DEF AptIsReal
<1>4. CASE engine = "P3.2"
  <2> DEFINE S == {b \in Once(A, ts, 0, Window["P3.2"]) : b.kind = "overflow"}
  <2>1. Cardinality({a.dev : a \in S}) >= MinDevices
    BY <1>4, Formulas DEF CoordinatedAttack
  <2>2. S \in SUBSET alerts /\ \A a \in S : a.kind = "overflow" /\ a.ts <= ts /\ ts <= a.ts + w
    BY <1>2, <1>4 DEF Once
  <2> HIDE DEF S
  <2>3. Together(S, Window["P3.2"] + Skew)
    BY <1>1, <1>4, <2>2, StampsAreTrue
  <2>4. QED
    BY <1>4, <2>1, <2>2, <2>3, RealIf DEF CoordinatedIsReal
<1>5. CASE engine = "P3.3"
  <2> DEFINE d == i.dev
             x == offset[home[d]]
  <2>1. d \in EscalationPattern(A, ts)
    BY <1>5, Formulas
  <2>2. PICK a \in Of(Once(A, ts, Settled, Window["P3.3"]), "safe_tx", d) : TRUE
    BY <2>1 DEF EscalationPattern
  <2>3. PICK b \in Of(Once(A, ts, 0, Recent), "overflow", d) : TRUE
    BY <2>1 DEF EscalationPattern
  <2>4. PICK c \in Of(Once(A, ts, 0, Recent), "time_anomaly", d) : TRUE
    BY <2>1 DEF EscalationPattern
  <2>5. /\ a \in alerts /\ a.kind = "safe_tx" /\ a.dev = d /\ a.ts + Settled <= ts /\ ts <= a.ts + w
        /\ b \in alerts /\ b.kind = "overflow" /\ b.dev = d /\ b.ts <= ts /\ ts <= b.ts + Recent
        /\ c \in alerts /\ c.kind = "time_anomaly" /\ c.dev = d /\ c.ts <= ts /\ ts <= c.ts + Recent
    BY <1>2, <1>5, <2>2, <2>3, <2>4 DEF Of, Once
  <2>6. /\ a.at \in Nat /\ a.ts \in Nat /\ a.ts = a.at + x
        /\ b.at \in Nat /\ b.ts \in Nat /\ b.ts = b.at + x
        /\ c.at \in Nat /\ c.ts \in Nat /\ c.ts = c.at + x /\ x \in Nat
    <3>1. Skew \in Nat
      BY CorrelatorAssumption
    <3>2. QED
      BY <2>5, <3>1, AlertFacts
  <2>7. Settled \in Nat /\ Recent \in Nat /\ Settled <= Recent /\ Recent <= w
    BY <1>5, CorrelatorAssumption
  <2> HIDE DEF w, x, d
  <2>8. /\ Apart(a.at, a.at) <= w /\ Apart(b.at, b.at) <= Recent /\ Apart(c.at, c.at) <= Recent
        /\ Apart(a.at, b.at) <= w /\ Apart(b.at, a.at) <= w
        /\ Apart(a.at, c.at) <= w /\ Apart(c.at, a.at) <= w
        /\ Apart(b.at, c.at) <= Recent /\ Apart(c.at, b.at) <= Recent
        /\ Apart(b.at, b.at) <= w /\ Apart(c.at, c.at) <= w
        /\ Apart(b.at, c.at) <= w /\ Apart(c.at, b.at) <= w
    BY <1>1, <2>5, <2>6, <2>7 DEF Apart
  <2>9. /\ a.at + Settled <= a.at + Recent /\ a.at + Settled <= b.at + Recent
        /\ a.at + Settled <= c.at + Recent
    BY <2>5, <2>6, <2>7
  <2> DEFINE S == {a, b, c}
  <2>10. Together(S, Window["P3.3"])
    <3>1. Together(S, w)
      BY <2>8 DEF Together
    <3>2. QED
      BY <1>5, <3>1 DEF w
  <2>11. Together({e \in S : e.kind # "safe_tx"}, Recent)
    <3>1. \A e \in {e \in S : e.kind # "safe_tx"} : e = b \/ e = c
      BY <2>5
    <3>2. QED
      BY <2>8, <3>1 DEF Together
  <2>12. \A e, f \in S : e.kind = "safe_tx" => e.at + Settled <= f.at + Recent
    <3>1. \A e \in S : e.kind = "safe_tx" => e = a
      BY <2>5
    <3>2. QED
      BY <2>9, <3>1
  <2>13. \A k \in {"safe_tx", "overflow", "time_anomaly"} : \E e \in S : e.kind = k
    BY <2>5
  <2>14. S \in SUBSET alerts /\ \A e \in S : e.dev = i.dev
    BY <2>5 DEF d
  <2> HIDE DEF S
  <2>15. EscalationIsReal(S)
    BY <2>10, <2>11, <2>12, <2>13 DEF EscalationIsReal
  <2>16. QED
    BY <1>5, <2>14, <2>15, RealIf
<1>6. CASE engine = "P3.4"
  <2> DEFINE S == Of(Once(A, ts, 0, Window["P3.4"]), "overflow", i.dev)
             x == offset[home[i.dev]]
  <2>1. Cardinality({a.ts : a \in S}) >= MinOverflows
    BY <1>6, Formulas DEF PersistentThreat
  <2>2. /\ S \in SUBSET alerts /\ \A a \in S : a.ts <= ts /\ ts <= a.ts + w
        /\ \A a \in S : a.kind = "overflow" /\ a.dev = i.dev
    BY <1>2, <1>6 DEF Of, Once
  <2> HIDE DEF S
  <2>3. Together(S, Window["P3.4"])
    BY <1>1, <1>6, <2>2, StampsAreTrue
  <2>4. Cardinality({a.at : a \in S}) >= MinOverflows
    <3> DEFINE P == {a.at : a \in S}
               Q == {a.ts : a \in S}
               f == [p \in P |-> p + x]
    <3>1. \A a \in S : a.ts = a.at + x
      BY <2>2, AlertFacts
    <3>2. IsFiniteSet(P)
      <4>1. IsFiniteSet(S)
        BY <2>2, FS_Subset DEF StateInv
      <4> DEFINE h == [a \in S |-> a.at]
      <4>2. h \in Surjection(S, P)
        BY DEF Surjection
      <4> HIDE DEF h, P
      <4>3. QED
        BY <4>1, <4>2, FS_Surjection
    <3>3. f \in Surjection(P, Q)
      <4>1. \A p \in P : f[p] \in Q
        BY <3>1
      <4>2. \A q \in Q : \E p \in P : f[p] = q
        BY <3>1
      <4> HIDE DEF P, Q
      <4>3. f \in [P -> Q]
        BY <4>1
      <4>4. QED
        BY <4>2, <4>3 DEF Surjection
    <3> HIDE DEF P, Q, f
    <3>4. IsFiniteSet(Q) /\ Cardinality(Q) <= Cardinality(P)
      BY <3>2, <3>3, FS_Surjection
    <3>5. Cardinality(P) \in Nat /\ Cardinality(Q) \in Nat /\ MinOverflows \in Nat
      BY <3>2, <3>4, FS_CardinalityType, CorrelatorAssumption
    <3>6. Cardinality(Q) >= MinOverflows
      BY <2>1 DEF Q
    <3>7. Cardinality(P) >= MinOverflows
      BY <3>4, <3>5, <3>6
    <3>8. QED
      BY <3>7 DEF P
  <2>5. QED
    BY <1>6, <2>2, <2>3, <2>4, RealIf DEF PersistentIsReal
<1>7. CASE engine = "P3.6"
  <2> DEFINE S == {b \in Once(A, ts, 0, Window["P3.6"]) : b.kind = "overflow"}
  <2>1. Cardinality({home[a.dev] : a \in S}) >= MinGateways
    BY <1>7, Formulas DEF CrossGatewayCampaign
  <2>2. S \in SUBSET alerts /\ \A a \in S : a.kind = "overflow" /\ a.ts <= ts /\ ts <= a.ts + w
    BY <1>2, <1>7 DEF Once
  <2> HIDE DEF S
  <2>3. Together(S, Window["P3.6"] + Skew)
    BY <1>1, <1>7, <2>2, StampsAreTrue
  <2>4. QED
    BY <1>7, <2>1, <2>2, <2>3, RealIf DEF CampaignIsReal
<1>8. QED
  BY <1>1, <1>3, <1>4, <1>5, <1>6, <1>7
-----------------------------------------------------------------------------
(* The lines on their way from MonPoly to an incident. *)
Lines == Elems(out) \cup Elems(queue)

(* A thread hands a line on, or makes incidents of it. *)
LEMMA ReaderMoves ==
  ASSUME StateInv, Read \/ Collect
  PROVE  /\ UNCHANGED <<engine, host, home, offset, relay, mono, alive, accepted, newest, alerts, rejected>>
         /\ \/ UNCHANGED <<emitted, incidents>> /\ Lines' = Lines
            \/ \E l \in Lines : Emit(l) /\ Lines = Lines' \cup {l}
<1>1. UNCHANGED <<engine, host, home, offset, relay, mono, alive, accepted, newest, alerts, rejected>>
  BY DEF Read, Collect, setting, monpoly
<1>2. out \in Seq(Line) /\ queue \in Seq(Line)
  BY DEF StateInv
<1>3. Lines' = Elems(out') \cup Elems(queue')
  BY DEF Lines, Elems
<1>4. CASE Read
  <2>1. out # <<>> /\ out' = Tail(out)
    BY <1>4 DEF Read
  <2>2. Elems(out) = Elems(out') \cup {out[1]} /\ Head(out) = out[1] /\ out[1] \in Line
    BY <1>2, <2>1, TailFacts
  <2>3. CASE Emit(Head(out)) /\ UNCHANGED queue
    BY <1>1, <1>3, <2>2, <2>3 DEF Lines
  <2>4. CASE queue' = Append(queue, Head(out)) /\ UNCHANGED <<emitted, incidents>>
    <3>1. Elems(queue') = Elems(queue) \cup {out[1]}
      BY <1>2, <2>2, <2>4, AppendFacts
    <3>2. QED
      BY <1>1, <1>3, <2>2, <2>4, <3>1 DEF Lines
  <2>5. QED
    BY <1>4, <2>3, <2>4 DEF Read
<1>5. CASE Collect
  <2>1. queue # <<>> /\ queue' = Tail(queue) /\ out' = out /\ Emit(Head(queue))
    BY <1>5 DEF Collect
  <2>2. Elems(queue) = Elems(queue') \cup {queue[1]} /\ Head(queue) = queue[1]
    BY <1>2, <2>1, TailFacts
  <2>3. QED
    BY <1>1, <1>3, <2>1, <2>2 DEF Lines
<1>6. QED
  BY <1>4, <1>5

(* MonPoly adds a line, if any, for the alert it takes. *)
LEMMA FeedAddsLine ==
  ASSUME StateInv, NEW g \in Gateways, Feed(g), NEW a, a = relay[g][1]
  PROVE  \/ Lines' = Lines /\ (Taken(a) => Satisfied(accepted', a.ts) = {})
         \/ Taken(a) /\ Lines' = Lines \cup {[tp |-> Cardinality(accepted), ts |-> a.ts,
                                              subjects |-> Satisfied(accepted', a.ts)]}
<1>1. /\ StateInv' /\ queue' = queue /\ a \in alerts
      /\ Taken(a) \/ Dropped(a) \/ Unheard(a) \/ Skipped(a)
  BY FeedKeepsState, FeedFacts
<1>2. Lines' = Elems(out') \cup Elems(queue)
  BY <1>1 DEF Lines, Elems
<1>3. out' = out => Lines' = Lines
  BY <1>2 DEF Lines
<1>4. CASE Taken(a)
  <2> DEFINE l == [tp |-> Cardinality(accepted), ts |-> a.ts, subjects |-> Satisfied(accepted', a.ts)]
  <2>1. \/ out' = out /\ Satisfied(accepted', a.ts) = {}
        \/ out' = Append(out, l)
    BY <1>4 DEF Taken
  <2>2. out \in Seq(Line \cup {l}) /\ l \in Line \cup {l}
    <3>1. out \in Seq(Line)
      BY DEF StateInv
    <3> HIDE DEF l
    <3>2. out \in [1..Len(out) -> Line] /\ Len(out) \in Nat
      BY <3>1
    <3>3. out \in [1..Len(out) -> Line \cup {l}]
      BY <3>2
    <3>4. QED
      BY <3>2, <3>3, SeqDef
  <2>3. Elems(Append(out, l)) = Elems(out) \cup {l}
    <3> HIDE DEF l
    <3>1. QED
      BY <2>2, AppendFacts
  <2>4. CASE out' = Append(out, l)
    <3>1. Lines' = Lines \cup {l}
      BY <1>2, <2>3, <2>4 DEF Lines
    <3>2. QED
      BY <1>4, <3>1
  <2>5. QED
    BY <1>3, <2>1, <2>4
<1>5. CASE ~Taken(a)
  <2>1. out' = out
    BY <1>1, <1>5 DEF Dropped, Unheard, Skipped
  <2>2. QED
    BY <1>3, <1>5, <2>1
<1>6. QED
  BY <1>4, <1>5

(* A line, and an incident, is real for each of its subjects. *)
RealInv ==
  /\ \A l \in Lines : \A s \in l.subjects : Real([tp |-> l.tp, ts |-> l.ts, dev |-> s])
  /\ IncidentIsReal

(* What is real stays real, and what MonPoly writes is real. *)
LEMMA RealStep ==
  ASSUME StateInv, RealInv, [Next]_vars
  PROVE  RealInv'
<1>1. UNCHANGED <<engine, home>> /\ engine \in AllEngines
  BY SettingStays, CorrelatorAssumption DEF StateInv
<1>2. alerts \subseteq alerts'
  <2>1. CASE \E d \in Devices, k \in Kinds[engine] : Alert(d, k)
    BY <2>1 DEF Alert
  <2>2. CASE UNCHANGED alerts
    BY <2>2
  <2>3. QED
    BY <2>1, <2>2 DEF Next, vars, Second, EngineDies, Read, ReaderEnds, Collect, Checked, Close,
                      Shutdown, Quiet, Feed, Take
<1>3. \A i : Real(i) => Real(i)'
  BY <1>1, <1>2, RealGrows
<1>4. ASSUME Lines' = Lines, incidents' = incidents
      PROVE  RealInv'
  <2>1. \A l \in Lines' : \A s \in l.subjects : Real([tp |-> l.tp, ts |-> l.ts, dev |-> s])'
    BY <1>3, <1>4 DEF RealInv
  <2>2. \A i \in incidents' : Real(i)'
    BY <1>3, <1>4 DEF RealInv, IncidentIsReal
  <2>3. QED
    BY <2>1, <2>2 DEF RealInv, IncidentIsReal
<1>5. ASSUME NEW g \in Gateways, Feed(g)
      PROVE  RealInv'
  <2>1. PICK a : a = relay[g][1]
    OBVIOUS
  <2>2. PICK l : l = [tp |-> Cardinality(accepted), ts |-> a.ts, subjects |-> Satisfied(accepted', a.ts)]
    OBVIOUS
  <2>3. incidents' = incidents /\ a \in alerts /\ StateInv' /\ alerts' = alerts
    BY <1>5, <2>1, FeedFacts, FeedKeepsState
  <2>4. Lines' = Lines \/ (Taken(a) /\ Lines' = Lines \cup {l})
    BY <1>5, <2>1, <2>2, FeedAddsLine
  <2>5. CASE Taken(a) /\ Lines' = Lines \cup {l}
    <3>1. accepted' \in SUBSET alerts /\ a.ts \in Nat
      BY <2>3, AlertFacts DEF StateInv
    <3>2. ASSUME NEW s \in l.subjects
          PROVE  Real([tp |-> l.tp, ts |-> l.ts, dev |-> s])
      <4>1. s \in Satisfied(accepted', a.ts)
        BY <2>2
      <4> DEFINE i == [tp |-> l.tp, ts |-> l.ts, dev |-> s]
      <4>2. i.dev = s
        OBVIOUS
      <4> HIDE DEF i
      <4>3. Real(i)
        BY <3>1, <4>1, <4>2, FoundIsReal
      <4>4. QED
        BY <4>3 DEF i
    <3>3. \A m \in Lines' : \A s \in m.subjects : Real([tp |-> m.tp, ts |-> m.ts, dev |-> s])'
      BY <1>3, <2>5, <3>2 DEF RealInv
    <3>4. \A i \in incidents' : Real(i)'
      BY <1>3, <2>3 DEF RealInv, IncidentIsReal
    <3>5. QED
      BY <3>3, <3>4 DEF RealInv, IncidentIsReal
  <2>6. QED
    BY <1>4, <2>3, <2>4, <2>5
<1>6. CASE Read \/ Collect
  <2>1. CASE UNCHANGED <<emitted, incidents>> /\ Lines' = Lines
    BY <1>4, <2>1
  <2>2. ASSUME NEW l \in Lines, Emit(l), Lines = Lines' \cup {l}
        PROVE  RealInv'
    <3>1. \A m \in Lines' : \A s \in m.subjects : Real([tp |-> m.tp, ts |-> m.ts, dev |-> s])'
      BY <1>3, <2>2 DEF RealInv
    <3>2. ASSUME NEW i \in incidents'
          PROVE  Real(i)'
      <4>1. incidents' = incidents \cup Made(l)
        BY <2>2 DEF Emit, Made, New
      <4>2. CASE i \in incidents
        BY <1>3, <4>2 DEF RealInv, IncidentIsReal
      <4>3. CASE i \in Made(l)
        <5>1. PICK s \in l.subjects : i = [tp |-> l.tp, ts |-> l.ts, dev |-> s]
          BY <4>3 DEF Made, New
        <5>2. QED
          BY <1>3, <5>1 DEF RealInv
      <4>4. QED
        BY <4>1, <4>2, <4>3
    <3>3. QED
      BY <3>1, <3>2 DEF RealInv, IncidentIsReal
  <2>3. QED
    BY <1>6, <2>1, <2>2, ReaderMoves
<1>7. CASE UNCHANGED <<out, queue, incidents>>
  BY <1>4, <1>7 DEF Lines, Elems
<1>8. CASE Second \/ EngineDies \/ ReaderEnds \/ Checked \/ Close \/ Shutdown
  BY <1>7, <1>8 DEF Second, EngineDies, ReaderEnds, Checked, Close, Shutdown, output
<1>9. CASE UNCHANGED vars
  BY <1>7, <1>9 DEF vars, output
<1>10. ASSUME NEW d \in Devices, NEW k \in Kinds[engine], Alert(d, k)
       PROVE  RealInv'
  BY <1>7, <1>10 DEF Alert, output
<1>11. QED
  BY <1>5, <1>6, <1>8, <1>9, <1>10 DEF Next, Quiet

(* p3_1_apt.mfotl:16-17 to p3_6_crossgw.mfotl:8-9: an incident rests on alerts
   of its kinds that lie within its window of true time, give or take the skew
   between gateways, whatever the clocks, the relays and the threads do. *)
THEOREM IncidentsAreReal == Spec => []IncidentIsReal
<1>1. Init => RealInv
  BY DEF Init, RealInv, IncidentIsReal, Lines, Elems
<1>2. StateInv /\ RealInv /\ [Next]_vars => RealInv'
  BY RealStep
<1>3. Inv => StateInv
  BY DEF Inv
<1>4. RealInv => IncidentIsReal
  BY DEF RealInv
<1>5. QED
  BY <1>1, <1>2, <1>3, <1>4, CorrelatorInvariant, PTL DEF Spec
-----------------------------------------------------------------------------
(* The alerts of kind k that Due(a) looks back at. *)
Near(a, k, w) == {b \in alerts : b.kind = k /\ b.ts <= a.ts /\ a.ts - b.ts <= w}

(* What Due asks of each engine. *)
LEMMA DueIs ==
  ASSUME NEW a
  PROVE  /\ engine = "P3.1" => Due(a) = {d \in Devices :
              Cardinality({k \in Attacks : \E b \in Near(a, k, Window["P3.1"]) : b.dev = d}) > 1}
         /\ engine = "P3.2" => Due(a) = {n \in {NoDevice} :
              Cardinality({b.dev : b \in Near(a, "overflow", Window[engine])}) >= MinDevices}
         /\ engine = "P3.3" => Due(a) = {d \in Devices :
              /\ \E b \in Near(a, "safe_tx", Window["P3.3"]) : b.dev = d /\ a.ts - b.ts >= Settled
              /\ \E b \in Near(a, "overflow", Recent), c \in Near(a, "time_anomaly", Recent) :
                   {b.dev, c.dev} = {d}}
         /\ engine = "P3.4" => Due(a) = {d \in Devices :
              Cardinality({b.ts : b \in {c \in Near(a, "overflow", Window[engine]) : c.dev = d}})
                >= MinOverflows}
         /\ engine = "P3.6" => Due(a) = {n \in {NoDevice} :
              Cardinality({home[b.dev] : b \in Near(a, "overflow", Window[engine])}) >= MinGateways}
<1>1. engine = "P3.1" => Due(a) = {d \in Devices :
              Cardinality({k \in Attacks : \E b \in Near(a, k, Window["P3.1"]) : b.dev = d}) > 1}
  BY Zenon DEF Due, Near
<1>2. engine = "P3.2" => Due(a) = {n \in {NoDevice} :
              Cardinality({b.dev : b \in Near(a, "overflow", Window[engine])}) >= MinDevices}
  BY Zenon DEF Due, Near
<1>3. engine = "P3.3" => Due(a) = {d \in Devices :
              /\ \E b \in Near(a, "safe_tx", Window["P3.3"]) : b.dev = d /\ a.ts - b.ts >= Settled
              /\ \E b \in Near(a, "overflow", Recent), c \in Near(a, "time_anomaly", Recent) :
                   {b.dev, c.dev} = {d}}
  BY Zenon DEF Due, Near
<1>4. engine = "P3.4" => Due(a) = {d \in Devices :
              Cardinality({b.ts : b \in {c \in Near(a, "overflow", Window[engine]) : c.dev = d}})
                >= MinOverflows}
  BY Zenon DEF Due, Near
<1>5. engine = "P3.6" => Due(a) = {n \in {NoDevice} :
              Cardinality({home[b.dev] : b \in Near(a, "overflow", Window[engine])}) >= MinGateways}
  BY Zenon DEF Due, Near
<1>6. QED
  BY <1>1, <1>2, <1>3, <1>4, <1>5

(* A set with more than one element has two. *)
LEMMA MoreThanOne ==
  ASSUME NEW S, IsFiniteSet(S), Cardinality(S) > 1
  PROVE  \E p, q \in S : p # q
<1> SUFFICES ASSUME \A p, q \in S : p = q
             PROVE  FALSE
  OBVIOUS
<1>1. S # {}
  BY FS_EmptySet
<1>2. PICK p \in S : TRUE
  BY <1>1
<1>3. S = {p}
  BY <1>2
<1>4. Cardinality({p}) = 1
  BY FS_Singleton
<1>5. Cardinality(S) = 1
  BY <1>3, <1>4
<1>6. QED
  BY <1>5

(* MonPoly finds what is due once it has every alert the engine is fed. *)
LEMMA DueIsFound ==
  ASSUME StateInv, NEW A \in SUBSET alerts, \A b \in alerts : b.kind \in Useful => b \in A,
         NEW a \in alerts, NEW s \in Due(a)
  PROVE  s \in Satisfied(A, a.ts)
<1>1. engine \in {"P3.1", "P3.2", "P3.3", "P3.4", "P3.6"}
  BY CorrelatorAssumption DEF StateInv, AllEngines
<1>2. a.ts \in Nat /\ \A b \in alerts : b.ts \in Nat
  BY AlertFacts
<1>3. ASSUME NEW k \in Useful, NEW w \in Nat
      PROVE  Near(a, k, w) = {b \in Once(A, a.ts, 0, w) : b.kind = k}
  <2>1. \A b \in alerts : (b.ts + 0 <= a.ts /\ a.ts <= b.ts + w) <=> (b.ts <= a.ts /\ a.ts - b.ts <= w)
    BY <1>2
  <2>2. QED
    BY <2>1 DEF Near, Once
<1>4. "overflow" \in Useful /\ (engine # "P3.6" => Useful = Predicates)
  BY DEF Useful, Predicates
<1>5. Window[engine] \in Nat /\ Recent \in Nat /\ Settled \in Nat
  <2>1. engine \in AllEngines
    BY <1>1 DEF AllEngines
  <2>2. QED
    BY <2>1, CorrelatorAssumption
<1>6. CASE engine = "P3.1"
  <2>1. s \in Devices /\ Cardinality({k \in Attacks : \E b \in Near(a, k, Window["P3.1"]) : b.dev = s}) > 1
    BY <1>6, DueIs
  <2>2. IsFiniteSet({k \in Attacks : \E b \in Near(a, k, Window["P3.1"]) : b.dev = s})
    <3>1. IsFiniteSet(Attacks)
      <4>1. IsFiniteSet({"overflow"}) /\ IsFiniteSet({"time_anomaly"}) /\ IsFiniteSet({"fuzzing"})
        BY FS_Singleton
      <4>2. IsFiniteSet(({"overflow"} \cup {"time_anomaly"}) \cup {"fuzzing"})
        BY <4>1, FS_Union
      <4>3. ({"overflow"} \cup {"time_anomaly"}) \cup {"fuzzing"} = Attacks
        BY DEF Attacks
      <4>4. QED
        BY <4>2, <4>3
    <3>2. QED
      BY <3>1, FS_Subset
  <2>3. PICK p \in Attacks, q \in Attacks :
          /\ p # q
          /\ \E b \in Near(a, p, Window["P3.1"]) : b.dev = s
          /\ \E b \in Near(a, q, Window["P3.1"]) : b.dev = s
    BY <2>1, <2>2, MoreThanOne
  <2>4. ASSUME NEW k \in {p, q}
        PROVE  Of(Once(A, a.ts, 0, Window["P3.1"]), k, s) # {}
    <3>1. k \in Useful
      BY <1>4, <1>6 DEF Attacks, Predicates
    <3>2. PICK b \in Near(a, k, Window["P3.1"]) : b.dev = s
      BY <2>3
    <3>3. b \in Once(A, a.ts, 0, Window["P3.1"]) /\ b.kind = k
      BY <1>3, <1>5, <1>6, <3>1
    <3>4. QED
      BY <3>2, <3>3 DEF Of
  <2>5. s \in AptIndicator(A, a.ts)
    BY <2>1, <2>3, <2>4 DEF AptIndicator
  <2>6. QED
    BY <1>6, <2>5, Formulas
<1>7. CASE engine = "P3.2"
  <2>1. s \in {n \in {NoDevice} :
               Cardinality({b.dev : b \in Near(a, "overflow", Window["P3.2"])}) >= MinDevices}
    BY <1>7, DueIs
  <2>2. Near(a, "overflow", Window["P3.2"])
          = {b \in Once(A, a.ts, 0, Window["P3.2"]) : b.kind = "overflow"}
    BY <1>3, <1>4, <1>5, <1>7
  <2>3. s \in CoordinatedAttack(A, a.ts)
    BY <2>1, <2>2 DEF CoordinatedAttack
  <2>4. QED
    BY <1>7, <2>3, Formulas
<1>8. CASE engine = "P3.3"
  <2>1. /\ s \in Devices
        /\ \E b \in Near(a, "safe_tx", Window["P3.3"]) : b.dev = s /\ a.ts - b.ts >= Settled
        /\ \E b \in Near(a, "overflow", Recent), c \in Near(a, "time_anomaly", Recent) :
             {b.dev, c.dev} = {s}
    BY <1>8, DueIs
  <2>2. {"safe_tx", "overflow", "time_anomaly"} \subseteq Useful
    BY <1>4, <1>8 DEF Predicates
  <2>3. Of(Once(A, a.ts, Settled, Window["P3.3"]), "safe_tx", s) # {}
    <3>1. PICK b \in Near(a, "safe_tx", Window["P3.3"]) : b.dev = s /\ a.ts - b.ts >= Settled
      BY <2>1
    <3>2. b \in A /\ b.kind = "safe_tx" /\ b.ts <= a.ts /\ a.ts - b.ts <= Window["P3.3"] /\ b.ts \in Nat
      BY <1>2, <2>2, <3>1 DEF Near
    <3>3. b.ts + Settled <= a.ts /\ a.ts <= b.ts + Window["P3.3"]
      BY <1>2, <1>5, <1>8, <3>1, <3>2
    <3>4. QED
      BY <3>1, <3>2, <3>3 DEF Of, Once
  <2>4. ASSUME NEW k \in {"overflow", "time_anomaly"}
        PROVE  Of(Once(A, a.ts, 0, Recent), k, s) # {}
    <3>1. PICK b \in Near(a, k, Recent) : b.dev = s
      BY <2>1
    <3>2. b \in Once(A, a.ts, 0, Recent) /\ b.kind = k
      BY <1>3, <1>5, <2>2, <3>1
    <3>3. QED
      BY <3>1, <3>2 DEF Of
  <2>5. s \in EscalationPattern(A, a.ts)
    BY <2>1, <2>3, <2>4 DEF EscalationPattern
  <2>6. QED
    BY <1>8, <2>5, Formulas
<1>9. CASE engine = "P3.4"
  <2>1. s \in {d \in Devices :
          Cardinality({b.ts : b \in {c \in Near(a, "overflow", Window["P3.4"]) : c.dev = d}})
            >= MinOverflows}
    BY <1>9, DueIs
  <2>2. {c \in Near(a, "overflow", Window["P3.4"]) : c.dev = s}
          = Of(Once(A, a.ts, 0, Window["P3.4"]), "overflow", s)
    BY <1>3, <1>4, <1>5, <1>9 DEF Of
  <2>3. s \in PersistentThreat(A, a.ts)
    BY <2>1, <2>2 DEF PersistentThreat
  <2>4. QED
    BY <1>9, <2>3, Formulas
<1>10. CASE engine = "P3.6"
  <2>1. s \in {n \in {NoDevice} :
               Cardinality({home[b.dev] : b \in Near(a, "overflow", Window["P3.6"])}) >= MinGateways}
    BY <1>10, DueIs
  <2>2. Near(a, "overflow", Window["P3.6"])
          = {b \in Once(A, a.ts, 0, Window["P3.6"]) : b.kind = "overflow"}
    BY <1>3, <1>4, <1>5, <1>10
  <2>3. s \in CrossGatewayCampaign(A, a.ts)
    BY <2>1, <2>2 DEF CrossGatewayCampaign
  <2>4. QED
    BY <1>10, <2>3, Formulas
<1>11. QED
  BY <1>1, <1>6, <1>7, <1>8, <1>9, <1>10

(* While MonPoly lives and has dropped nothing, it has every alert that the
   engine is fed and that does not wait. *)
FedInv == alive /\ rejected = {} => \A a \in alerts : a.kind \in Useful => a \in accepted \cup Waiting

(* What the formula satisfies at an event has its incident or a line on its way. *)
FoundInv ==
  \A a \in accepted : \A s \in Satisfied(accepted, a.ts) :
    Key(s, a.ts) \in emitted \/ \E l \in Lines : l.ts = a.ts /\ s \in l.subjects

(* A later event does not change what an earlier one satisfies. *)
LEMMA LaterIsNotSeen ==
  ASSUME engine \in AllEngines, NEW A, NEW a, NEW ts \in Nat, a.ts \in Nat, a.ts > ts
  PROVE  Satisfied(A \cup {a}, ts) = Satisfied(A, ts)
<1> DEFINE B == A \cup {a}
<1>1. \A lo \in Nat : \A hi : Once(B, ts, lo, hi) = Once(A, ts, lo, hi)
  <2> SUFFICES ASSUME NEW lo \in Nat, NEW hi
               PROVE  Once(B, ts, lo, hi) = Once(A, ts, lo, hi)
    OBVIOUS
  <2>1. ~(a.ts + lo <= ts)
    OBVIOUS
  <2>2. QED
    BY <2>1 DEF Once
<1> HIDE DEF B
<1>2. 0 \in Nat /\ Settled \in Nat
  BY CorrelatorAssumption
<1>3. AptIndicator(B, ts) = AptIndicator(A, ts)
  <2>1. Once(B, ts, 0, Window["P3.1"]) = Once(A, ts, 0, Window["P3.1"])
    BY <1>1, <1>2
  <2>2. QED
    BY <2>1, Zenon DEF AptIndicator
<1>4. CoordinatedAttack(B, ts) = CoordinatedAttack(A, ts)
  <2>1. Once(B, ts, 0, Window["P3.2"]) = Once(A, ts, 0, Window["P3.2"])
    BY <1>1, <1>2
  <2>2. QED
    BY <2>1, Zenon DEF CoordinatedAttack
<1>5. EscalationPattern(B, ts) = EscalationPattern(A, ts)
  <2>1. /\ Once(B, ts, Settled, Window["P3.3"]) = Once(A, ts, Settled, Window["P3.3"])
        /\ Once(B, ts, 0, Recent) = Once(A, ts, 0, Recent)
    BY <1>1, <1>2
  <2>2. QED
    BY <2>1, Zenon DEF EscalationPattern
<1>6. PersistentThreat(B, ts) = PersistentThreat(A, ts)
  <2>1. Once(B, ts, 0, Window["P3.4"]) = Once(A, ts, 0, Window["P3.4"])
    BY <1>1, <1>2
  <2>2. QED
    BY <2>1, Zenon DEF PersistentThreat
<1>7. CrossGatewayCampaign(B, ts) = CrossGatewayCampaign(A, ts)
  <2>1. Once(B, ts, 0, Window["P3.6"]) = Once(A, ts, 0, Window["P3.6"])
    BY <1>1, <1>2
  <2>2. QED
    BY <2>1, Zenon DEF CrossGatewayCampaign
<1>8. Satisfied(B, ts) = Satisfied(A, ts)
  <2>1. engine \in {"P3.1", "P3.2", "P3.3", "P3.4", "P3.6"}
    BY DEF AllEngines
  <2>2. QED
    BY <1>3, <1>4, <1>5, <1>6, <1>7, <2>1, Formulas
<1>9. QED
  BY <1>8 DEF B

(* MonPoly keeps what the engine is fed. *)
LEMMA FedStep ==
  ASSUME StateInv, RelayInv, FedInv, [Next]_vars
  PROVE  FedInv'
<1>1. Useful' = Useful
  BY SettingStays DEF Useful
<1>2. ASSUME NEW g \in Gateways, Feed(g), alive', rejected' = {}
      PROVE  \A b \in alerts' : b.kind \in Useful => b \in accepted' \cup Waiting'
  <2> DEFINE a == relay[g][1]
  <2>1. /\ alerts' = alerts /\ a \in alerts /\ Waiting = Waiting' \cup {a}
        /\ Taken(a) \/ Dropped(a) \/ Unheard(a) \/ Skipped(a)
    BY <1>2, FeedFacts, FeedTakesOne
  <2> HIDE DEF a
  <2>2. CASE Taken(a)
    <3>1. alive /\ rejected = {} /\ accepted' = accepted \cup {a}
      BY <1>2, <2>2 DEF Taken
    <3>2. QED
      BY <2>1, <3>1 DEF FedInv
  <2>3. CASE Dropped(a)
    BY <1>2, <2>3 DEF Dropped
  <2>4. CASE Unheard(a)
    <3>1. ~alive /\ alive' = alive
      BY <2>4 DEF Unheard
    <3>2. QED
      BY <1>2, <3>1
  <2>5. CASE Skipped(a)
    <3>1. alive /\ rejected = {} /\ accepted' = accepted /\ a.kind \notin Useful
      BY <1>2, <2>5 DEF Skipped
    <3>2. QED
      BY <2>1, <3>1 DEF FedInv
  <2>6. QED
    BY <2>1, <2>2, <2>3, <2>4, <2>5
<1>3. ASSUME NEW d \in Devices, NEW k \in Kinds[engine], Alert(d, k)
      PROVE  FedInv'
  <2>1. PICK a : a \notin alerts /\ alerts' = alerts \cup {a} /\ Waiting' = Waiting \cup {a}
    BY <1>3, StampWaits
  <2>2. UNCHANGED <<alive, rejected, accepted>>
    BY <1>3, StampFacts
  <2>3. QED
    BY <1>1, <2>1, <2>2 DEF FedInv
<1>4. CASE UNCHANGED <<relay, alive, rejected, accepted, alerts>>
  BY <1>1, <1>4 DEF FedInv, Waiting, Elems
<1>5. CASE Second \/ ReaderEnds \/ Read
  BY <1>4, <1>5 DEF Second, ReaderEnds, Read, monpoly
<1>6. CASE Collect \/ Checked \/ Close \/ Shutdown
  BY <1>4, <1>6 DEF Collect, Checked, Close, Shutdown, monpoly
<1>7. CASE EngineDies
  BY <1>7 DEF EngineDies, FedInv
<1>8. CASE UNCHANGED vars
  BY <1>4, <1>8 DEF vars, monpoly
<1>9. QED
  BY <1>1, <1>2, <1>3, <1>5, <1>6, <1>7, <1>8 DEF Next, Quiet, FedInv

(* What an event satisfies reaches a line with the event, and a line its
   incidents. *)
LEMMA FoundStep ==
  ASSUME StateInv, FoundInv, [Next]_vars
  PROVE  FoundInv'
<1>1. engine' = engine /\ home' = home /\ engine \in AllEngines
  BY SettingStays, CorrelatorAssumption DEF StateInv
<1>2. \A s, x : Key(s, x)' = Key(s, x)
  BY <1>1 DEF Key
<1>3. \A S, x : Satisfied(S, x)' = Satisfied(S, x)
  <2> SUFFICES ASSUME NEW S, NEW x
               PROVE  Satisfied(S, x)' = Satisfied(S, x)
    OBVIOUS
  <2>1. engine \in {"P3.1", "P3.2", "P3.3", "P3.4", "P3.6"} /\ engine' = engine
    BY <1>1 DEF AllEngines
  <2>2. CrossGatewayCampaign(S, x)' = CrossGatewayCampaign(S, x)
    BY <1>1 DEF CrossGatewayCampaign
  <2>3. CASE engine = "P3.1"
    BY <2>1, <2>3, Zenon DEF Satisfied
  <2>4. CASE engine = "P3.2"
    BY <2>1, <2>4, Zenon DEF Satisfied
  <2>5. CASE engine = "P3.3"
    BY <2>1, <2>5, Zenon DEF Satisfied
  <2>6. CASE engine = "P3.4"
    BY <2>1, <2>6, Zenon DEF Satisfied
  <2>7. CASE engine = "P3.6"
    BY <2>1, <2>2, <2>7, Zenon DEF Satisfied
  <2>8. QED
    BY <2>1, <2>3, <2>4, <2>5, <2>6, <2>7
<1>4. ASSUME UNCHANGED <<accepted, emitted>>, Lines' = Lines
      PROVE  FoundInv'
  BY <1>2, <1>3, <1>4 DEF FoundInv
<1>5. ASSUME NEW g \in Gateways, Feed(g)
      PROVE  FoundInv'
  <2>1. PICK a : a = relay[g][1]
    OBVIOUS
  <2>2. PICK l : l = [tp |-> Cardinality(accepted), ts |-> a.ts, subjects |-> Satisfied(accepted', a.ts)]
    OBVIOUS
  <2>3. /\ a \in alerts /\ StateInv' /\ emitted' = emitted /\ accepted \subseteq alerts
        /\ Taken(a) \/ Dropped(a) \/ Unheard(a) \/ Skipped(a)
    BY <1>5, <2>1, FeedFacts, FeedKeepsState DEF StateInv
  <2>4. \/ Lines' = Lines /\ (Taken(a) => Satisfied(accepted', a.ts) = {})
        \/ Taken(a) /\ Lines' = Lines \cup {l}
    BY <1>5, <2>1, <2>2, FeedAddsLine
  <2>5. CASE ~Taken(a)
    <3>1. accepted' = accepted
      BY <2>3, <2>5 DEF Dropped, Unheard, Skipped
    <3>2. QED
      BY <1>4, <2>3, <2>4, <2>5, <3>1
  <2>6. CASE Taken(a)
    <3>1. accepted' = accepted \cup {a} /\ a.ts >= newest /\ a.ts \in Nat /\ newest \in Nat
      BY <2>3, <2>6, AlertFacts DEF Taken, StateInv
    <3>2. ASSUME NEW b \in accepted', NEW s \in Satisfied(accepted', b.ts)
          PROVE  Key(s, b.ts) \in emitted' \/ \E m \in Lines' : m.ts = b.ts /\ s \in m.subjects
      <4>1. CASE b.ts = a.ts
        <5>1. s \in Satisfied(accepted', a.ts)
          BY <3>2, <4>1
        <5>2. Lines' = Lines \cup {l} /\ l.ts = a.ts /\ l.subjects = Satisfied(accepted', a.ts)
          BY <2>2, <2>4, <2>6, <5>1
        <5>3. QED
          BY <4>1, <5>1, <5>2
      <4>2. CASE b.ts # a.ts
        <5>1. b \in accepted /\ b.ts <= newest /\ b.ts \in Nat
          <6>1. b \in accepted
            BY <3>1, <4>2
          <6>2. QED
            BY <2>3, <6>1, AlertFacts DEF StateInv
        <5>2. a.ts > b.ts
          BY <3>1, <4>2, <5>1
        <5>3. Satisfied(accepted', b.ts) = Satisfied(accepted, b.ts)
          BY <1>1, <3>1, <5>1, <5>2, LaterIsNotSeen
        <5>4. Key(s, b.ts) \in emitted \/ \E m \in Lines : m.ts = b.ts /\ s \in m.subjects
          BY <3>2, <5>1, <5>3 DEF FoundInv
        <5>5. QED
          BY <2>3, <2>4, <5>4
      <4>3. QED
        BY <4>1, <4>2
    <3>3. QED
      BY <1>2, <1>3, <3>2 DEF FoundInv
  <2>7. QED
    BY <2>5, <2>6
<1>6. CASE Read \/ Collect
  <2>1. accepted' = accepted
    BY <1>6, ReaderMoves
  <2>2. CASE UNCHANGED <<emitted, incidents>> /\ Lines' = Lines
    BY <1>4, <2>1, <2>2
  <2>3. ASSUME NEW l \in Lines, Emit(l), Lines = Lines' \cup {l}
        PROVE  FoundInv'
    <3>1. emitted \subseteq emitted' /\ \A s \in l.subjects : Key(s, l.ts) \in emitted'
      BY <2>3 DEF Emit
    <3>2. QED
      BY <1>2, <1>3, <2>1, <2>3, <3>1 DEF FoundInv
  <2>4. QED
    BY <1>6, <2>2, <2>3, ReaderMoves
<1>7. CASE UNCHANGED <<accepted, emitted, out, queue>>
  BY <1>4, <1>7 DEF Lines, Elems
<1>8. CASE Second \/ EngineDies \/ ReaderEnds
  BY <1>7, <1>8 DEF Second, EngineDies, ReaderEnds, output, monpoly
<1>9. CASE Checked \/ Close \/ Shutdown
  BY <1>7, <1>9 DEF Checked, Close, Shutdown, output, monpoly
<1>10. CASE UNCHANGED vars
  BY <1>7, <1>10 DEF vars, output, monpoly
<1>11. ASSUME NEW d \in Devices, NEW k \in Kinds[engine], Alert(d, k)
       PROVE  FoundInv'
  BY <1>7, <1>11 DEF Alert, output, monpoly
<1>12. QED
  BY <1>5, <1>6, <1>8, <1>9, <1>10, <1>11 DEF Next, Quiet

(* The host stops when the queue is empty, and MonPoly's output with it. *)
StopInv == pc = "stopped" => out = <<>> /\ queue = <<>>

(* No step puts anything into a queue of a host that stopped. *)
LEMMA StopStep ==
  ASSUME StateInv, StopInv, [Next]_vars
  PROVE  StopInv'
<1>1. ASSUME NEW g \in Gateways, Feed(g)
      PROVE  StopInv'
  BY <1>1, FeedFacts DEF StopInv
<1>2. ASSUME NEW d \in Devices, NEW k \in Kinds[engine], Alert(d, k)
      PROVE  StopInv'
  BY <1>2 DEF Alert, StopInv
<1>3. CASE Read
  BY <1>3 DEF Read, StopInv
<1>4. CASE Collect
  BY <1>4 DEF Collect, StopInv
<1>5. CASE Checked \/ Close \/ Shutdown
  BY <1>5 DEF Checked, Close, Shutdown, StopInv, output
<1>6. CASE Second \/ EngineDies \/ ReaderEnds
  BY <1>6 DEF Second, EngineDies, ReaderEnds, StopInv, output
<1>7. CASE UNCHANGED vars
  BY <1>7 DEF vars, StopInv, output
<1>8. QED
  BY <1>1, <1>2, <1>3, <1>4, <1>5, <1>6, <1>7 DEF Next, Quiet

(* backend_l3.py:229-276 and correlator_monitor.py:719-792: unless MonPoly died
   or dropped an event, every alert at which a formula holds has its incident
   once everything is fed, read and collected. *)
THEOREM NoneMissed == Spec => []NoIncidentMissed
<1>1. Init => FedInv /\ FoundInv /\ StopInv
  BY DEF Init, FedInv, FoundInv, StopInv
<1>2. (StateInv /\ RelayInv) /\ (FedInv /\ FoundInv /\ StopInv) /\ [Next]_vars
        => (FedInv /\ FoundInv /\ StopInv)'
  BY FedStep, FoundStep, StopStep
<1>3. Inv => StateInv /\ RelayInv
  BY DEF Inv
<1>4. Inv /\ (FedInv /\ FoundInv /\ StopInv) => NoIncidentMissed
  <2> SUFFICES ASSUME StateInv, FedInv, FoundInv, StopInv, Drained, alive, rejected = {},
                      NEW a \in alerts, a.kind \in (IF engine = "P3.6" THEN {"overflow"} ELSE Predicates),
                      NEW s \in Due(a)
               PROVE  Key(s, a.ts) \in emitted
    BY DEF Inv, NoIncidentMissed
  <2>1. Waiting = {} /\ Lines = {}
    <3>1. out = <<>> /\ queue = <<>>
      BY DEF Drained, StopInv
    <3>2. \A g \in Gateways : relay[g] = <<>>
      BY DEF Drained, Fed
    <3>3. Elems(<<>>) = {}
      BY DEF Elems
    <3>4. QED
      BY <3>1, <3>2, <3>3 DEF Waiting, Lines
  <2>2. \A b \in alerts : b.kind \in Useful => b \in accepted
    BY <2>1 DEF FedInv
  <2>3. a \in accepted /\ accepted \subseteq alerts
    BY <2>2 DEF Useful, StateInv
  <2>4. s \in Satisfied(accepted, a.ts)
    BY <2>2, <2>3, DueIsFound
  <2>5. QED
    BY <2>1, <2>3, <2>4 DEF FoundInv
<1>5. QED
  BY <1>1, <1>2, <1>3, <1>4, CorrelatorInvariant, PTL DEF Spec
=============================================================================
