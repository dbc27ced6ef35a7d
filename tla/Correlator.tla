------------------------------ MODULE Correlator ------------------------------
(***************************************************************************)
(* The MonPoly monitors of layer 3, P3.1-P3.4 of correlator_monitor.py     *)
(* and P3.6 of backend_l3.py, with the process behind each of them, fed    *)
(* with alerts of gateways whose clocks differ and whose relays are late.  *)
(* The processes share nothing but the input, so a behaviour follows one   *)
(* of them, the engine.  The host is the backend or, for P3.1-P3.4, the    *)
(* program of correlator_monitor.py that reads alerts of one gateway.      *)
(* MonPoly drops an event whose timestamp is below the greatest it has     *)
(* read (exp_oracle.py:243-251).                                           *)
(***************************************************************************)
EXTENDS Naturals, Sequences, FiniteSets

CONSTANTS
  Devices, Gateways,
  NoDevice,      \* the subject of an incident of P3.2 and P3.6
  Engines,       \* the engines a behaviour may follow, a subset of AllEngines
  Kinds,         \* for an engine, the types of alert that occur
  Window,        \* the window of a formula, which is also the window of its key
  Settled,       \* P3.3: the least age of a safe_tx, 10 s
  Recent,        \* P3.3: the greatest age of the attacks, 50 s
  MinDevices, MinOverflows, MinGateways,   \* P3.2, P3.4, P3.6: 3, 5 and 2
  Skew,          \* the greatest offset between two gateways' clocks
  MaxLate,       \* seconds between the stamp of an alert and its feed
  MayDie,        \* whether the MonPoly process may die or fail to start
  MaxSeconds,    \* bound: seconds
  MaxAlerts      \* bound: alerts

AllEngines == {"P3.1", "P3.2", "P3.3", "P3.4", "P3.6"}
Predicates == {"overflow", "time_anomaly", "fuzzing", "dos_spam", "safe_tx"}
AllKinds   == Predicates \cup {"pulsing"}
Attacks    == {"overflow", "time_anomaly", "fuzzing"}

ASSUME CorrelatorAssumption ==
  /\ NoDevice \notin Devices
  /\ Engines \subseteq AllEngines /\ Kinds \in [AllEngines -> SUBSET AllKinds]
  /\ Window \in [AllEngines -> Nat \ {0}]
  /\ {Settled, Recent, Skew, MaxLate, MaxSeconds, MaxAlerts} \subseteq Nat
  /\ Settled <= Recent /\ Recent <= Window["P3.3"]
  /\ {MinDevices, MinOverflows, MinGateways} \subseteq Nat \ {0}
  /\ MayDie \in BOOLEAN

VARIABLES
  engine,     \* which engine the behaviour follows
  host,       \* the program it runs in: "backend" or "standalone"
  home,       \* the gateway of a device
  clock,      \* true time, in seconds
  offset,     \* what a gateway's clock is ahead of true time
  relay,      \* alerts stamped by a gateway and not yet fed
  pc,         \* the host: "ready", "check", "draining" or "stopped"
  mono,       \* _mono: the last timestamp, and how often one was below it
  alive,      \* the MonPoly process runs
  status,     \* monitor_status
  accepted,   \* MonPoly: the events it took
  newest,     \* MonPoly: the greatest timestamp it has read
  out,        \* MonPoly's stdout: lines the reader thread has not read
  queue,      \* violation_queues
  emitted,    \* incidents_emitted, or _seen of P3.6
  incidents,  \* history: the incidents, each with its time point
  alerts,     \* history: every alert
  rejected    \* history: the alerts that MonPoly dropped

setting == <<engine, host, home, offset>>
monpoly == <<alive, accepted, newest>>
output  == <<out, queue, emitted, incidents>>
vars    == <<setting, clock, relay, pc, mono, status, monpoly, output, alerts, rejected>>

(* _start_monitors: each process starts or does not, whatever the others do. *)
Started == /\ alive \in IF MayDie THEN BOOLEAN ELSE {TRUE}
           /\ status = alive

Init == /\ engine \in Engines
        /\ host \in IF engine = "P3.6" THEN {"backend"} ELSE {"backend", "standalone"}
        /\ home \in [Devices -> Gateways]
        /\ host = "standalone" => \A d, e \in Devices : home[d] = home[e]
        /\ clock = 0
        /\ offset \in [Gateways -> 0..Skew] /\ \E g \in Gateways : offset[g] = 0
        /\ relay = [g \in Gateways |-> <<>>]
        /\ pc = "ready" /\ mono = [last |-> 0, viol |-> 0]
        /\ Started
        /\ accepted = {} /\ newest = 0
        /\ out = <<>> /\ queue = <<>>
        /\ emitted = {} /\ incidents = {}
        /\ alerts = {} /\ rejected = {}
-----------------------------------------------------------------------------
Second == /\ clock < MaxSeconds
          /\ \A g \in Gateways : \A i \in DOMAIN relay[g] : clock - relay[g][i].at < MaxLate
          /\ clock' = clock + 1
          /\ UNCHANGED <<setting, relay, pc, mono, status, monpoly, output, alerts, rejected>>

(* The gateway of a device stamps an alert with its own clock. *)
Alert(d, k) ==
  /\ Cardinality(alerts) < MaxAlerts /\ pc \in {"ready", "check"}
  /\ LET a == [dev |-> d, kind |-> k, ts |-> clock + offset[home[d]], at |-> clock] IN
       /\ a \notin alerts
       /\ relay' = [relay EXCEPT ![home[d]] = Append(@, a)]
       /\ alerts' = alerts \cup {a}
  /\ UNCHANGED <<setting, clock, pc, mono, status, monpoly, output, rejected>>
-----------------------------------------------------------------------------
Of(S, k, d) == {a \in S : a.kind = k /\ a.dev = d}

\* Mutant of Once: the interval has no upper end.
OnceEver(S, ts, lo, hi) == {a \in S : a.ts + lo <= ts}

(* ONCE[lo,hi]: the events of S the operator looks back at from ts. *)
Once(S, ts, lo, hi) == {a \in S : a.ts + lo <= ts /\ ts <= a.ts + hi}

(* Two of the three attacks of a device. *)
AptIndicator(S, ts) ==
  {d \in Devices : \E p, q \in Attacks : p # q /\ \A k \in {p, q} :
     Of(Once(S, ts, 0, Window["P3.1"]), k, d) # {}}

(* The formula has no free device. *)
CoordinatedAttack(S, ts) ==
  {n \in {NoDevice} :
     Cardinality({a.dev : a \in {b \in Once(S, ts, 0, Window["P3.2"]) : b.kind = "overflow"}})
       >= MinDevices}

(* A transaction that was safe, and two attacks at most Recent seconds old. *)
EscalationPattern(S, ts) ==
  {d \in Devices :
     /\ Of(Once(S, ts, Settled, Window["P3.3"]), "safe_tx", d) # {}
     /\ \A k \in {"overflow", "time_anomaly"} : Of(Once(S, ts, 0, Recent), k, d) # {}}

(* CNT ts counts seconds: overflows of the same second count once. *)
PersistentThreat(S, ts) ==
  {d \in Devices :
     Cardinality({a.ts : a \in Of(Once(S, ts, 0, Window["P3.4"]), "overflow", d)}) >= MinOverflows}

CrossGatewayCampaign(S, ts) ==
  {n \in {NoDevice} :
     Cardinality({home[a.dev] : a \in {b \in Once(S, ts, 0, Window["P3.6"]) : b.kind = "overflow"}})
       >= MinGateways}

Satisfied(S, ts) == CASE engine = "P3.1" -> AptIndicator(S, ts)
                      [] engine = "P3.2" -> CoordinatedAttack(S, ts)
                      [] engine = "P3.3" -> EscalationPattern(S, ts)
                      [] engine = "P3.4" -> PersistentThreat(S, ts)
                      [] engine = "P3.6" -> CrossGatewayCampaign(S, ts)

(* MonPoly takes an event, a time point of its own, and writes the
   satisfactions of the formula at it, if there are any. *)
Accept(a) ==
  /\ accepted' = accepted \cup {a}
  /\ newest' = a.ts
  /\ LET found == Satisfied(accepted', a.ts) IN
       out' = IF found = {} THEN out
              ELSE Append(out, [tp |-> Cardinality(accepted), ts |-> a.ts, subjects |-> found])
  /\ UNCHANGED <<alive, rejected>>

Reject(a) == /\ rejected' = rejected \cup {a}
             /\ UNCHANGED <<monpoly, out>>

\* Mutant of Send: MonPoly takes events out of order.
SendUnordered(a) == /\ status /\ alive /\ Accept(a)
                    /\ status' = alive

(* _send_event and feed_overflow: the event is written to the process.  One
   that has ended is marked and never started again. *)
Send(a) ==
  \/ /\ status /\ alive
     /\ IF a.ts >= newest THEN Accept(a) ELSE Reject(a)
     /\ UNCHANGED status
  \/ /\ status /\ ~alive
     /\ status' = FALSE
     /\ UNCHANGED <<monpoly, out, rejected>>
  \/ ~status /\ UNCHANGED <<status, monpoly, out, rejected>>

\* Mutant of CountMono: the count starts again when the order is restored.
CountMonoReset(a) ==
  mono' = [last |-> a.ts, viol |-> IF a.ts < mono.last THEN 1 ELSE 0]

(* _count_mono: one last timestamp for all gateways; only the backend has it. *)
CountMono(a) ==
  IF host = "standalone" THEN UNCHANGED mono
  ELSE mono' = [last |-> a.ts,
                viol |-> IF a.ts < mono.last THEN mono.viol + 1 ELSE mono.viol]

Take(g) == /\ pc = "ready" /\ relay[g] # <<>>
           /\ relay' = [relay EXCEPT ![g] = Tail(@)]
           /\ CountMono(Head(relay[g]))
           /\ UNCHANGED <<setting, clock, queue, emitted, incidents, alerts>>

(* to_monpoly and process_alert with the next alert of a gateway: a type that
   is no predicate is dropped, and so is what P3.6 has no use for. *)
Feed(g) == /\ Take(g)
           /\ LET a == Head(relay[g]) IN
                \/ /\ a.kind \in IF engine = "P3.6" THEN {"overflow"} ELSE Predicates
                   /\ Send(a)
                   /\ pc' = IF engine = "P3.6" THEN "ready" ELSE "check"
                \/ /\ a.kind \notin IF engine = "P3.6" THEN {"overflow"} ELSE Predicates
                   /\ UNCHANGED <<pc, status, monpoly, out, rejected>>

(* The process dies; what it wrote is still read. *)
EngineDies == /\ MayDie /\ alive
              /\ alive' = FALSE
              /\ UNCHANGED <<setting, clock, relay, pc, mono, status, accepted, newest,
                             output, alerts, rejected>>
-----------------------------------------------------------------------------
(* The key under which an incident counts as a copy. *)
Key(s, ts) == <<s, ts \div Window[engine]>>

\* Mutant of Emit: the key is not remembered.
EmitForgetful(line) ==
  /\ incidents' = incidents \cup {[tp |-> line.tp, ts |-> line.ts, dev |-> s] : s \in line.subjects}
  /\ UNCHANGED emitted

(* A line of MonPoly becomes an incident for every subject whose key is new. *)
Emit(line) ==
  LET new == {s \in line.subjects : Key(s, line.ts) \notin emitted} IN
    /\ emitted' = emitted \cup {Key(s, line.ts) : s \in new}
    /\ incidents' = incidents \cup {[tp |-> line.tp, ts |-> line.ts, dev |-> s] : s \in new}

(* The reader thread takes a line.  The one of P3.6 reports it; the others
   leave it in the queue. *)
Read == /\ out # <<>>
        /\ out' = Tail(out)
        /\ \/ /\ engine = "P3.6"
              /\ Emit(Head(out)) /\ UNCHANGED queue
           \/ /\ engine # "P3.6"
              /\ queue' = Append(queue, Head(out)) /\ UNCHANGED <<emitted, incidents>>
        /\ UNCHANGED <<setting, clock, relay, pc, mono, status, monpoly, alerts, rejected>>

(* The reader thread sees the end of the output. *)
ReaderEnds == /\ engine # "P3.6" /\ ~alive /\ out = <<>> /\ status
              /\ status' = FALSE
              /\ UNCHANGED <<setting, clock, relay, pc, mono, monpoly, output, alerts, rejected>>

(* _check_violations: after an alert, and in the grace period of main. *)
Collect == /\ pc \in {"check", "draining"} /\ queue # <<>>
           /\ Emit(Head(queue))
           /\ queue' = Tail(queue)
           /\ UNCHANGED <<setting, clock, relay, pc, mono, status, monpoly, out, alerts, rejected>>

Checked == /\ pc = "check" /\ queue = <<>>
           /\ pc' = "ready"
           /\ UNCHANGED <<setting, clock, relay, mono, status, monpoly, output, alerts, rejected>>

Fed == \A g \in Gateways : relay[g] = <<>>

(* main: the input of the standalone program ends. *)
Close == /\ host = "standalone" /\ pc = "ready" /\ Fed
         /\ pc' = "draining"
         /\ UNCHANGED <<setting, clock, relay, mono, status, monpoly, output, alerts, rejected>>

\* Mutant of Shutdown: the grace period polls RTLola only.
ShutdownUnpolled == /\ pc = "draining" /\ out = <<>>
                    /\ pc' = "stopped"
                    /\ UNCHANGED <<setting, clock, relay, mono, status, monpoly, output, alerts, rejected>>

(* main and shutdown: the seven seconds are over, in which MonPoly wrote what
   it had to write, and after the last poll the process is ended. *)
Shutdown == /\ pc = "draining" /\ out = <<>> /\ queue = <<>>
            /\ pc' = "stopped"
            /\ UNCHANGED <<setting, clock, relay, mono, status, monpoly, output, alerts, rejected>>

(* A bound is reached and everything is read. *)
Quiet == /\ \/ pc = "stopped"
            \/ host = "backend" /\ pc = "ready" /\ clock = MaxSeconds /\ Fed /\ out = <<>>
         /\ UNCHANGED vars

Next == \/ Second \/ EngineDies \/ Read \/ ReaderEnds
        \/ Collect \/ Checked \/ Close \/ Shutdown \/ Quiet
        \/ \E g \in Gateways : Feed(g)
        \/ \E d \in Devices, k \in Kinds[engine] : Alert(d, k)

Spec == Init /\ [][Next]_vars
-----------------------------------------------------------------------------
Line == [tp : Nat, ts : 0..newest, subjects : SUBSET (Devices \cup {NoDevice})]

TypeOK == /\ clock \in 0..MaxSeconds
          /\ relay \in [Gateways -> Seq(alerts)]
          /\ pc \in {"ready", "check", "draining", "stopped"}
          /\ mono.viol \in 0..MaxAlerts
          /\ accepted \subseteq alerts /\ rejected \subseteq alerts
          /\ \A a \in accepted : a.ts <= newest
          /\ out \in Seq(Line) /\ queue \in Seq(Line)
          /\ emitted = {Key(i.dev, i.ts) : i \in incidents}
          /\ ~status => ~alive

Apart(a, b) == IF a < b THEN b - a ELSE a - b

(* The alerts of S lie within w of one another, in true time. *)
Together(S, w) == \A a, b \in S : Apart(a.at, b.at) <= w

(* What each property promises of the alerts behind an incident, in true time
   and whatever the clocks of the gateways show. *)
AptIsReal(S) == /\ Cardinality({a.kind : a \in S} \cap Attacks) >= 2
                /\ Together(S, Window["P3.1"])

CoordinatedIsReal(S) == /\ \A a \in S : a.kind = "overflow"
                        /\ Cardinality({a.dev : a \in S}) >= MinDevices
                        /\ Together(S, Window["P3.2"] + Skew)

EscalationIsReal(S) ==
  /\ \A k \in {"safe_tx", "overflow", "time_anomaly"} : \E a \in S : a.kind = k
  /\ Together({a \in S : a.kind # "safe_tx"}, Recent)
  /\ Together(S, Window["P3.3"])
  /\ \A a, b \in S : a.kind = "safe_tx" => a.at + Settled <= b.at + Recent

PersistentIsReal(S) == /\ \A a \in S : a.kind = "overflow"
                       /\ Cardinality({a.at : a \in S}) >= MinOverflows
                       /\ Together(S, Window["P3.4"])

CampaignIsReal(S) == /\ \A a \in S : a.kind = "overflow"
                     /\ Cardinality({home[a.dev] : a \in S}) >= MinGateways
                     /\ Together(S, Window["P3.6"] + Skew)

(* Alerts that justify the incident, of its device where it has one. *)
Real(i) ==
  \E S \in SUBSET {a \in alerts : engine \in {"P3.2", "P3.6"} \/ a.dev = i.dev} :
    CASE engine = "P3.1" -> AptIsReal(S)
      [] engine = "P3.2" -> CoordinatedIsReal(S)
      [] engine = "P3.3" -> EscalationIsReal(S)
      [] engine = "P3.4" -> PersistentIsReal(S)
      [] engine = "P3.6" -> CampaignIsReal(S)

(* An incident is real: alerts of its kind lie within its window of true
   time, give or take the skew where they come from several gateways (the
   formulas' headers, p3_1_apt.mfotl:16-17 to p3_6_crossgw.mfotl:8-9). *)
IncidentIsReal == \A i \in incidents : Real(i)

(* backend_l3.py:84 and the keys of _parse_violation: one incident of a
   subject per window, however many lines MonPoly writes for it. *)
OncePerWindow ==
  \A i, j \in incidents : i # j => Key(i.dev, i.ts) # Key(j.dev, j.ts)

(* Everything is fed and read, and the host has looked at it or stopped.  In
   the backend a line of P3.1-P3.4 may wait in the queue for the next alert
   for ever; the standalone program polls before it stops. *)
Drained == Fed /\ pc # "check" /\ out = <<>> /\ (queue = <<>> \/ pc = "stopped")

(* The incidents that the alerts up to a, all in time, call for. *)
Due(a) ==
  LET at(k, w) == {b \in alerts : b.kind = k /\ b.ts <= a.ts /\ a.ts - b.ts <= w}
      over     == at("overflow", Window[engine]) IN
  CASE engine = "P3.1" -> {d \in Devices :
         Cardinality({k \in Attacks : \E b \in at(k, Window["P3.1"]) : b.dev = d}) > 1}
    [] engine = "P3.2" -> {n \in {NoDevice} : Cardinality({b.dev : b \in over}) >= MinDevices}
    [] engine = "P3.3" -> {d \in Devices :
         /\ \E b \in at("safe_tx", Window["P3.3"]) : b.dev = d /\ a.ts - b.ts >= Settled
         /\ \E b \in at("overflow", Recent), c \in at("time_anomaly", Recent) : {b.dev, c.dev} = {d}}
    [] engine = "P3.4" -> {d \in Devices :
         Cardinality({b.ts : b \in {c \in over : c.dev = d}}) >= MinOverflows}
    [] engine = "P3.6" -> {n \in {NoDevice} :
         Cardinality({home[b.dev] : b \in over}) >= MinGateways}

(* An incident is missed only when MonPoly dropped an event or died: else,
   when everything is fed and collected, the window of every alert at which
   the formula holds has its incident. *)
NoIncidentMissed ==
  Drained /\ alive /\ rejected = {} =>
    \A a \in alerts :
      a.kind \in (IF engine = "P3.6" THEN {"overflow"} ELSE Predicates) =>
        \A s \in Due(a) : Key(s, a.ts) \in emitted

(* backend_l3.py:229-233: the instrument that reports no order violation is
   right that MonPoly took every event. *)
MonoReportsRejections == host = "backend" /\ mono.viol = 0 => rejected = {}

(* clockskew/EXPECTED.md:32, README.md:69-70: P3.6 tolerates any skew below
   the window: a campaign that the skew cannot push out of the window is
   reported. *)
SkewTolerated ==
  Drained /\ engine = "P3.6" =>
    \A a, b \in alerts :
      a.kind = "overflow" /\ b.kind = "overflow" /\ home[a.dev] # home[b.dev]
        /\ Apart(a.at, b.at) + Skew <= Window["P3.6"] => incidents # {}
=============================================================================
