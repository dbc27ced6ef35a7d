-------------------------------- MODULE Relay --------------------------------
(***************************************************************************)
(* The path of a verdict from the gateway's event queue to one consumer of *)
(* the backend: class Gateway of gateway.py around its DurableOutbox, and  *)
(* the drain of backend_l3.py that reads the stream through a durable      *)
(* cursor and drops the event ids it has seen.  The detectors between an   *)
(* event and its alerts are left open: an event gives any number of alerts *)
(* up to MaxAlerts.                                                        *)
(***************************************************************************)
EXTENDS Outbox

CONSTANTS Devices,          \* the devices of the gateway
          MaxEvents,        \* bound: events that arrive
          MaxAlerts,        \* bound: alerts an event gives (3 in the code)
          MaxBackendStops   \* bound: times the backend dies

ASSUME RelayAssumption == /\ MaxEvents \in Nat
                          /\ MaxAlerts \in Nat \ {0}
                          /\ MaxBackendStops \in Nat

VARIABLES
  queue,         \* Gateway.queue, events the broker no longer holds
  todo,          \* the alerts of the current event that are not emitted yet
  seq,           \* Gateway.seq
  eid,           \* the event id of each verdict made, without its gateway
  arrived,       \* bound: events so far
  drainPc,       \* the backend's drain: "wait", "ack" or "down"
  acked,         \* the durable cursor of the consumer
  seen,          \* _seen: event ids of this run of the backend
  feeds,         \* history: verdicts fed to an engine, with the backend's run
  swallowed,     \* history: verdicts dropped that no engine was ever fed
  backendStops   \* bound: times the backend died; also the number of its run

gatewayVars == <<queue, todo, seq, eid, arrived>>
backendVars == <<drainPc, acked, seen, feeds, swallowed, backendStops>>
relayVars   == <<vars, gatewayVars, backendVars>>

FreshSeq == [d \in Devices |-> 0]

RelayInit == /\ Init
             /\ queue = <<>> /\ todo = <<>> /\ seq = FreshSeq
             /\ eid = <<>> /\ arrived = 0
             /\ drainPc = "wait" /\ acked = 0 /\ seen = {}
             /\ feeds = <<>> /\ swallowed = {} /\ backendStops = 0
-----------------------------------------------------------------------------
(* on_message: the event is queued, and the broker forgets it. *)
Arrive(d) == /\ pc # "down" /\ arrived < MaxEvents
             /\ queue' = Append(queue, d)
             /\ arrived' = arrived + 1
             /\ UNCHANGED <<vars, todo, seq, eid, backendVars>>

(* run: the loop is between events and takes the next one. *)
TakeEvent == /\ pc = "idle" /\ todo = <<>> /\ queue # <<>>
             /\ \E n \in 0..MaxAlerts : todo' = [i \in 1..n |-> Head(queue)]
             /\ queue' = Tail(queue)
             /\ UNCHANGED <<vars, seq, eid, arrived, backendVars>>

\* Mutant of Emit: the sequence number is not advanced.
EmitSameSeq == /\ todo # <<>>
               /\ Submit
               /\ LET d == Head(todo) IN eid' = Append(eid, <<d, seq[d]>>)
               /\ todo' = Tail(todo)
               /\ UNCHANGED <<queue, seq, arrived, backendVars>>

(* run: _eid gives the next alert its id, append_and_publish starts. *)
Emit == /\ todo # <<>>
        /\ Submit
        /\ LET d == Head(todo) IN
             /\ eid' = Append(eid, <<d, seq[d]>>)
             /\ seq' = [seq EXCEPT ![d] = @ + 1]
        /\ todo' = Tail(todo)
        /\ UNCHANGED <<queue, arrived, backendVars>>

(* A step of the outbox; the event loop is awaiting it. *)
OutboxStep == Step /\ UNCHANGED <<gatewayVars, backendVars>>

(* The gateway stops: what it holds in memory is gone, the counters of its
   event ids included. *)
GatewayStops == /\ Kill \/ PublishFails
                /\ queue' = <<>> /\ todo' = <<>> /\ seq' = FreshSeq
                /\ UNCHANGED <<eid, arrived, backendVars>>
-----------------------------------------------------------------------------
Fed == {feeds[i].verdict : i \in DOMAIN feeds}

Feed(v) == /\ seen' = seen \cup {eid[v]}
           /\ feeds' = Append(feeds, [verdict |-> v, run |-> backendStops])
           /\ UNCHANGED swallowed

\* Mutant of Consume: _dup is not called.
ConsumeNoDedup == /\ drainPc = "wait" /\ acked < Len(stream)
                  /\ Feed(stream[acked + 1])
                  /\ drainPc' = "ack"
                  /\ UNCHANGED <<vars, gatewayVars, acked, backendStops>>

(* drain and to_monpoly or to_rtlola: the next message is fed to the engine,
   unless its id was seen. *)
Consume == /\ drainPc = "wait" /\ acked < Len(stream)
           /\ LET v == stream[acked + 1] IN
                \/ eid[v] \notin seen /\ Feed(v)
                \/ /\ eid[v] \in seen
                   /\ swallowed' = swallowed \cup ({v} \ Fed)
                   /\ UNCHANGED <<seen, feeds>>
           /\ drainPc' = "ack"
           /\ UNCHANGED <<vars, gatewayVars, acked, backendStops>>

\* Mutant of Ack: everything stored so far is acknowledged.
AckAll == /\ drainPc = "ack"
          /\ acked' = Len(stream)
          /\ drainPc' = "wait"
          /\ UNCHANGED <<vars, gatewayVars, seen, feeds, swallowed, backendStops>>

(* drain: msg.ack() moves the durable cursor. *)
Ack == /\ drainPc = "ack"
       /\ acked' = acked + 1
       /\ drainPc' = "wait"
       /\ UNCHANGED <<vars, gatewayVars, seen, feeds, swallowed, backendStops>>

(* The backend dies: _seen and the engines go with it. *)
BackendStops == /\ drainPc # "down" /\ backendStops < MaxBackendStops
                /\ drainPc' = "down"
                /\ seen' = {}
                /\ backendStops' = backendStops + 1
                /\ UNCHANGED <<vars, gatewayVars, acked, feeds, swallowed>>

(* An operator restarts the backend; it binds to its durable consumer. *)
BackendStarts == /\ drainPc = "down"
                 /\ drainPc' = "wait"
                 /\ UNCHANGED <<vars, gatewayVars, acked, seen, feeds, swallowed, backendStops>>

(* A bound is reached and all there is to do is done. *)
RelayQuiet == /\ pc = "idle"
              /\ drainPc = "wait" /\ acked = Len(stream)
              /\ \/ arrived = MaxEvents /\ queue = <<>> /\ todo = <<>>
                 \/ made = MaxVerdicts /\ todo # <<>>
              /\ UNCHANGED relayVars

GatewayNext == TakeEvent \/ Emit \/ OutboxStep
BackendNext == Consume \/ Ack \/ BackendStarts
RelayNext == \/ \E d \in Devices : Arrive(d)
             \/ GatewayNext \/ GatewayStops
             \/ BackendNext \/ BackendStops
             \/ RelayQuiet

(* Both loops keep running, and a stopped gateway or backend is restarted. *)
RelaySpec == /\ RelayInit /\ [][RelayNext]_relayVars
             /\ WF_relayVars(GatewayNext) /\ WF_relayVars(BackendNext)
-----------------------------------------------------------------------------
RelayTypeOK ==
  /\ TypeOK
  /\ queue \in Seq(Devices) /\ todo \in Seq(Devices)
  /\ seq \in [Devices -> 0..MaxVerdicts]
  /\ eid \in Seq(Devices \X Nat) /\ Len(eid) = made
  /\ drainPc \in {"wait", "ack", "down"}
  /\ acked \in 0..Len(stream)
  /\ swallowed \subseteq 1..made

(* Exactly-once effect over an at-least-once relay: no verdict is fed twice
   to the engines of one run of the backend, however often the gateway
   replays it (backend_l3.py:213-215). *)
FedOncePerRun == \A i, j \in DOMAIN feeds :
                   i # j /\ feeds[i].run = feeds[j].run => feeds[i].verdict # feeds[j].verdict

(* While the backend stays up, its engines see the verdicts in the order the
   gateway made them, which a trace monitor depends on.  A restarted backend
   may be fed replayed verdicts after later ones. *)
FedInOrder == \A i, j \in DOMAIN feeds :
                i < j /\ feeds[j].run = 0 => feeds[i].verdict < feeds[j].verdict

(* While the gateway has never stopped, two verdicts have different event ids
   and the deduplication drops copies only. *)
NoneSwallowedUntilRestart == stops = 0 => swallowed = {}

(* An acknowledged message was handled: every verdict below the durable
   cursor was fed to an engine, or its id had been seen. *)
AckedWasHandled == \A i \in 1..acked : stream[i] \in Fed \cup swallowed

(* A verdict that passed step (1) is handled by the consumer in the end,
   through stops of the gateway and of the backend. *)
EventuallyHandled ==
  \A v \in 1..MaxVerdicts : v \in persisted ~> v \in Fed \cup swallowed

(* gateway.py:110: "only a crash before (1) drops the in-flight verdict":
   a verdict that passed step (1) is never dropped. *)
NoneSwallowed == swallowed \cap persisted = {}
=============================================================================
