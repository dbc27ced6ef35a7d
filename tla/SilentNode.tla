------------------------------ MODULE SilentNode ------------------------------
(***************************************************************************)
(* P3.5, the silent node: OnlineRTLolaMonitor of correlator_monitor.py     *)
(* with its three threads, the event loop that calls process_alert and     *)
(* get_pending_incidents, the reader of the engine's output and the        *)
(* dispatch loop; and the engine, which runs silent_node.lola: an instance *)
(* per device, whose local clock fires while no verdict of the device came *)
(* within the window.  Verdicts are numbered in the order they are fed.    *)
(***************************************************************************)
EXTENDS Naturals, Sequences, FiniteSets

CONSTANTS Devices,
          Window,        \* T_dev in ticks of the local clock
          MayDie,        \* whether the engine's process may die
          MaxVerdicts,   \* bound: verdicts fed
          MaxRepeats     \* bound: triggers of one silence

ASSUME SilentNodeAssumption == /\ Window \in Nat \ {0}
                               /\ MayDie \in BOOLEAN
                               /\ MaxVerdicts \in Nat
                               /\ MaxRepeats \in Nat \ {0}

VARIABLES
  pc,            \* event loop: "idle", "fed" or "collect"
  alert,         \* event loop: the alert process_alert works on
  fed,           \* verdicts fed so far
  alive,         \* engine: the process runs
  spawned,       \* engine: the devices with an instance
  quiet,         \* engine: local ticks since the last report of a device
  out,           \* the engine's stdout: triggers not yet read
  violations,    \* violations_queue
  lastOverflow,  \* last_overflow_time, 0 for a missing key
  keys,          \* incidents_emitted
  built,         \* dispatch loop: the incidents it is about to append
  pending,       \* pending_incidents
  emitted        \* history: the incidents emit_incident was called with

engine  == <<alive, spawned, quiet>>
loop    == <<pc, alert, fed>>
queues  == <<out, violations, built, pending>>
vars    == <<loop, engine, queues, lastOverflow, keys, emitted>>

\* RTLOLA_STREAMS, time_anomaly and fuzzing taken together.  A dos_spam alert
\* has no stream; like a tick it only collects what is pending.
Streams == {"overflow", "safe_tx", "anomaly"}

NoAlert == [dev |-> CHOOSE d \in Devices : TRUE, type |-> "safe_tx"]

Init == /\ pc = "idle" /\ alert = NoAlert /\ fed = 0
        /\ alive = TRUE /\ spawned = {} /\ quiet = [d \in Devices |-> 0]
        /\ out = <<>> /\ violations = <<>> /\ built = <<>> /\ pending = <<>>
        /\ lastOverflow = [d \in Devices |-> 0]
        /\ keys = {} /\ emitted = <<>>
-----------------------------------------------------------------------------
(* The engine reads a line: safe_tx spawns an instance, and a verdict of any
   stream is a report. *)
Report(d, type) == /\ spawned' = spawned \cup {e \in {d} : type = "safe_tx"}
                   /\ quiet' = [quiet EXCEPT ![d] = 0]

(* process_alert: the CSV line is written and the engine reads it. *)
Feed(d, type) == /\ pc = "idle" /\ fed < MaxVerdicts /\ alive
                 /\ alert' = [dev |-> d, type |-> type]
                 /\ fed' = fed + 1
                 /\ Report(d, type)
                 /\ pc' = "fed"
                 /\ UNCHANGED <<alive, queues, lastOverflow, keys, emitted>>

(* process_alert without an engine: nothing is fed and nothing recorded, and
   nobody starts another engine. *)
FeedNobody(d, type) == /\ pc = "idle" /\ fed < MaxVerdicts /\ ~alive
                       /\ alert' = [dev |-> d, type |-> type]
                       /\ fed' = fed + 1
                       /\ pc' = "collect"
                       /\ UNCHANGED <<engine, queues, lastOverflow, keys, emitted>>

(* The engine's process dies; what it wrote is still read. *)
EngineDies == /\ MayDie /\ alive
              /\ alive' = FALSE
              /\ UNCHANGED <<loop, spawned, quiet, queues, lastOverflow, keys, emitted>>

(* process_alert, first critical section: the time of an overflow. *)
Record == /\ pc = "fed"
          /\ lastOverflow' = IF alert.type = "overflow"
                             THEN [lastOverflow EXCEPT ![alert.dev] = fed]
                             ELSE lastOverflow
          /\ pc' = "collect"
          /\ UNCHANGED <<alert, fed, engine, queues, keys, emitted>>

EmitPending == /\ emitted' = emitted \o pending
               /\ pending' = <<>>
               /\ UNCHANGED <<alert, fed, engine, out, violations, built,
                              lastOverflow, keys>>

(* process_alert, second critical section, and to_rtlola's emit_incident. *)
Collect == pc = "collect" /\ pc' = "idle" /\ EmitPending

(* to_rtlola on a tick: get_pending_incidents and emit_incident. *)
OnTick == pc = "idle" /\ pending # <<>> /\ UNCHANGED pc /\ EmitPending
-----------------------------------------------------------------------------
(* The local clock of an instance: it triggers when nothing was reported
   within the window.  process_alert is over before the window of its own
   verdict is. *)
LocalTick(d) ==
  /\ alive /\ d \in spawned /\ quiet[d] < Window + MaxRepeats
  /\ pc # "idle" /\ alert.dev = d => quiet[d] < Window
  /\ quiet' = [quiet EXCEPT ![d] = @ + 1]
  /\ out' = IF quiet'[d] > Window THEN Append(out, d) ELSE out
  /\ UNCHANGED <<loop, alive, spawned, violations, built, pending,
                 lastOverflow, keys, emitted>>

(* _read_violations: a line matches and is queued. *)
ReadLine == /\ out # <<>>
            /\ violations' = Append(violations, Head(out))
            /\ out' = Tail(out)
            /\ UNCHANGED <<loop, engine, built, pending,
                           lastOverflow, keys, emitted>>

(* _build_incident: the violation is blamed on the last overflow of the
   device, 0 if there is none. *)
Blame(d) == [dev |-> d, overflow |-> lastOverflow[d]]
Key(inc) == <<inc.dev, inc.overflow>>

(* An incident is built unless its key was used; without an overflow the key
   holds the wall clock and is always new. *)
Build(acc, d) ==
  LET inc == Blame(d) IN
    IF inc.overflow = 0 THEN [acc EXCEPT !.built = Append(@, inc)]
    ELSE IF Key(inc) \in acc.keys THEN acc
    ELSE [keys |-> acc.keys \cup {Key(inc)}, built |-> Append(acc.built, inc)]

(* What the loop of _drain_violations makes of the queue, line by line. *)
Drained ==
  LET acc[n \in 0..Len(violations)] ==
        IF n = 0 THEN [keys |-> keys, built |-> <<>>]
        ELSE Build(acc[n - 1], violations[n])
  IN acc[Len(violations)]

(* _drain_violations: one critical section empties the queue. *)
Drain == /\ violations # <<>> /\ built = <<>>
         /\ keys' = Drained.keys /\ built' = Drained.built
         /\ violations' = <<>>
         /\ UNCHANGED <<loop, engine, out, pending, lastOverflow, emitted>>

\* Mutant of Dispatch: what is pending is overwritten.
DispatchOver == /\ built # <<>>
                /\ pending' = built
                /\ built' = <<>>
                /\ UNCHANGED <<loop, engine, out, violations,
                               lastOverflow, keys, emitted>>

(* _dispatch_loop, its own critical section. *)
Dispatch == /\ built # <<>>
            /\ pending' = pending \o built
            /\ built' = <<>>
            /\ UNCHANGED <<loop, engine, out, violations,
                           lastOverflow, keys, emitted>>

(* A bound is reached and everything that fired is out. *)
Quiet == /\ fed = MaxVerdicts /\ pc = "idle"
         /\ \A d \in spawned : ~alive \/ quiet[d] = Window + MaxRepeats
         /\ out = <<>> /\ violations = <<>> /\ built = <<>> /\ pending = <<>>
         /\ UNCHANGED vars

EventLoop == Record \/ Collect \/ OnTick
Threads   == ReadLine \/ Drain \/ Dispatch
Clocks    == \E d \in Devices : LocalTick(d)

Next == \/ \E d \in Devices, type \in Streams : Feed(d, type) \/ FeedNobody(d, type)
        \/ EngineDies
        \/ EventLoop \/ Threads \/ Clocks \/ Quiet

(* Ticks keep coming, the threads keep running, the local clocks advance. *)
Spec == /\ Init /\ [][Next]_vars
        /\ WF_vars(EventLoop) /\ WF_vars(ReadLine) /\ WF_vars(Drain) /\ WF_vars(Dispatch)
        /\ \A d \in Devices : WF_vars(LocalTick(d))
-----------------------------------------------------------------------------
Incidents == built \o pending \o emitted

(* No incident is lost, doubled or made up between the three threads: each
   key that was used, which suppresses every later violation with it, stands
   for exactly one incident on its way (correlator_monitor.py:156), and an
   incident that blames an overflow has its key among them. *)
NoIncidentLost ==
  /\ \A k \in keys : Cardinality({i \in DOMAIN Incidents : Key(Incidents[i]) = k}) = 1
  /\ \A i \in DOMAIN Incidents : Incidents[i].overflow > 0 => Key(Incidents[i]) \in keys

(* A device that goes silent after an overflow is reported, by an incident
   that blames this overflow or a later one.  Only a device whose instance was
   spawned by a safe_tx is watched, and a second silence after the same
   overflow has the incident of the first. *)
SilenceAfterOverflowReported ==
  \A d \in Devices, n \in 1..MaxVerdicts :
     quiet[d] > Window /\ lastOverflow[d] = n
       ~> \E i \in DOMAIN emitted : emitted[i].dev = d /\ emitted[i].overflow >= n
=============================================================================
