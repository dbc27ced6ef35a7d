------------------------------ MODULE Consumers ------------------------------
(***************************************************************************)
(* The three drains of backend_l3.py on the one event loop they share.     *)
(* Each has a durable consumer of JetStream and a queue of delivered       *)
(* messages; to_monpoly and to_rtlola write to the engines' stdin pipes    *)
(* with calls that hold the loop until the pipe has room.  A message that  *)
(* does not decode ends its drain, and with it gather and main; an         *)
(* operator starts the backend again.  The engines' answers are left to    *)
(* Correlator, SilentNode and GatewaySilence.                              *)
(***************************************************************************)
EXTENDS Naturals, Sequences, FiniteSets, SequencesExt

CONSTANTS MayStall,      \* the engines that may stop to read
          Streams,       \* bound: what JetStream may get, sequences of Kinds
          MaxUpsets      \* bound: second deliveries and kills of the backend

\* "monpoly" stands for the four processes of P3.1-P3.4, "crossgw" is P3.6.
Engines == {"crossgw", "monpoly", "rtlola"}

\* The two subscriptions to gw.*.verdict and the one to fleet.tick.
Drains == {"monpoly", "rtlola", "tick"}

\* A verdict of an overflow, one of another kind, a line cut by a power loss
\* that recover published as it was, a tick.
Kinds == {"overflow", "other", "poison", "tick"}

ASSUME ConsumersAssumption == /\ MayStall \subseteq Engines
                              /\ Streams \subseteq Seq(Kinds)
                              /\ MaxUpsets \in Nat

VARIABLES
  stream,    \* the kinds of the messages JetStream gets, early or late
  floor,     \* per drain: the last message its consumer ever delivered
  acked,     \* per drain: the messages it acknowledged
  pending,   \* per drain: messages delivered to the client, not yet taken
  phase,     \* main: "up", "closing" (the finally block) or "down"
  drainPc,   \* per drain: "wait", "feed", "ack", or "dead" after an exception
  current,   \* per drain: the message it works on
  todo,      \* the engines the feed that holds the loop has still to write to
  seen,      \* _seen, per tag: the event ids, one per verdict
  stalled,   \* the engines that stopped to read, and whose pipe is full
  fed,       \* history: per engine of this run, the messages it was written
  done,      \* history: per drain, the messages fed in any run
  unfed,     \* history: per drain, messages acknowledged while main closes
  upsets     \* bound: second deliveries and kills so far

server  == <<stream, floor, acked>>
loop    == <<phase, drainPc, current, todo>>
history == <<done, unfed>>
vars    == <<server, pending, loop, seen, stalled, fed, history, upsets>>

None(S) == [x \in S |-> {}]

Poisonous == {i \in DOMAIN stream : stream[i] = "poison"}

Init == /\ stream \in Streams
        /\ floor = [d \in Drains |-> 0] /\ acked = None(Drains)
        /\ pending = [d \in Drains |-> <<>>]
        /\ phase = "up"
        /\ drainPc = [d \in Drains |-> "wait"] /\ current = [d \in Drains |-> 0]
        /\ todo = <<>>
        /\ seen = None(Drains)
        /\ stalled = {}
        /\ fed = [e \in Engines |-> <<>>]
        /\ done = None(Drains) /\ unfed = None(Drains)
        /\ upsets = 0
-----------------------------------------------------------------------------
Wanted(d, i) == (stream[i] = "tick") <=> (d = "tick")
Held(d)      == ToSet(pending[d]) \cup ({current[d]} \ {0})

(* JetStream delivers the next message of a subscription. *)
DeliverNew(d) ==
  /\ phase = "up"
  /\ \E i \in DOMAIN stream :
       /\ i > floor[d] /\ Wanted(d, i)
       /\ \A j \in (floor[d] + 1)..(i - 1) : ~Wanted(d, j)
       /\ floor' = [floor EXCEPT ![d] = i]
       /\ pending' = [pending EXCEPT ![d] = Append(@, i)]
  /\ UNCHANGED <<stream, acked, loop, seen, stalled, fed, history, upsets>>

Deliver(d, i) == /\ phase = "up" /\ i <= floor[d] /\ Wanted(d, i) /\ i \notin acked[d]
                 /\ pending' = [pending EXCEPT ![d] = Append(@, i)]
                 /\ UNCHANGED <<server, loop, seen, stalled, fed, history>>

(* After ack_wait it delivers again what a run that is over had in hand ... *)
DeliverAgain(d, i) == i \notin Held(d) /\ Deliver(d, i) /\ UNCHANGED upsets

(* ... and what this run has in hand and did not acknowledge in time. *)
DeliverTwice(d, i) == /\ i \in Held(d) /\ upsets < MaxUpsets
                      /\ Deliver(d, i)
                      /\ upsets' = upsets + 1
-----------------------------------------------------------------------------
\* The loop runs another task only while no feed waits for a pipe.
LoopFree == phase # "down" /\ \A d \in Drains : drainPc[d] # "feed"

(* shutdown has closed MonPoly and RTLola once main leaves gather; the
   process of P3.6 stays. *)
Open == IF phase = "closing" THEN {"crossgw"} ELSE Engines

\* Mutant of Dup: one set of ids for both drains.
DupShared(d, i) == d # "tick" /\ \E tag \in {"monpoly", "rtlola"} : i \in seen[tag]

\* Mutant of Dup: the id is never remembered.
DupNever(d, i) == FALSE

Dup(d, i) == d # "tick" /\ i \in seen[d]

\* Mutant of Targets: P3.6 is fed before the deduplication.
TargetsEager(d, i) ==
  (IF d = "monpoly" /\ stream[i] = "overflow" THEN <<"crossgw">> ELSE <<>>)
     \o (IF d \in Open /\ ~Dup(d, i) THEN <<d>> ELSE <<>>)

(* to_monpoly writes to P3.6, of overflows only, and then to P3.1-P3.4, the
   engine of its name; to_rtlola to P3.5; neither of a verdict it has seen.  A
   tick is written to no engine. *)
Targets(d, i) ==
  IF d = "tick" \/ Dup(d, i) THEN <<>>
  ELSE (IF d = "monpoly" /\ stream[i] = "overflow" THEN <<"crossgw">> ELSE <<>>)
          \o (IF d \in Open THEN <<d>> ELSE <<>>)

Remember(d, i) == seen' = IF d = "tick" THEN seen ELSE [seen EXCEPT ![d] = @ \cup {i}]

(* A feed that has nothing left to write returns.  While main closes,
   P3.1-P3.5 are not fed any more: the write is refused and the exception
   caught, or poll finds the process gone. *)
Return(d, i, rest, new) ==
  LET over == rest = <<>> /\ new IN
  /\ todo' = rest
  /\ drainPc' = [drainPc EXCEPT ![d] = IF rest = <<>> THEN "ack" ELSE "feed"]
  /\ done' = IF over /\ phase = "up" THEN [done EXCEPT ![d] = @ \cup {i}] ELSE done
  /\ unfed' = IF over /\ phase = "closing" THEN [unfed EXCEPT ![d] = @ \cup {i}] ELSE unfed

(* drain: the next message decodes, and the feed takes the loop. *)
Take(d) ==
  LET i == Head(pending[d]) IN
  /\ LoopFree /\ drainPc[d] = "wait" /\ pending[d] # <<>>
  /\ stream[i] # "poison"
  /\ pending' = [pending EXCEPT ![d] = Tail(@)]
  /\ current' = [current EXCEPT ![d] = i]
  /\ Remember(d, i)
  /\ Return(d, i, Targets(d, i), ~Dup(d, i))
  /\ UNCHANGED <<server, phase, stalled, fed, upsets>>

(* drain: json.loads raises; gather passes the exception on, and the finally
   block of main shuts MonPoly and RTLola down. *)
Raise(d) ==
  /\ LoopFree /\ drainPc[d] = "wait" /\ pending[d] # <<>>
  /\ stream[Head(pending[d])] = "poison"
  /\ pending' = [pending EXCEPT ![d] = Tail(@)]
  /\ drainPc' = [drainPc EXCEPT ![d] = "dead"]
  /\ phase' = "closing"
  /\ UNCHANGED <<server, current, todo, seen, stalled, fed, history, upsets>>

(* The feed writes a line and flushes.  The call returns when the pipe has
   room, which takes an engine as long as it likes; it holds the loop. *)
Write(d) ==
  /\ drainPc[d] = "feed"
  /\ Head(todo) \notin stalled
  /\ fed' = [fed EXCEPT ![Head(todo)] = Append(@, current[d])]
  /\ Return(d, current[d], Tail(todo), TRUE)
  /\ UNCHANGED <<server, pending, phase, current, seen, stalled, upsets>>

\* Mutant of Ack: everything in hand is acknowledged with it.
AckHeld(d) == /\ LoopFree /\ drainPc[d] = "ack"
              /\ acked' = [acked EXCEPT ![d] = @ \cup Held(d)]
              /\ current' = [current EXCEPT ![d] = 0]
              /\ drainPc' = [drainPc EXCEPT ![d] = "wait"]
              /\ UNCHANGED <<stream, floor, pending, phase, todo, seen, stalled, fed, history, upsets>>

(* drain: msg.ack(). *)
Ack(d) == /\ LoopFree /\ drainPc[d] = "ack"
          /\ acked' = [acked EXCEPT ![d] = @ \cup {current[d]}]
          /\ current' = [current EXCEPT ![d] = 0]
          /\ drainPc' = [drainPc EXCEPT ![d] = "wait"]
          /\ UNCHANGED <<stream, floor, pending, phase, todo, seen, stalled, fed, history, upsets>>
-----------------------------------------------------------------------------
(* An engine stops to read: nobody empties the stderr of P3.6. *)
Stall(e) == /\ e \in MayStall \ stalled
            /\ stalled' = stalled \cup {e}
            /\ UNCHANGED <<server, pending, loop, seen, fed, history, upsets>>

Stop == /\ phase' = "down"
        /\ pending' = [d \in Drains |-> <<>>]
        /\ drainPc' = [d \in Drains |-> "wait"] /\ current' = [d \in Drains |-> 0]
        /\ todo' = <<>>
        /\ stalled' = {}
        /\ UNCHANGED <<server, seen, fed, history>>

(* The finally block ends: nc.drain has let the other drains work off what
   they had, or has given up waiting for them. *)
Exit == phase = "closing" /\ LoopFree /\ Stop /\ UNCHANGED upsets

Kill == /\ phase # "down" /\ upsets < MaxUpsets
        /\ Stop
        /\ upsets' = upsets + 1

(* An operator starts the backend, which binds to its durable consumers: new
   engines, nothing seen. *)
Start == /\ phase = "down"
         /\ phase' = "up"
         /\ seen' = None(Drains)
         /\ fed' = [e \in Engines |-> <<>>]
         /\ UNCHANGED <<server, pending, drainPc, current, todo, stalled, history, upsets>>

Deliveries(d) == DeliverNew(d) \/ \E i \in DOMAIN stream : DeliverAgain(d, i)
Work(d)       == Take(d) \/ Raise(d) \/ Write(d) \/ Ack(d)
Restart       == Exit \/ Start

Next == \/ \E d \in Drains : \/ Deliveries(d) \/ Work(d)
                             \/ \E i \in DOMAIN stream : DeliverTwice(d, i)
        \/ \E e \in Engines : Stall(e)
        \/ Kill \/ Restart

(* JetStream delivers, the loop runs its tasks, an engine that has not
   stalled makes room in its pipe, and a backend that stopped is started. *)
Spec == /\ Init /\ [][Next]_vars
        /\ WF_vars(\E d \in Drains : Deliveries(d))
        /\ WF_vars(\E d \in Drains : Work(d))
        /\ WF_vars(Restart)
-----------------------------------------------------------------------------
(* Exactly-once effect over an at-least-once stream (backend_l3.py:213-215):
   what a drain acknowledged it has fed, in this run or an earlier one, and
   what the other drain saw makes no difference.  The exception is a drain
   that goes on while main closes behind a message that does not decode: it
   acknowledges verdicts that no engine of P3.1-P3.5 reads any more. *)
AckedWasFed ==
  \A d \in Drains : \A i \in acked[d] : i \in unfed[d] \/ i \in done[d]

(* No verdict is fed twice to an engine of one run, however often JetStream
   delivers it. *)
OncePerRun == \A e \in Engines : IsInjective(fed[e])

(* c holds the overflows of m, in the order of m. *)
Overflows(c, m) ==
  /\ ToSet(c) = {i \in ToSet(m) : stream[i] = "overflow"}
  /\ \A a, b \in DOMAIN c, p, q \in DOMAIN m :
       c[a] = m[p] /\ c[b] = m[q] => (a < b <=> p < q)

(* P3.6 and P3.1-P3.4 judge the same history: between two feeds P3.6 was
   given exactly the overflows that P3.1-P3.4 were given, in the same order,
   although each verdict is written to the one and then to the others
   (backend_l3.py:271-273). *)
EnginesAgree ==
  phase = "up" /\ drainPc["monpoly"] # "feed" => Overflows(fed["crossgw"], fed["monpoly"])

AllFed(d) == \A i \in DOMAIN stream : Wanted(d, i) => i \in done[d] \cup unfed[d]

(* Each verdict is fed to both monitors in the end and each tick is counted,
   through a kill of the backend and late acknowledgements, unless a message
   that does not decode stands in the stream or an engine has stalled. *)
EventuallyFed == <>(Poisonous # {} \/ stalled # {} \/ \A d \in Drains : AllFed(d))

(* backend_l3.py:4-6: "a slow MonPoly does not head-of-line-block RTLola". *)
NoHeadOfLineBlocking == <>AllFed("rtlola")
=============================================================================
