---------------------------- MODULE GatewaySilence ----------------------------
(***************************************************************************)
(* P3.7, the gateway-silence monitor of backend_l3.py, with the two        *)
(* subscriptions that drive it (verdicts and fleet.tick, drained           *)
(* independently), the source of the ticks, and a wall clock in seconds    *)
(* that only the properties may read; and its standalone form,             *)
(* gw_silence.py, which reads the clock instead of counting ticks.  A      *)
(* behaviour has a lag: before a second ends, no message has been pending  *)
(* for more than lag seconds.                                              *)
(***************************************************************************)
EXTENDS Naturals, Sequences, FiniteSets

CONSTANTS Gateways,
          T,                \* GW_SILENCE_T
          MaxLag,           \* bound: seconds a message may wait to be drained
          MaxSeconds,       \* bound: wall-clock seconds
          MaxUpsets         \* bound: second deliveries, of verdicts and of ticks, and
                            \* restarts of the backend

ASSUME SilenceAssumption == /\ IsFiniteSet(Gateways)
                            /\ {T, MaxSeconds} \subseteq Nat \ {0}
                            /\ {MaxLag, MaxUpsets} \subseteq Nat

VARIABLES
  tickSource,   \* RVFABRIC_TICK_SOURCE: "backend" or "gateway"; or
                \* "standalone", gw_silence.py
  lag,          \* seconds a message may wait to be drained
  clock,        \* the wall clock
  up,           \* the gateways that run
  verdicts,     \* the "rtlola" subscription: pending verdicts
  ticks,        \* the "rtlola-tick" subscription: pending ticks, by second;
                \* standalone: the seconds its loop has still to wake for
  now,          \* GatewaySilenceMonitor.now, or when the loop last woke
  lastSeen,     \* GatewaySilenceMonitor.last_seen
  armed,        \* GatewaySilenceMonitor.armed; FALSE also for a missing key;
                \* standalone: seen and not in fired
  said,         \* history: the second of each gateway's last verdict, or 0
  news,         \* history: the gateways heard since their last incident
  incident,     \* history: the second of each gateway's last incident, or 0
  again,        \* "rtlola-tick": pending second deliveries of ticks, by second
  ticked,       \* history: some tick was delivered
  extra,        \* history: the second deliveries of ticks that were pending
                \* when the gateway's last verdict was said, or came after it
  redelivered,  \* bound: second deliveries of verdicts so far
  doubled,      \* bound: second deliveries of ticks so far
  restarts      \* bound: restarts so far

monitor == <<now, lastSeen, armed>>
host    == <<tickSource, lag>>
copies  == <<again, ticked, extra, doubled>>
rest    == <<host, copies, redelivered, restarts>>
vars    == <<clock, up, verdicts, ticks, monitor, said, news, incident, rest>>

Upsets == redelivered + doubled + restarts

Fresh == /\ now = 0
         /\ lastSeen = [g \in Gateways |-> 0]
         /\ armed = [g \in Gateways |-> FALSE]

TickSources == {"backend", "gateway", "standalone"}
Standalone  == tickSource = "standalone"

Init == /\ tickSource \in TickSources /\ lag \in 0..MaxLag
        /\ clock = 1 /\ up \in SUBSET Gateways
        /\ verdicts = <<>> /\ ticks = <<>>
        /\ Fresh
        /\ said = [g \in Gateways |-> 0]
        /\ news = {}
        /\ incident = [g \in Gateways |-> 0]
        /\ again = <<>> /\ ticked = FALSE
        /\ extra = [g \in Gateways |-> 0]
        /\ redelivered = 0 /\ doubled = 0 /\ restarts = 0
-----------------------------------------------------------------------------
(* Whoever is the source of ticks publishes one each second: the backend, or
   every gateway that runs. *)
TicksPerSecond == IF tickSource = "gateway" THEN Cardinality(up) ELSE 1

OnTime(t) == clock - t < lag

Second == /\ clock < MaxSeconds
          /\ \A i \in DOMAIN verdicts : OnTime(verdicts[i].at)
          /\ \A i \in DOMAIN ticks : OnTime(ticks[i])
          /\ \A i \in DOMAIN again : OnTime(again[i])
          /\ clock' = clock + 1
          /\ ticks' = ticks \o [i \in 1..TicksPerSecond |-> clock + 1]
          /\ UNCHANGED <<up, verdicts, monitor, said, news, incident, rest>>

(* A gateway publishes a verdict, at most one per second here. *)
Publish(g) == /\ g \in up /\ said[g] < clock
              /\ verdicts' = Append(verdicts, [gw |-> g, at |-> clock, copy |-> FALSE])
              /\ said' = [said EXCEPT ![g] = clock]
              /\ extra' = [extra EXCEPT ![g] = Len(again)]
              /\ UNCHANGED <<clock, up, ticks, monitor, news, incident, host, again, ticked,
                             redelivered, doubled, restarts>>

GatewayDies(g) == /\ g \in up
                  /\ up' = up \ {g}
                  /\ UNCHANGED <<clock, verdicts, ticks, monitor, said, news, incident, rest>>

Deliver(g) == /\ news' = IF Head(verdicts).copy THEN news ELSE news \cup {g}
              /\ verdicts' = Tail(verdicts)
              /\ UNCHANGED <<clock, up, ticks, now, said, incident, rest>>

\* Mutant of FeedVerdict: the gateway counts as heard at the next tick.
FeedVerdictAhead == /\ ~Standalone /\ verdicts # <<>>
                    /\ LET g == Head(verdicts).gw IN
                         /\ lastSeen' = [lastSeen EXCEPT ![g] = now + 1]
                         /\ armed' = [armed EXCEPT ![g] = TRUE]
                         /\ Deliver(g)

(* to_rtlola on a verdict: feed_verdict, before the deduplication. *)
FeedVerdict == /\ ~Standalone /\ verdicts # <<>>
               /\ LET g == Head(verdicts).gw IN
                    /\ lastSeen' = [lastSeen EXCEPT ![g] = now]
                    /\ armed' = [armed EXCEPT ![g] = TRUE]
                    /\ Deliver(g)

(* gw_silence.py hears a verdict (on). *)
Hear == /\ Standalone /\ verdicts # <<>>
        /\ LET g == Head(verdicts).gw IN
             /\ lastSeen' = [lastSeen EXCEPT ![g] = clock]
             /\ armed' = [armed EXCEPT ![g] = TRUE]
             /\ Deliver(g)

(* JetStream delivers a verdict once more: its acknowledgement was lost or
   took longer than ack_wait.  gw_silence.py subscribes outside JetStream. *)
Redeliver(g) == /\ ~Standalone
                /\ Upsets < MaxUpsets
                /\ g \in news \/ incident[g] > 0
                /\ redelivered' = redelivered + 1
                /\ verdicts' = Append(verdicts, [gw |-> g, at |-> clock, copy |-> TRUE])
                /\ UNCHANGED <<clock, up, ticks, monitor, said, news, incident, host, copies,
                               restarts>>

(* JetStream delivers a tick once more: its consumer (rtlola-tick) is durable,
   too, and a tick carries no id to know it by.  All ticks are alike to on_tick,
   so the place of a second delivery among the others does not matter. *)
RedeliverTick == /\ ~Standalone
                 /\ Upsets < MaxUpsets
                 /\ ticked
                 /\ doubled' = doubled + 1
                 /\ again' = Append(again, clock)
                 /\ extra' = [g \in Gateways |-> extra[g] + 1]
                 /\ UNCHANGED <<clock, up, verdicts, ticks, monitor, said, news, incident, host,
                                ticked, redelivered, restarts>>

\* Mutant of Silent: >= for >.
SilentEarly(g) == armed[g] /\ now' - lastSeen[g] >= T

\* Mutant of Silent: the tick is counted after the check.
SilentLate(g) == armed[g] /\ now - lastSeen[g] > T

Silent(g) == armed[g] /\ now' - lastSeen[g] > T

Report(S) == /\ incident' = [g \in Gateways |-> IF g \in S THEN clock ELSE incident[g]]
             /\ news' = news \ S

(* The next message of the tick subscription, a first delivery or a second. *)
NextTick == /\ \/ ticks # <<>> /\ ticks' = Tail(ticks) /\ again' = again
               \/ again # <<>> /\ again' = Tail(again) /\ ticks' = ticks
            /\ ticked' = TRUE
            /\ UNCHANGED <<extra, doubled>>

\* Mutant of OnTick: the incident does not disarm the gateway.
OnTickNoDisarm == /\ ~Standalone /\ NextTick
                  /\ now' = now + 1
                  /\ Report({g \in Gateways : Silent(g)})
                  /\ UNCHANGED <<clock, up, verdicts, lastSeen, armed, said, host, redelivered,
                                 restarts>>

(* to_rtlola on a tick: on_tick ages every gateway and reports those that
   were armed and have been quiet for more than T ticks. *)
OnTick == /\ ~Standalone /\ NextTick
          /\ now' = now + 1
          /\ LET S == {g \in Gateways : Silent(g)} IN
               /\ armed' = [g \in Gateways |-> armed[g] /\ g \notin S]
               /\ Report(S)
          /\ UNCHANGED <<clock, up, verdicts, lastSeen, said, host, redelivered, restarts>>

(* The loop of gw_silence.py wakes and looks at every gateway. *)
Look == /\ Standalone /\ ticks # <<>>
        /\ now' = clock
        /\ ticks' = <<>>
        /\ LET S == {g \in Gateways : Silent(g)} IN
             /\ armed' = [g \in Gateways |-> armed[g] /\ g \notin S]
             /\ Report(S)
        /\ UNCHANGED <<clock, up, verdicts, lastSeen, said, rest>>

(* The backend restarts; what was pending is delivered again, what the
   monitor knew is gone. *)
BackendRestarts == /\ ~Standalone
                   /\ Upsets < MaxUpsets
                   /\ restarts' = restarts + 1
                   /\ now' = 0
                   /\ lastSeen' = [g \in Gateways |-> 0]
                   /\ armed' = [g \in Gateways |-> FALSE]
                   /\ UNCHANGED <<clock, up, verdicts, ticks, said, news, incident, host, copies,
                                  redelivered>>

(* The bound on the clock is reached and every message is drained. *)
Quiet == /\ clock = MaxSeconds /\ verdicts = <<>> /\ ticks = <<>> /\ again = <<>>
         /\ UNCHANGED vars

Next == \/ Second \/ FeedVerdict \/ OnTick \/ BackendRestarts
        \/ Hear \/ Look \/ RedeliverTick \/ Quiet
        \/ \E g \in Gateways : Publish(g) \/ GatewayDies(g) \/ Redeliver(g)

Spec == Init /\ [][Next]_vars
-----------------------------------------------------------------------------
TicksPerSecondAtMost == IF tickSource = "gateway" THEN Cardinality(Gateways) ELSE 1

TypeOK ==
  /\ tickSource \in TickSources /\ lag \in 0..MaxLag
  /\ clock \in 1..MaxSeconds /\ up \subseteq Gateways
  /\ verdicts \in Seq([gw : Gateways, at : 1..MaxSeconds, copy : BOOLEAN])
  /\ ticks \in Seq(2..MaxSeconds) /\ again \in Seq(1..MaxSeconds)
  /\ now \in Nat
  /\ lastSeen \in [Gateways -> 0..(IF Standalone THEN clock ELSE now)]
  /\ armed \in [Gateways -> BOOLEAN]
  /\ {said, incident} \subseteq [Gateways -> 0..clock] /\ news \subseteq Gateways
  /\ ticked \in BOOLEAN /\ extra \in [Gateways -> 0..doubled]

(* A reported gateway was silent: when it is reported, its last verdict is T
   ticks old, save for one still on its way, what message delays can hide at
   both ends, and one tick for each second delivery of a tick that could be
   counted after that verdict (backend_l3.py:70-71, 164-168, 194-197).  T ticks
   are T seconds when the backend is their source, and T/n seconds when n
   gateways are; gw_silence.py counts seconds. *)
SilenceIsReal ==
  \A g \in Gateways :
     said[g] + lag < incident[g] =>
       TicksPerSecondAtMost * (incident[g] + lag - said[g] + 1) + extra[g] > T

(* backend_l3.py:171-172: at most one incident per silence.  A gateway that is
   reported said something new since its last incident, unless some verdict
   was delivered again: a copy re-arms the monitor, too. *)
OncePerEpisode ==
  [][\A g \in Gateways : incident'[g] # incident[g] => g \in news \/ redelivered > 0]_vars

(* A gateway that went silent is reported no later than T + 1 seconds after its
   last verdict, delays included, while the ticks go on; a tick delivered twice
   only hastens the report.  A restart makes the monitor forget the gateways
   that were silent before it, and a copy of a verdict delays the report.  The
   ticks that can be counted in the second of the verdict stay below the
   threshold: T + 1 of them, late or delivered twice, would report the gateway
   in that second, and then no more. *)
SilenceIsReported ==
  tickSource # "gateway" /\ restarts = 0 /\ redelivered = 0 =>
    \A g \in Gateways :
       said[g] > 0 /\ lag + extra[g] < T /\ clock > said[g] + T + 1 + 2 * lag =>
         incident[g] > said[g]
=============================================================================
