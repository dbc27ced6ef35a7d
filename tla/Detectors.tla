------------------------------ MODULE Detectors ------------------------------
(***************************************************************************)
(* The detectors of a gateway (gateway.py): the stamp of an incoming       *)
(* event, its class (l1_classify), and the per-device sliding windows that *)
(* turn classes into alerts (L2Aggregator), fed by devices that follow a   *)
(* profile or replay a trace (device_publisher.py).  The broker may        *)
(* deliver a QoS 1 message twice, the second time late, and the wall clock *)
(* the stamp reads may be set back.                                        *)
(***************************************************************************)
EXTENDS Integers, Sequences, FiniteSets

CONSTANTS Devices,
          Sources,             \* what devices run: profiles, or "trace"
          Trace,               \* what an event of a replayed trace may say
          SPOOF_S,             \* seconds a spoofed time is off
          TS_SKEW_S,
          OVERFLOW_WINDOW, OVERFLOW_THRESHOLD,
          SPAM_WINDOW,     SPAM_THRESHOLD,
          PULSING_WINDOW,  PULSING_THRESHOLD,
          Steps,               \* seconds the clock moves between two events
          MaxEvents,           \* bound: events the gateway handles
          MaxUpsets            \* bound: second deliveries, and times the
                               \* clock is set back

PROFILES == {"normal", "overflow", "timespoof", "spam",
             "stealth", "fuzzer", "pulsing", "mixed"}

(* size is how actual_sent compares with buffer_limit and zero; skew is the
   device's "turn" minus the time of day when it publishes the event. *)
Event == [tool : {"vulnerable_send", "safe_send", "time_spoof_send", "fuzz_send"},
          size : {"over", "normal", "nonpositive"},
          skew : Int]

ASSUME DetectorsAssumption ==
  /\ Sources \subseteq PROFILES \cup {"trace"} /\ Trace \subseteq Event
  /\ {SPOOF_S, TS_SKEW_S, OVERFLOW_WINDOW, SPAM_WINDOW, PULSING_WINDOW} \subseteq Nat
  /\ {OVERFLOW_THRESHOLD, SPAM_THRESHOLD, PULSING_THRESHOLD} \subseteq Nat \ {0}
  /\ Steps \subseteq Nat
  /\ {MaxEvents, MaxUpsets} \subseteq Nat

VARIABLES
  source,    \* what each device runs
  clock,     \* int(time.time()), at the gateway and at the devices
  sent,      \* the messages devices published, as [dev, evt, turn]
  log,       \* the events handled so far, as [msg, dev, cls, ts]
  overflow, spam, pulsing,  \* the deques of L2Aggregator; an entry is the
                            \* index in log of the event whose ts it holds
  alerts,    \* history: the alerts, in order
  setBack    \* bound: times the clock was set back

windows == <<overflow, spam, pulsing>>
vars    == <<source, clock, sent, log, windows, alerts, setBack>>

Kinds == {"overflow", "spam", "pulsing"}

Empty == [d \in Devices |-> <<>>]

Init == /\ source \in [Devices -> Sources]
        /\ clock = 0 /\ sent = <<>> /\ log = <<>>
        /\ overflow = Empty /\ spam = Empty /\ pulsing = Empty
        /\ alerts = <<>> /\ setBack = 0
-----------------------------------------------------------------------------
Says(tool, size, skew) == [tool |-> tool, size |-> size, skew |-> skew]

SafeTx    == {Says("safe_send", "normal", 0)}
Overflow  == {Says("vulnerable_send", "over", 0)}
TimeSpoof == {Says("time_spoof_send", "normal", n) : n \in {-SPOOF_S, SPOOF_S}}
Fuzz      == {Says("vulnerable_send", "over", 0), Says("fuzz_send", "nonpositive", 0)}

(* What a step of a profile may publish; which of them is random. *)
Generated(src) ==
  CASE src \in {"normal", "spam", "pulsing"} -> SafeTx
    [] src \in {"overflow", "stealth"}       -> SafeTx \cup Overflow
    [] src = "timespoof"                     -> TimeSpoof
    [] src = "fuzzer"                        -> SafeTx \cup Fuzz
    [] src = "mixed"                         -> SafeTx \cup Overflow \cup TimeSpoof
    [] src = "trace"                         -> Trace

Abs(n) == IF n < 0 THEN -n ELSE n

(* l1_classify: the first rule that applies to an event stamped at gw_t. *)
Classify(e, turn, gw_t) ==
  IF e.size = "over" /\ e.tool = "vulnerable_send" THEN "buffer_overflow"
  ELSE IF Abs(gw_t - turn) > TS_SKEW_S THEN "time_anomaly"
  ELSE IF e.size = "nonpositive" THEN "logic_fuzz_anomaly"
  ELSE "safe_tx"

\* Mutant of Prune: <= for <.
PruneTooMuch(h, ts, W, lg) ==
  LET late == {n \in 1..Len(h) : \A i \in 1..n : lg[h[i]].ts <= ts - W}
  IN  SubSeq(h, Cardinality(late) + 1, Len(h))

(* while h and h[0] < ts - W: h.popleft() *)
Prune(h, ts, W, lg) ==
  LET late == {n \in 1..Len(h) : \A i \in 1..n : lg[h[i]].ts < ts - W}
  IN  SubSeq(h, Cardinality(late) + 1, Len(h))

\* Mutant of Slide: the deque is not cleared after an alert.
SlideNoClear(h, lg, W, K) ==
  LET w == Prune(Append(h, Len(lg)), lg[Len(lg)].ts, W, lg)
  IN  [deque |-> w, counted |-> IF Len(w) >= K THEN w ELSE <<>>]

\* Mutant of Slide: the deque is not pruned.
SlideNoPrune(h, lg, W, K) ==
  LET w == Append(h, Len(lg))
  IN  IF Len(w) >= K THEN [deque |-> <<>>, counted |-> w]
                     ELSE [deque |-> w, counted |-> <<>>]

(* One window takes the last event of the log: append, prune, and when the
   threshold is reached alert and clear.  counted is what the alert counts,
   empty if there is none. *)
Slide(h, lg, W, K) ==
  LET w == Prune(Append(h, Len(lg)), lg[Len(lg)].ts, W, lg)
  IN  IF Len(w) >= K THEN [deque |-> <<>>, counted |-> w]
                     ELSE [deque |-> w, counted |-> <<>>]

Alert(type, kind, d, counted) ==
  [type |-> type, kind |-> kind, dev |-> d, counted |-> counted]

WindowAlert(type, kind, d, slid) ==
  IF slid.counted = <<>> THEN <<>> ELSE <<Alert(type, kind, d, slid.counted)>>

(* aggregate: the alerts of the event just logged, and the windows it leaves. *)
Aggregate(lg) ==
  LET e == lg[Len(lg)]
      d == e.dev
      o == Slide(overflow[d], lg, OVERFLOW_WINDOW, OVERFLOW_THRESHOLD)
      s == Slide(spam[d], lg, SPAM_WINDOW, SPAM_THRESHOLD)
      p == Slide(pulsing[d], lg, PULSING_WINDOW, PULSING_THRESHOLD)
  IN  CASE e.cls = "time_anomaly" ->
             /\ alerts' = Append(alerts, Alert("time_anomaly", "event", d, <<Len(lg)>>))
             /\ UNCHANGED windows
        [] e.cls = "logic_fuzz_anomaly" ->
             /\ alerts' = Append(alerts, Alert("fuzzing", "event", d, <<Len(lg)>>))
             /\ UNCHANGED windows
        [] e.cls = "buffer_overflow" ->
             /\ alerts' = alerts \o WindowAlert("overflow", "overflow", d, o)
             /\ overflow' = [overflow EXCEPT ![d] = o.deque]
             /\ UNCHANGED <<spam, pulsing>>
        [] e.cls = "safe_tx" ->
             /\ alerts' = alerts \o <<Alert("safe_tx", "event", d, <<Len(lg)>>)>>
                                 \o WindowAlert("dos_spam", "spam", d, s)
                                 \o WindowAlert("dos_spam", "pulsing", d, p)
             /\ spam' = [spam EXCEPT ![d] = s.deque]
             /\ pulsing' = [pulsing EXCEPT ![d] = p.deque]
             /\ UNCHANGED overflow

(* stamp, l1_classify and aggregate for one delivery of the message m. *)
Handle(m) ==
  /\ Len(log) < MaxEvents
  /\ log' = Append(log, [msg |-> m, dev |-> sent'[m].dev,
                         cls |-> Classify(sent'[m].evt, sent'[m].turn, clock'),
                         ts |-> clock'])
  /\ Aggregate(log')
  /\ UNCHANGED <<source, setBack>>

(* A device pauses, publishes an event and the broker delivers it. *)
Deliver(d, e) == /\ \E n \in Steps : clock' = clock + n
                 /\ sent' = Append(sent, [dev |-> d, evt |-> e, turn |-> clock' + e.skew])
                 /\ Handle(Len(sent'))

Upsets == Len(log) - Len(sent) + setBack

(* The broker delivers a message once more, maybe late: its PUBACK was lost. *)
DeliverAgain(m) == /\ Upsets < MaxUpsets
                   /\ \E n \in Steps : clock' = clock + n
                   /\ UNCHANGED sent
                   /\ Handle(m)

(* The wall clock is set back. *)
SetBack == /\ Upsets < MaxUpsets
           /\ \E n \in Steps \ {0} : clock' = clock - n
           /\ setBack' = setBack + 1
           /\ UNCHANGED <<source, sent, log, windows, alerts>>

(* The bound on the events is reached. *)
Quiet == Len(log) = MaxEvents /\ UNCHANGED vars

Next == \/ \E d \in Devices : \E e \in Generated(source[d]) : Deliver(d, e)
        \/ \E m \in DOMAIN sent : DeliverAgain(m)
        \/ SetBack
        \/ Quiet

Spec == Init /\ [][Next]_vars
-----------------------------------------------------------------------------
Indices == 1..Len(log)

TypeOK == /\ source \in [Devices -> Sources]
          /\ clock \in Int
          /\ sent \in Seq([dev : Devices, evt : Event, turn : Int])
          /\ log \in Seq([msg : DOMAIN sent, dev : Devices, ts : Int,
                          cls : {"buffer_overflow", "time_anomaly",
                                 "logic_fuzz_anomaly", "safe_tx"}])
          /\ {overflow, spam, pulsing} \subseteq [Devices -> Seq(Indices)]
          /\ \A d \in Devices : /\ Len(overflow[d]) < OVERFLOW_THRESHOLD
                                /\ Len(spam[d]) < SPAM_THRESHOLD
                                /\ Len(pulsing[d]) < PULSING_THRESHOLD
          /\ \A i \in DOMAIN alerts : alerts[i].counted \in Seq(Indices)

Spread(kind)    == CASE kind = "overflow" -> OVERFLOW_WINDOW
                     [] kind = "spam"     -> SPAM_WINDOW
                     [] kind = "pulsing"  -> PULSING_WINDOW
Threshold(kind) == CASE kind = "overflow" -> OVERFLOW_THRESHOLD
                     [] kind = "spam"     -> SPAM_THRESHOLD
                     [] kind = "pulsing"  -> PULSING_THRESHOLD
ClassOf(kind)   == IF kind = "overflow" THEN "buffer_overflow" ELSE "safe_tx"

CountedBy(a) == {a.counted[i] : i \in DOMAIN a.counted}
WindowAlerts == {i \in DOMAIN alerts : alerts[i].kind \in Kinds}

(* Every window alert counts enough events of its device and class, and as
   long as the clock was never set back they lie within the window. *)
AlertsJustified ==
  \A i \in WindowAlerts :
     LET a == alerts[i]
         C == CountedBy(a)
     IN  /\ Cardinality(C) >= Threshold(a.kind)
         /\ \A n \in C : log[n].dev = a.dev /\ log[n].cls = ClassOf(a.kind)
         /\ setBack = 0 => \A n, m \in C : log[n].ts - log[m].ts <= Spread(a.kind)

(* An event is counted by one alert of a window at most. *)
CountedOnce ==
  \A i, j \in WindowAlerts :
     i # j /\ alerts[i].kind = alerts[j].kind => CountedBy(alerts[i]) \cap CountedBy(alerts[j]) = {}

(* The events of a device and class that no alert of the window counted. *)
Uncounted(kind, d) ==
  {n \in Indices : /\ log[n].dev = d /\ log[n].cls = ClassOf(kind)
                   /\ \A i \in WindowAlerts :
                        alerts[i].kind = kind => n \notin CountedBy(alerts[i])}

(* No burst is missed, as long as the clock was never set back: among the
   events that no alert of a window counted there are never enough within the
   window to make another one. *)
NoBurstMissed ==
  setBack = 0 => \A kind \in Kinds, d \in Devices : \A n \in Uncounted(kind, d) :
     Cardinality({m \in Uncounted(kind, d) :
                    m <= n /\ log[m].ts >= log[n].ts - Spread(kind)}) < Threshold(kind)
=============================================================================
