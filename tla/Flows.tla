--------------------------------- MODULE Flows ---------------------------------
(***************************************************************************)
(* The replay of recorded data: the scripts of realdata/ that read a       *)
(* capture flow by flow, raise the alerts port_scan, ddos_flood and        *)
(* c2_beacon for a host, and write a log for the P3.2 formula of MonPoly;  *)
(* ton_iot_monpoly.py writes the log of the TON_IoT capture, episodes.py   *)
(* counts what MonPoly finds in a log.  A time is a number of parts of a   *)
(* second: each script keeps the parts, or cuts them off, on its own.      *)
(***************************************************************************)
EXTENDS Integers, Sequences, FiniteSets, FiniteSetsExt

CONSTANTS
  Hosts,        \* source addresses, as numbers: Python sorts by them too
  Dsts,         \* destination addresses
  Scripts,      \* the scripts a behaviour may follow, a subset of AllScripts
  RowsOf,       \* for a script, the rows a capture may have
  Limits,       \* what --max of ton_iot_rv.py may be; 0 takes all rows
  Second,       \* the parts of a second that times are counted in
  Fanout, ScanW,      \* FANOUT and W_SCAN: distinct failed destinations, 60 s
  Flood, FloodW,      \* FLOOD and FLOOD_W: flows to one destination, 10 s
  Beacon,             \* BEACON: failed flows to one destination
  Bucket,             \* the log keeps one event of a host in 5 s
  Window, MinScanners,\* P3.2: three devices within 30 s
  Day,                \* seconds in a day
  MaxRows             \* bound: rows of a capture

AllScripts == {"ton_iot", "wustl_water", "iot23", "ctu13"}

ASSUME FlowsAssumption ==
  /\ Hosts \subseteq Nat /\ Scripts \subseteq AllScripts
  /\ Limits \subseteq Nat
  /\ {Second, Fanout, Flood, Beacon, Bucket, MinScanners, Day} \subseteq Nat \ {0}
  /\ {ScanW, FloodW, Window, MaxRows} \subseteq Nat
  /\ \A s \in Scripts :
       RowsOf[s] \subseteq [src : Hosts, dst : Dsts, ts : Nat, timed : BOOLEAN, failed : BOOLEAN]

VARIABLES script,   \* which script runs
          limit,    \* --max of ton_iot_rv.py
          rows,     \* rows read so far
          flows,    \* the flows it keeps, each with the time it gives them
          done,     \* the capture is read and analysed
          alerts,   \* alerts[d]
          log       \* the log for P3.2: when which host had an event

vars == <<script, limit, rows, flows, done, alerts, log>>

Init == /\ script \in Scripts
        /\ limit \in IF script = "ton_iot" THEN Limits ELSE {0}
        /\ rows = 0 /\ flows = <<>>
        /\ done = FALSE
        /\ alerts = [d \in Hosts |-> {}] /\ log = <<>>
-----------------------------------------------------------------------------
(* int(t): the time in whole seconds. *)
Whole(t) == (t \div Second) * Second

(* A row without a time that parses is dated by the number of rows so far;
   the others keep the parts of the second. *)
ReadTonIot(r) ==
  /\ script = "ton_iot"
  /\ flows' = Append(flows, [r EXCEPT !.ts = IF r.timed THEN @ ELSE Len(flows) * Second])

(* No packet came back: the flow failed.  The time is cut to seconds. *)
ReadWustl(r) ==
  /\ script = "wustl_water"
  /\ flows' = Append(flows, [r EXCEPT !.ts = IF r.timed THEN Whole(@) ELSE Len(flows) * Second])

(* A row without a time is skipped. *)
ReadIot23(r) == /\ script = "iot23"
                /\ flows' = IF r.timed THEN Append(flows, r) ELSE flows

(* Only the time of day is kept, in seconds. *)
ReadCtu13(r) == /\ script = "ctu13"
                /\ flows' = Append(flows, [r EXCEPT !.ts = Whole(@ % (Day * Second))])

Read == /\ ~done /\ rows < MaxRows
        /\ \E r \in RowsOf[script] :
             ReadTonIot(r) \/ ReadWustl(r) \/ ReadIot23(r) \/ ReadCtu13(r)
        /\ rows' = rows + 1
        /\ UNCHANGED <<script, limit, done, alerts, log>>
-----------------------------------------------------------------------------
(* The flows of a host by their positions in the capture: what the report
   reads of them, and what the log of the TON_IoT capture takes, which knows
   no --max but skips the flows without a time. *)
Of(d)         == {i \in DOMAIN flows : flows[i].src = d /\ (limit = 0 \/ i <= limit)}
FailedOf(d)   == {i \in Of(d) : flows[i].failed}
TimedOf(d)    == {i \in DOMAIN flows : flows[i].src = d /\ flows[i].failed /\ flows[i].timed}
FailedDsts(d) == {flows[i].dst : i \in FailedOf(d)}
Times(d, x)   == {i \in Of(d) : flows[i].dst = x /\ (flows[i].timed \/ script # "ctu13")}
Count(S, x)   == Cardinality({i \in S : flows[i].dst = x})

(* sorted: the elements of S, each behind those that R, a set of pairs, puts
   before it. *)
Ranked(S, R) ==
  [k \in 1..Cardinality(S) |-> CHOOSE a \in S : Cardinality({b \in S : <<b, a>> \in R}) = k - 1]

(* The flows as ton_iot_monpoly.py dates them, by int(float(ts)). *)
Truncated == [i \in DOMAIN flows |-> [flows[i] EXCEPT !.ts = Whole(@)]]

(* In what follows c is the capture with the times a script gives it: flows,
   or Truncated. *)
InCapture(S) == {p \in S \X S : p[1] < p[2]}
ByTime(c, S) == {p \in S \X S : \/ c[p[1]].ts < c[p[2]].ts
                                \/ c[p[1]].ts = c[p[2]].ts /\ p[1] < p[2]}

(* The flows of S by time; which of two of the same time is first makes no
   difference to what follows. *)
Sorted(c, S) == LET order == Ranked(S, ByTime(c, S)) IN [k \in DOMAIN order |-> c[order[k]]]

\* Mutant of LeftOf: the loop drops an event that is W seconds old.
LeftOfStrict(ev, left, now, W) ==
  CHOOSE i \in left..Len(ev) :
    /\ now < ev[i].ts + W \/ now = ev[i].ts
    /\ \A j \in left..(i - 1) : now >= ev[j].ts + W

(* Where the left pointer stops when the right one is at time now. *)
LeftOf(ev, left, now, W) ==
  CHOOSE i \in left..Len(ev) : /\ now <= ev[i].ts + W
                               /\ \A j \in left..(i - 1) : now > ev[j].ts + W

(* The left pointer for every place of the right one, from the first on. *)
Lefts(ev, W) ==
  LET left[k \in 0..Len(ev)] ==
        IF k = 0 THEN 1 ELSE LeftOf(ev, left[k - 1], ev[k].ts, W)
  IN left

(* The counter of the destinations between the pointers: one more at the
   right, and one less for each event the left pointer passes. *)
Counters(ev, left) ==
  LET cnt[k \in 0..Len(ev)] ==
        IF k = 0 THEN [x \in Dsts |-> 0]
        ELSE [x \in Dsts |-> (IF x = ev[k].dst THEN cnt[k - 1][x] + 1 ELSE cnt[k - 1][x])
                              - Cardinality({j \in left[k - 1]..(left[k] - 1) : ev[j].dst = x})]
  IN cnt

(* scan_window: some place of the pointers has enough destinations. *)
ScanWindow(c, S, W, need) ==
  LET ev  == Sorted(c, S)
      cnt == Counters(ev, Lefts(ev, W))
  IN /\ Cardinality(S) >= need
     /\ \E k \in DOMAIN ev : Cardinality({x \in Dsts : cnt[k][x] > 0}) >= need

(* Two pointers over the flows to one destination. *)
FloodHit(d) ==
  \E x \in Dsts :
    LET ev   == Sorted(flows, Times(d, x))
        left == Lefts(ev, FloodW * Second)
    IN \E k \in DOMAIN ev : k - left[k] + 1 >= Flood

(* The first destination in the capture with the most flows of S. *)
Top(S) == LET most == {i \in S : \A j \in S : Count(S, flows[i].dst) >= Count(S, flows[j].dst)}
          IN flows[CHOOSE i \in most : \A j \in most : i <= j].dst

(* Many failed flows to few peers, at intervals whose coefficient of
   variation is below one half: sqrt(q/n - (p/n)^2) / (p/n) < 1/2. *)
Beaconing(d) ==
  LET failed == FailedOf(d) IN
  /\ failed # {} /\ Count(failed, Top(failed)) >= Beacon
  /\ Cardinality(FailedDsts(d)) < Fanout
  /\ LET t == Sorted(flows, Times(d, Top(failed)))
         n == Len(t) - 1
         gap(i) == t[i + 1].ts - t[i].ts
         p == MapThenSumSet(gap, 1..n)
         q == MapThenSumSet(LAMBDA i : gap(i) * gap(i), 1..n)
     IN n >= 2 /\ p > 0 /\ 4 * n * q < 5 * p * p

Raised(scan, flood, beacon) ==
  (IF scan THEN {"port_scan"} ELSE {}) \cup (IF flood THEN {"ddos_flood"} ELSE {})
    \cup (IF beacon THEN {"c2_beacon"} ELSE {})

(* A scan in the report: on the times it keeps. *)
Scans(d) == ScanWindow(flows, FailedOf(d), ScanW * Second, Fanout)

TonIotAlerts(d) == Raised(Scans(d), FloodHit(d), Beaconing(d))

WustlAlerts(d) == Raised(Scans(d), FloodHit(d), Beaconing(d))

(* The whole capture is the window of a scan. *)
Iot23Alerts(d) ==
  Raised(Cardinality(FailedDsts(d)) >= Fanout, FloodHit(d), Beaconing(d))

(* Failed or not, and without a look at the intervals. *)
Ctu13Alerts(d) ==
  LET fan == Cardinality({flows[i].dst : i \in Of(d)}) IN
  Raised(fan >= Fanout, FloodHit(d),
         /\ \E x \in Dsts : Count(Of(d), x) >= Beacon
         /\ fan < Fanout)

AlertsOf(d) == CASE script = "ton_iot"     -> TonIotAlerts(d)
                 [] script = "wustl_water" -> WustlAlerts(d)
                 [] script = "iot23"       -> Iot23Alerts(d)
                 [] script = "ctu13"       -> Ctu13Alerts(d)
-----------------------------------------------------------------------------
BucketOf(t) == (t \div Second) \div Bucket

(* One event of a host per bucket, the first of S in the order R. *)
Sampled(c, d, S, R) ==
  {[ts |-> c[i].ts, src |-> d] : i \in
     {k \in S : \A j \in S : <<j, k>> \in R => BucketOf(c[j].ts) # BucketOf(c[k].ts)}}

Earlier(E) == {p \in E \X E : \/ p[1].ts < p[2].ts
                              \/ p[1].ts = p[2].ts /\ p[1].src < p[2].src}

(* The log counts from its first event. *)
Rebased(S) == LET t0 == CHOOSE t \in {e.ts : e \in S} : \A e \in S : t <= e.ts
              IN {[e EXCEPT !.ts = @ - t0] : e \in S}

\* Mutant of LogOf: the events of one host after those of another.
LogOfUnsorted(S) ==
  LET E == Rebased(S) IN
  Ranked(E, {p \in E \X E : \/ p[1].src < p[2].src
                            \/ p[1].src = p[2].src /\ p[1].ts < p[2].ts})

(* The log is by time, and by host where two times are the same. *)
LogOf(S) == Ranked(Rebased(S), Earlier(Rebased(S)))

(* ton_iot_monpoly.py: it reads the capture on its own, keeps the failed
   flows that have a time, in whole seconds, and looks for scanners among
   them. *)
TonIotLog ==
  LogOf(UNION {Sampled(Truncated, d, TimedOf(d), InCapture(TimedOf(d))) :
                 d \in {h \in Hosts : ScanWindow(Truncated, TimedOf(h), ScanW * Second, Fanout)}})

(* The flows of a host, one destination after the other, the destinations as
   they came first. *)
ByDst(S) ==
  LET first(i) == CHOOSE k \in S : /\ flows[k].dst = flows[i].dst
                                   /\ \A j \in S : flows[j].dst = flows[i].dst => k <= j
  IN {p \in S \X S : \/ first(p[1]) < first(p[2])
                     \/ first(p[1]) = first(p[2]) /\ p[1] < p[2]}

(* Every host with an alert, by its failed flows, or by all it has. *)
WustlLog ==
  LogOf(UNION {IF FailedOf(d) # {} THEN Sampled(flows, d, FailedOf(d), InCapture(FailedOf(d)))
                                   ELSE Sampled(flows, d, Of(d), ByDst(Of(d))) :
                 d \in {h \in Hosts : WustlAlerts(h) # {}}})

\* Mutant of Iot23Log: every host with a failed flow.
Iot23LogFailed ==
  LogOf(UNION {Sampled(flows, d, FailedOf(d), InCapture(FailedOf(d))) : d \in Hosts})

(* The hosts with a scan, by their failed flows. *)
Iot23Log ==
  LogOf(UNION {Sampled(flows, d, FailedOf(d), InCapture(FailedOf(d))) :
                 d \in {h \in Hosts : "port_scan" \in Iot23Alerts(h)}})

(* main: after the last row the hosts are judged and the log is written. *)
Analyse == /\ ~done
           /\ done' = TRUE
           /\ alerts' = [d \in Hosts |-> AlertsOf(d)]
           /\ log' = CASE script = "ton_iot"     -> TonIotLog
                       [] script = "wustl_water" -> WustlLog
                       [] script = "iot23"       -> Iot23Log
                       [] script = "ctu13"       -> <<>>
           /\ UNCHANGED <<script, limit, rows, flows>>

End == done /\ UNCHANGED vars

Next == Read \/ Analyse \/ End
Spec == Init /\ [][Next]_vars
-----------------------------------------------------------------------------
(* MonPoly on a log: an event that goes back in time is dropped. *)
Taken(s) == {i \in DOMAIN s : \A j \in 1..(i - 1) : s[j].ts <= s[i].ts}

(* The events of the window that ends with event i. *)
Recent(s, i) == {k \in Taken(s) : k <= i /\ s[i].ts <= s[k].ts + Window * Second}

(* The formula holds at an event when enough hosts had one in the window. *)
Firings(s) ==
  {i \in Taken(s) : Cardinality({s[k].src : k \in Recent(s, i)}) >= MinScanners}

(* Of two elements of a set, one is the next after the other. *)
Follows(F, j, i) == j < i /\ \A k \in F : k <= j \/ i <= k

(* The seconds between two firings: episodes.py reads no parts of a second. *)
Gap(s, j, i) == s[i].ts \div Second - s[j].ts \div Second

\* Mutant of Starts: a gap of the window's length starts an episode.
StartsFromWindow(s) ==
  LET F == Firings(s) IN {i \in F : \A j \in F : Follows(F, j, i) => Gap(s, j, i) >= Window}

(* A firing starts an episode after a gap above the window. *)
Starts(s) ==
  LET F == Firings(s) IN {i \in F : \A j \in F : Follows(F, j, i) => Gap(s, j, i) > Window}

(* episodes: the runs of firings with no gap above the window. *)
Episodes(s) == Cardinality(Starts(s))
-----------------------------------------------------------------------------
InWindow(c, S, i, W) == {j \in S : c[i].ts <= c[j].ts /\ c[j].ts <= c[i].ts + W}

(* Some interval of length W holds enough destinations of the flows of S. *)
Fans(S, W) ==
  \E i \in S : Cardinality({flows[j].dst : j \in InWindow(flows, S, i, W)}) >= Fanout

(* The two pointers find a window whenever there is one: a host is alerted for
   a scan (ton_iot_rv.py:36-37) or a flood (iot23_flow_rv.py:12) if and only
   if some interval of the window's length holds enough of its flows. *)
WindowsExact ==
  done => \A d \in Hosts :
    /\ script \in {"ton_iot", "wustl_water"} =>
         ("port_scan" \in alerts[d]) <=> Fans(FailedOf(d), ScanW * Second)
    /\ ("ddos_flood" \in alerts[d]) <=>
         \E x \in Dsts : \E i \in Times(d, x) :
           Cardinality(InWindow(flows, Times(d, x), i, FloodW * Second)) >= Flood

(* What two samples in their buckets leave of the window: they are moved by
   whole seconds, those of the IoT-23 log by any time. *)
Room == IF script = "iot23" THEN Window * Second - 2 * (Bucket * Second - 1)
                            ELSE (Window - 2 * (Bucket - 1)) * Second

(* The sampled log keeps a campaign (ton_iot_monpoly.py:6-7) that leaves room
   for the sampling: when enough hosts of the log have failed flows within the
   window less what two samples may be moved, P3.2 fires on the log, for all
   that its times are cut to seconds. *)
SampledLogKeepsCampaign ==
  done /\ script # "ctu13" =>
    LET raw == {i \in DOMAIN flows : /\ flows[i].failed
                                     /\ flows[i].timed \/ script = "wustl_water"
                                     /\ \E k \in DOMAIN log : log[k].src = flows[i].src} IN
    (\E i \in raw :
       Cardinality({flows[j].src : j \in InWindow(flows, raw, i, Room)}) >= MinScanners)
      => Firings(log) # {}

(* The report and the log of the TON_IoT capture see a host alike when --max
   cuts nothing off and the host's times are whole seconds. *)
Alike(d) == limit = 0 /\ \A i \in TimedOf(d) : flows[i].ts = Whole(flows[i].ts)

(* A host scans for the log as well as for the report, or, where the two do
   not see it alike, within less than a second more than the window. *)
Scanned(d) ==
  \/ "port_scan" \in alerts[d]
  \/ script = "ton_iot" /\ ~Alike(d) /\ Fans(TimedOf(d), ScanW * Second + (Second - 1))

(* The report and MonPoly judge one capture with different windows
   (ton_iot_rv.py:201, iot23_flow_rv.py:171), and those of TON_IoT with
   different times and rows (ton_iot_monpoly.py:52, ton_iot_rv.py:104, 122).
   Where P3.2 fires on the log, there are still enough scanners: hosts the
   report counts, or, for TON_IoT only, hosts with parts of a second or rows
   behind --max that scan within less than a second more than the window. *)
FormalImpliesReported ==
  done /\ script \in {"ton_iot", "iot23"} /\ Firings(log) # {} =>
    Cardinality({d \in Hosts : Scanned(d)}) >= MinScanners

(* episodes.py:4-10: an episode is a campaign and not a tick of one: no two
   episodes share the events that make them fire. *)
EpisodesAreDistinct == Episodes(log) * MinScanners <= Len(log)
=============================================================================
