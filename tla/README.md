# The RV fabric in TLA+

This directory holds TLA+ models of the runtime-verification fabric of this
repository, the TLC configurations that check them, and TLAPS proofs of every
safety property the passing configurations check, for every value of the
constants.  Source paths are relative to `src/`.

## The system

Devices (`fabric/device_publisher.py`) publish events over MQTT (QoS 1) to a
**gateway** (`fabric/gateway.py`).  A gateway stamps each event with its own
clock, classifies it, counts classes in per-device sliding windows, and turns the
result into alert *verdicts*.  Each verdict gets an event id, goes through a
write-ahead **outbox** and is published to the JetStream stream `RVFABRIC`.  The
**backend** (`fabric/backend_l3.py`) reads that stream through durable consumers,
drops event ids it has seen, and feeds engines: MonPoly for P3.1-P3.4
(`fabric/correlator_monitor.py`, which is also a program of its own) and P3.6,
RTLola for P3.5, and a tick counter of its own for P3.7.  Beside them are
experiments that decide how much a verdict may be trusted (`fabric/exp_*.py`), and
scripts that replay recorded data (`realdata/`).

| Part | State | Operations | What makes it correct |
|---|---|---|---|
| Devices and detectors (`profile_step`, `l1_classify`, `L2Aggregator`) | three deques per device | publish, stamp, classify, slide a window | an alert counts enough events within its window; no event twice; no burst missed |
| Outbox (`DurableOutbox`) | WAL, cursor file, `confirmed` | append, fsync, publish, confirm, recover | an appended verdict is never lost, first copies stay in order |
| Gateway loop (`Gateway`) | event queue, sequence counters | queue, take, emit, stop | ids identify verdicts |
| Backend drains (`drain`, `_dup`, `to_monpoly`, `to_rtlola`, `main`) | durable cursors, `_seen`, one event loop | deliver, take, feed, ack, raise, close, restart | what is acknowledged was fed, once per run, to every engine alike |
| P3.1-P3.4 (`OnlineMonPolyMonitor`) and P3.6 (`CrossGatewayMonitor`) | MonPoly processes, queues, incident keys | feed, read, collect, close, shut down | incidents are real, one per window, missed only if MonPoly dropped an event or died |
| P3.5 (`OnlineRTLolaMonitor`) | two queues, `last_overflow_time`, `incidents_emitted`; three threads | feed, read, drain, dispatch, collect | no incident lost between threads, one per key, silence reported |
| P3.7 (`GatewaySilenceMonitor`, `gw_silence.py`) | tick counter, `last_seen`, `armed` | verdict, tick | a reported gateway was silent, once per silence; each silence is reported |
| Evidence tags (`has_gap`, `classify`, `observe_gap`) | bounded stream, durable cursor | publish, evict, fetch, classify | what the tag may conceal |
| Replay of recorded data (`realdata/*.py`) | the flows of a capture | read, scan, sample, write a log, count episodes | two-pointer windows are exact; the log keeps what it promises |

What is hard: the process or the machine may stop between any two steps of the
outbox; verdicts are delivered again; clocks of gateways differ and may be set
back; verdicts and ticks come through different subscriptions; three drains
share one event loop with calls that block it; three threads share the state of
P3.5; MonPoly drops what comes out of order; bounded streams evict.

## The modules

* `RelayLog` is what the outbox promises: verdicts are accepted into a log, and
  delivered in log order, each once in effect.
* `Outbox` models `DurableOutbox` one file-system or network step per action
  (`pc` names the next one).  The WAL is the sequence of lines a reader sees,
  `synced` the number of lines known to be on disk; `cursor` is what
  `_read_cursor` returns and `disk` what it may return after a power loss.  A stop
  is a kill (page cache survives), a failing publish, a power loss, or a power
  loss that cuts a WAL line.  A verdict is a number, so that order can be stated.
* `Relay` extends `Outbox` by the event queue, `run`, the event ids, and one
  consumer of the backend.  How an event becomes alerts is left open: any number
  up to `MaxAlerts`.
* `Detectors` models what `Relay` leaves open, from the profile of a device
  (`Generated`) to its alerts.  Deques hold indices into the log of handled events
  instead of timestamps, so that the properties can say which events an alert
  counted.  `MCDetectors` gives the events of a replayed trace.
* `Consumers` models `main` and the three drains on their event loop: a feed that
  waits for a pipe holds the loop (`LoopFree`), a message that does not decode ends
  the backend, an engine may stop to read.  `MCConsumers` lists the streams.
* `Correlator` models one MonPoly monitor (P3.1-P3.4 or P3.6) with its process,
  its host (the backend, or the standalone program with its grace period and
  shutdown), skewed gateway clocks, and late relays; MonPoly evaluates the formula
  of `monpoly_specs/` or `crossgw_specs/`.  The five engines share only their input
  (`_count_mono` included), so a behaviour follows one of them.
* `SilentNode` models P3.5 with the three threads and the engine as
  `rtlola_specs/silent_node.lola` defines it.  A critical section of the code is one
  action; where the code lets go of the lock, other threads get in between.
* `GatewaySilence` models P3.7 with its two subscriptions, its tick source and
  a wall clock only the properties and the environment look at; a third value of
  `tickSource` is `clockskew/gw_silence.py`, which reads its clock instead of ticks.
  Both durable subscriptions deliver again: verdicts (`Redeliver`) and ticks
  (`RedeliverTick`), which carry no id and are counted each time they come.
* `Evidence` models the stream with its discard policies, `has_gap`, `observe_gap`
  and `classify`, in the order in which `exp_completeness.py` calls them.
* `Flows` models the four scripts of `realdata/` from the rows they read to the
  alerts of each host and the log for P3.2, `ton_iot_monpoly.py`, and `episodes.py`.
  What a script keeps of a host is the set of positions its flows have in the
  capture (`FailedOf`, `Times`); a sort is the order of such a set (`Ranked`); and a loop
  is a function of the place it has reached: `Lefts` is where the left pointer of a
  window stops for each place of the right one, `Counters` what the `Counter` of
  `scan_window` holds there.  Times are numbers of parts of a second (`Second`), and
  each script keeps the parts or cuts them off on its own: `ton_iot_rv.py` and
  `iot23_flow_rv.py` keep them, the others and `episodes.py` do not (`Whole`,
  `Truncated`).  The two scripts of the TON_IoT capture read it on their own, and only
  the report stops after `--max` rows (`limit`); of the other scripts a `--max` is
  just a shorter capture.
* The modules named `...Proofs` hold the theorems below: `RelayProofs` those about
  `Outbox` and `Relay`, `SilenceProofs` those about `GatewaySilence`, the others those
  about the module they are named after.

Two halves of a component are modelled apart where their product is large and
they meet at a narrow interface: `Relay` and `Consumers` meet at the stream (a
message is delivered at least once, in any number of copies), `Consumers` and the
engines at the feed.  `Correlator` takes P3.1-P3.4's input from a queue per
gateway, which is what the stream is to the backend.

Definitions named as mutants in a comment are plausible bugs.  They are no
part of a specification; each property has been seen to fail with one of them.

## The runs

| Run | Question | Bounds |
|---|---|---|
| `Outbox` | What do kills, failing publishes, power losses and cut lines cost? Nothing that was appended, unless a line is cut, and then one verdict per cut line | 4 verdicts, 4 stops: a cut, the append glued to it, the stop that skips a line, and a recovery that is interrupted |
| `Relay_both` | What do stops of both sides do to what the engines are fed; does the outbox implement `RelayLog`, its liveness included? | 2 devices, 3 verdicts, 2 stops of the gateway, 1 of the backend |
| `Relay_swallowed` | Is an appended verdict ever dropped as a copy? Yes: finding | 1 device, 1 stop |
| `Detectors` | Are window alerts right, at every boundary and in every order? | a stealthy device beside one of each kind of program; 5 events, windows of 1 and 2 seconds, thresholds 2 and 3; one copy or one step back of the clock |
| `Consumers` | Is what a drain acknowledged fed, once per run, to all engines alike, and in the end? | streams of up to 3 messages, one delivery too many or one kill, P3.6 may stall |
| `Consumers_isolation` | Does an engine that stops to read leave the other drains alone? No: finding | the streams that decode, no other fault |
| `Correlator` | When is each of P3.1-P3.4 and P3.6 right, and when can it miss? | 2 devices, 2 gateways, 3 alerts in 4 seconds, windows of 2 and 3 seconds, skew 1, relays 1 second late, MonPoly may die |
| `Correlator_skew` | Does P3.6 tolerate a skew below its window? No: finding | 2 gateways, 2 alerts, skew 1, window 2, relays in time |
| `SilentNode` | Do the three threads of P3.5 lose or double an incident; is a silence reported? | 2 devices, 3 verdicts, 2 triggers per silence, the engine may die |
| `Silence` | Does P3.7 report silences only, and all of them? | T = 3, 8 seconds; 2 gateways on time or 1 a second late; every tick source; one second delivery of a verdict or a tick, or one restart |
| `Evidence` | Which losses can a tag conceal? | 2 devices, capacity 4, 5 ids, 2 ticks, batches of 2 |
| `Flows` | Are windows, logs, reports and episodes consistent? | every capture of up to 4 rows in half seconds, 2 hosts, 2 destinations, each script, the report on TON_IoT with and without `--max` |

Windows and thresholds are scaled down together: the code compares, adds and
subtracts them and does nothing else with them, and the bounds reach every
side of each comparison.  For the detectors five events are two more than the
largest threshold: enough for an alert, what it leaves behind, and one more
event.  P3.7 needs eight seconds for two incidents of one gateway at T = 3.  Two
gateways and three alerts reach every pair that an order violation concerns;
P3.2, which asks for three devices, and P3.4, which asks for five overflows, are
run with two.  Two batches and a rest are read at capacity 4.  Symmetry is used
where no definition tells the values apart: devices, gateways, destinations.
Hosts of `Flows` are ordered, because Python sorts by them.  Half seconds suffice
there: a script keeps the part of a second or drops it, and nothing rounds.

Why some runs start from fewer states than the specification: `MCSilence` lets
messages be late only while one gateway runs, and `MCDetectors` fixes one of the
two devices, which share no state.  `Consumers` does not check for deadlock: an
engine that stalls is one, and `Consumers_isolation` is about it.

## Findings

Three runs end in a violation on purpose; each is a disagreement between code
and text.

* `Relay_swallowed`: event ids restart at 0 with the gateway, so a verdict made
  after a restart can carry the id of an older one and be dropped, while
  `fabric/gateway.py:110` says only a crash before the append drops a verdict.
* `Consumers_isolation`: the drains share one event loop and a feed flushes into a
  pipe on it, so an engine that does not read stops all of them (P3.6's stderr
  pipe has no reader, for one); `fabric/backend_l3.py:4-6` says a slow MonPoly does
  not block RTLola.  `exp_isolation.py` measures feeds that await, and so never
  hold the loop.
* `Correlator_skew`: a skew below the window is said to be tolerated
  (`fabric/clockskew/EXPECTED.md:32`), but MonPoly drops an event that arrives with
  a timestamp below the newest, however small the difference.

Other disagreements have no run of their own.  They are what the models do, and
show as a condition of the property they limit, or are only noted here.

Gateway:
* `_persist_cursor` empties the cursor file before it writes it.  A kill in between
  makes recovery replay the whole WAL (`cursor > 0` in `RecoveryCost`), while
  `gateway.py:114` says confirmed entries are never replayed.
* A gateway that stops loses its queue (`GatewayStops`), more than the one verdict
  of `gateway.py:110-112`.
* A second delivery is counted by the windows (`DeliverAgain`), against
  `device_publisher.py:13-14`.  One that comes late is classified against the clock
  at its arrival and may be a `time_anomaly` (`Classify`).
* A clock that is set back lets a window count events wider apart than it is
  (`setBack` in `AlertsJustified`), against `gateway.py:42-43`.

Backend:
* A backend that restarts forgets `_seen`: `FedOncePerRun` is per run and `FedInOrder`
  about the first run, while `backend_l3.py:214-215` says replays never double-count.
* A line cut by a power loss is published as it stands by `recover`, does not decode
  in `drain`, ends the backend, and comes again after each restart (`Poisonous` in
  `EventuallyFed`).
* While `main` closes, the drain that did not fail acknowledges verdicts that no
  engine reads any more (`unfed` in `AckedWasFed`).
* A line of P3.1-P3.4 is reported when the next alert comes and not before
  (`Drained` in `NoIncidentMissed`); only the standalone program polls.
* `_count_mono` counts an arrival below the one before it, and not all that are
  below the newest: its count is a lower bound of what MonPoly drops.
  `MonoReportsRejections` says only that it is zero when nothing was dropped.

Engines:
* P3.3 fires when the attacks precede the safe transaction by up to 40 s
  (`Recent - Settled` in `EscalationIsReal`), against the header of `p3_3_escalation.mfotl`.
* P3.2's formula outputs a count and no devices, so `contributing_devices` of its
  incident is always empty.
* P3.4 counts timestamps, so overflows of one second count once.
* P3.5 watches a device only after a safe_tx (`Report`), against
  `silent_node.lola:13`; one incident stands for every silence after the same
  overflow, and a late dispatch may blame a later overflow.  A verdict of
  `SilentNode` has a time stamp of its own; in the code two overflows of a device in
  one second share a key (`correlator_monitor.py:160`), so the second silence has no
  incident.
* A MonPoly that died is not started again, and its monitor says nothing more
  (`NoIncidentMissed` is about one that lives).
* A copy of an old verdict re-arms P3.7 (`redelivered` in `OncePerEpisode`), against
  `backend_l3.py:171-172`; a restart forgets who was active (`restarts` in
  `SilenceIsReported`); with n gateways as tick source T ticks last T/n seconds.
* Ticks that wait in their subscription are counted at once when they come.  T + 1 of
  them that are drained right after a verdict report its gateway on the spot, and the
  gateway is then disarmed, so that its next silence goes unreported: P3.7 needs
  the delays and the second deliveries of ticks to stay below the threshold
  (`lag + extra[g] < T` in `SilenceIsReported`), which `backend_l3.py:164-172` does not
  say.
* A tick that is delivered twice is counted twice: its consumer is at-least-once, it
  has no id, and `on_tick` cannot tell (`backend_l3.py:194-197`).  Each such tick
  reports a gateway one tick too early, against `backend_l3.py:70-71` and the "replays
  never double-count" of 214-215 (`extra` in `SilenceIsReal`).  `extra` counts,
  for a gateway, the second deliveries that were pending when its last verdict was
  said or came after it: those that may age it.

Evidence and recorded data:
* A lost prefix is no gap (`OnlyPrefixUnflagged`), so a sound tag does not mean that
  every event is accounted for (`paper/paper.tex:509`); a fetch that times out
  with messages left makes gaps (`left = {}` in `GapIsReal`).
* The sampling to one event per host and 5 s can lose a firing near the window's
  edge (`Room` in `SampledLogKeepsCampaign`), against `ton_iot_monpoly.py:6-7`.
* `ton_iot_monpoly.py` says it writes the detections of the port_scan monitor (lines
  2 and 4-6), but looks for scanners itself, in times cut to whole seconds (line
  52).  One failed destination at 0.0 s and nineteen at 60.5 s are a scanner to it
  and none to the report, `ton_iot_rv.py`; three such hosts make P3.2 fire where the
  report counts no scanner (`Scanned` in `FormalImpliesReported`).  Rows behind
  `--max`, which only the report has, are another such case (`Alike`).  Rows without a
  time, which the report dates by their number and the log skips, are not: they only
  make the log smaller.
* `iot23_flow_rv.py` judges a scan over the whole capture (`Iot23Alerts`), not in the
  window its docstring names, and settles a tie of labels as malicious where it
  says majority.  It also writes fractional times in its log, where the signature
  has integers; the model dates an event by its time stamp.
* `ctu13_flow_rv.py:44` keeps the time of day only, so a capture over midnight is
  reordered (`ReadCtu13`).

## Fairness

* `Outbox`: weak fairness of the process's own steps, the start after a stop
  included: the event loop runs, the broker answers, and somebody restarts a
  gateway that stopped.  The compose file has no restart policy, so the last is an
  operator.  Submitting a verdict, faults and the end of the bound are not fair.
* `Relay`: the same of the gateway's loop and of the backend's.
* `Consumers`: JetStream delivers, the loop runs what is ready, and a stopped backend
  is started.  Nothing is assumed of an engine that stalled.
* `SilentNode`: the event loop (ticks come every second), the two threads, and each
  local clock.

The other specifications assume none and are checked for safety only; what they
say about reporting in time is an invariant with a clock (`SilenceIsReported`,
`NoIncidentMissed`).

MonPoly and RTLola are modelled by their formulas and by what the repository says
of them: MonPoly drops an event whose timestamp is below the newest
(`exp_oracle.py:243-251`) and evaluates each line when it has read it.  That a real
process may delay its last verdict until the next line is not modelled.

## What is proved

Every theorem holds for every value of the constants that the named assumptions
allow.  These are as weak as the code and the formulas are: counts,
delays and windows are natural numbers, thresholds and the windows the correlator
divides by are positive, `Gateways` of P3.7 is finite, and the three bounds of P3.3 are nested as in its formula (`Settled <= Recent`, the 10 and
50 of `p3_3_escalation.mfotl:23-25`, within `Window["P3.3"]`, its 60).

**Outbox** (`RelayProofs`, first part):

* `TypeCorrect`: `TypeOK`, with every set of faults.
* `CutLinesStay`: a cut line stays in the WAL (`TornInv`), so a behaviour whose WAL has
  no cut line never had one.  This is what lets the next results be about every set
  of faults, up to the first cut.
* `NothingPersistedIsLost` and `RecoveryIsComplete`: `Recoverable` and
  `ReadyMeansRelayed`, for every set of faults.
* `ReplayKeepsOrder`: `FirstCopiesInOrder`, for every set of faults.
* `OutboxImplementsRelayLog`: the specification implies the safety part of `RelayLog`
  if `Faults` is a subset of `{"kill", "fail"}` (a power loss takes back a line that
  was accepted and not yet synced).

The argument: no content that the cursor file has, or may come back with after
a power loss, skips a line of the WAL that is not in the stream (`CursorInv`), and a
verdict that passed step (1) is in the stream or on a synced line
(`PersistedInv`).  This is what makes an interrupted recovery or cursor rewrite
harmless; it is not visible in `Recoverable`, which is about the cursor of this
moment only.  `ControlInv` says what the process knows at each value of `pc`, and
`SafeInvariant` proves the conjunction inductive, one lemma per action.  For the
order, WAL lines are increasing, and a line that is not in the stream is newer
than the whole stream (`OrderInv`): a replay that starts too early repeats what
is there before it adds anything.

**What stops cost** (`RelayProofs`, second part): `RecoveryIsCheap` (`RecoveryCost`) and
`CutsBoundTheLosses` (`LossesAreTorn`), for every set of faults.  Once lines are cut the
cursor may skip lines and the invariants above are gone, so the second is an
amortized argument.  A verdict that passed step (1) is lost, or at risk: not in
the stream, and on no synced line that every cursor value the disk may come back
with leaves to be replayed.  `Debt` counts those, and one more while a cut line
has shifted the cursor and not cost anything yet.  A power loss that cuts a line
adds one to the debt and one to `Torn`; no other step adds to it (`DebtInvariant`).

**Gateway and backend** (`RelayProofs`, third part).  `RelayIsAnOutbox`: every step of `Relay` is a
step of `Outbox` or leaves it alone, so `OutboxHolds` and `RelayImplementsRelayLog`
follow from what is proved of the outbox.  On top of that:

* `AckedIsHandled` and `FedOnce` (`AckedWasHandled`, `FedOncePerRun`): the backend
  remembers the ids of what it fed in this run, and of nothing else, and what it
  worked off was fed or had an id seen before (`BackendInv`).
* `OnlyCopiesDropped` (`NoneSwallowedUntilRestart`): until the gateway stops, its
  counters are ahead of every id they gave (`IdsInv`).  With the finding
  `Relay_swallowed` this says exactly when verdicts are swallowed.
* `FeedsInOrder` (`FedInOrder`): in its first run the backend has seen all it worked
  off, so that what it feeds is a first copy (`FirstRunInv`); those are in order.

**Drains** (`ConsumersProofs`), for every stream of messages, any number of second
deliveries and kills, and whichever engines stall: `EachOncePerRun` (`OncePerRun`),
`EnginesInStep` (`EnginesAgree`) and `AckedIsFed` (`AckedWasFed`).  One feed at a time holds
the loop (`LoopInv`); what was seen is handled or in hand (`HandledInv`); an engine was
given only what its drain saw, and not yet what is still to be written to it
(`FedInv`); P3.6 is ahead of P3.1-P3.4 by the verdict in hand or not at all
(`AgreeInv`).

**Detectors** (`DetectorsProofs`): `AlertsAreJustified`, `EventsCountOnce` and
`BurstsAreReported` (`AlertsJustified`, `CountedOnce`, `NoBurstMissed`).  The invariant
(`DequeInv`): a deque holds, in their order, events of its kind that no alert
counted, and as long as the clock was not set back every such event that is not
too old for the next one.  What pruning leaves of a deque is defined by the least
index that is young enough, so the lemmas rest on well-founded induction over a
set, not on recursion.  It follows that a burst would have to lie in a deque that
is shorter than the threshold.

**P3.7** (`SilenceProofs`): `ReportedWereSilent` (`SilenceIsReal`), `SilencesAreReported`
(`SilenceIsReported`) and the action property `OneIncidentPerSilence`
(`OncePerEpisode`).  The monitor counts ticks and the properties are about seconds, so
the invariant relates the two: a pending message is no older than the lag, and no
more ticks are pending than the seconds allow (`PendInv`); the age of an armed
gateway plus the ticks that wait is at most what the seconds since its last
verdict and the lag account for, plus one for each second delivery of a tick that may
age it (`AgeInv`), among which are all that wait (`AgainInv`); a gateway not yet
reported since its last verdict is still to be heard, or armed no later than that
verdict and its delay explain (`DueInv`).  The proof of `SilenceIsReported` found its
condition `lag + extra[g] < T`.  All of it is for any number of second deliveries of
ticks.

**Correlator** (`CorrelatorProofs`), for every engine, host, window, skew and delay:

* `OneIncidentPerWindow` (`OncePerWindow`): the keys remembered are those of the
  incidents, no more and no less (`KeyInv`): an incident outside them could be
  repeated.  It needs neither types nor what MonPoly writes, so it holds of any
  engine behind the same bookkeeping.
* `TypeCorrect` (`TypeOK`) and `MonoIsHonest` (`MonoReportsRejections`): an alert waits
  once, in the relay of its gateway (`RelayInv`), which also bounds what
  `_count_mono` counts; and MonPoly's newest timestamp is not above the last one
  counted while nothing was counted (`MonoInv`).
* `IncidentsAreReal` (`IncidentIsReal`): a line is real for each of its subjects when
  MonPoly writes it (`RealInv`), one lemma per formula; alerts are only added, so it
  stays real on its way through the reader, the queue and the collection.
* `NoneMissed` (`NoIncidentMissed`): while MonPoly lives and dropped nothing it has every
  alert that does not wait (`FedInv`), and what a formula satisfies at an event has
  its incident or a line on its way (`FoundInv`).  An event that arrives in order
  changes nothing about an earlier timestamp, which is why an order violation is
  the only way to miss an incident.

**Evidence** (`EvidenceProofs`), for every capacity, watermark and batch: `GapsAreReal`,
`HolesAreFlagged`, `OnlyPrefixesAreUnflagged` and `EvictionIsFlagged`.  The invariant is a
ledger (`StoreInv`): an id that was issued is in the stream, once, or lost, and never
both, and a stream that evicted is full; and what was delivered and what is left
are the ids of the stream (`ReadInv`).

**P3.5** (`SilentNodeProofs`), for any set of devices and any bounds:
`EachKeyHasItsIncident` (`NoIncidentLost`).  A key that was used stands for one incident
that is built, pending or emitted, in exactly one of the three, and no incident that
blames an overflow is there without its key (`WayInv`).  The steps that move
incidents on join sequences (`ConcatKeys`).  `_drain_violations` is the one step
that works off a queue of any length: `Drained` is a recursive function over it,
`RecursionExists` shows that there is such a function, by the least place where there would be
none, and `DrainedIsDraining` carries what `BuildStep` says of one violation to its end.

**Replay of recorded data** (`FlowsProofs`), for every script, capture, window,
threshold and bucket, any part of a second and any `--max`, and any number of hosts
and destinations:

* `WindowsAreExact` (`WindowsExact`): a host is alerted for a scan or a flood if and
  only if the capture has a window of enough flows.  The left pointer is, at each
  place of the right one, the first event within the window (`PointersExact`), since it
  never has to go back on a sorted list (`RankedLists`, `PointersInOrder`).  The counter
  of `scan_window` is then the number of flows between the pointers to each
  destination (`CountersExact`): what is decremented was counted.  Every window of
  the capture lies between the pointers at some place, and what lies between them is
  within one (`SpansAreWindows`).
* `SampledLogIsSound` (`SampledLogKeepsCampaign`): the first flow of a host in a bucket is
  less than a bucket from every other one (`SampledKeeps`), so the samples of flows
  within `Window - 2 * (Bucket - 1)` are within `Window`; the last of them is where the
  formula fires (`CampaignFires`), as the log is sorted and drops nothing (`LogOfLists`).
  Where the log is in whole seconds, a sample is moved by whole seconds only
  (`SecondsApart`), which is what `Room` counts on.
* `ReportAgreesWithFormal` (`FormalImpliesReported`): every host in a log is one the
  report counts.  For TON_IoT this is not plain, as the log comes from another
  script.  Where the two see a host alike, the log skips rows without a time, so it
  sees fewer windows and never one more (`FansMore`).  Where they do not, a window in
  whole seconds is one of less than a second more in the times of the capture
  (`TruncatedScans`), and the theorem says this of each such host.
* `EpisodesAreApart` (`EpisodesAreDistinct`): the windows at two starts of episodes have no
  event in common (`StartsApart`), so the number of episodes is bounded by induction
  over the log, start by start (`EpisodesOfAnyLog`).

These are facts about one step, `Analyse`, that hold of every capture; the
invariant is the three properties with the types (`JudgedAlways`).  `Lefts`, `Counters` and
`Drained` are recursive functions and no `RECURSIVE` operators, and an induction over
the places of a list is one over a set of numbers without a least exception
(`Upwards`): neither needs a theorem that takes an operator.

**Only model-checked:** liveness, which is under fairness and out of the prover's reach:
`EventuallyHandled`, `EventuallyFed`, `SilenceAfterOverflowReported`, and the liveness part
of the refinement of `RelayLog`.  The three runs that end in a violation check what the
code does not keep, and need no proof.  TLC has checked the inductive invariants
of the proofs on the runs before they were proved.

## Not modelled

* Text: the lines the engines write and their parsing, incident texts, reports.
* Connecting, creating streams and subscriptions, and what the MQTT client does when
  the broker comes back: library code.
* The TeSSLa monitor of `correlator_monitor.py`: its calls in `main` are commented
  out, and the specification it would load is not in the repository.
* `exp_oracle.py` beyond `observe_gap` and the order rule: one fixed workload with
  fixed faults, scored against constants.
* In `realdata/`: the labels, the assignment of hosts to gateways and the P3.6 logs,
  which the P3.2 logs repeat with another key.
* Benchmarks, experiment drivers and measurements of clock offsets: timing and
  printing.  `Correlator` takes the offset as a constant.
* Deployment files and the paper.
