------------------------------- MODULE Outbox -------------------------------
(***************************************************************************)
(* The write-ahead outbox of a gateway (class DurableOutbox of gateway.py):*)
(* the WAL file, the cursor file, the JetStream stream it publishes to,    *)
(* and the process that runs append_and_publish and, after a restart,      *)
(* recover.  A verdict is a positive number, in the order the gateway      *)
(* hands verdicts over; a WAL line that no longer decodes is Garbage.      *)
(***************************************************************************)
EXTENDS Naturals, Sequences, FiniteSets

CONSTANTS MaxVerdicts,  \* bound: verdicts handed to the outbox
          MaxStops,     \* bound: times the process or the machine stops
          Faults        \* how the outbox may stop, a subset of AllFaults

AllFaults == {"kill",   \* the process dies, the page cache survives
              "fail",   \* js.publish raises and run() ends
              "power",  \* the machine dies: what was not fsync'd may be lost
              "torn"}   \* as "power", with a WAL line cut in the middle

ASSUME OutboxAssumption == /\ MaxVerdicts \in Nat
                           /\ MaxStops \in Nat
                           /\ Faults \subseteq AllFaults

VARIABLES
  pc,         \* the next step of the process, or "down"
  confirmed,  \* DurableOutbox.confirmed
  line,       \* recover: the line of the WAL to publish next
  wal,        \* the WAL file as a reader sees it, one entry per line
  synced,     \* number of WAL lines known to survive a power loss
  tail,       \* how the last WAL line ends: "newline", or "cut" without one
  cursor,     \* what _read_cursor would return
  disk,       \* the values _read_cursor may return after a power loss
  stream,     \* the verdicts stored by JetStream
  made,       \* verdicts handed over so far; the last one is in flight
  persisted,  \* history: verdicts whose step (1), append and fsync, returned
  stops       \* bound: stops so far

memory == <<confirmed, line>>
files  == <<wal, synced, tail, cursor, disk>>
vars   == <<pc, memory, files, stream, made, persisted, stops>>

Garbage == 0
Lines   == 1..MaxVerdicts \cup {Garbage}
Stored  == {stream[i] : i \in DOMAIN stream}

Init == /\ pc = "down"
        /\ confirmed = 0 /\ line = 1
        /\ wal = <<>> /\ synced = 0 /\ tail = "newline"
        /\ cursor = 0 /\ disk = {0}
        /\ stream = <<>> /\ made = 0
        /\ persisted = {}
        /\ stops = 0
-----------------------------------------------------------------------------
\* Mutant of Start: lines[confirmed - 1:], the slice is off by one.
StartOffByOne == /\ pc = "down"
                 /\ pc' = "replay"
                 /\ confirmed' = cursor
                 /\ line' = cursor
                 /\ UNCHANGED <<files, stream, made, persisted, stops>>

(* recover: read the cursor and the lines of the WAL. *)
Start == /\ pc = "down"
         /\ pc' = "replay"
         /\ confirmed' = cursor
         /\ line' = cursor + 1
         /\ UNCHANGED <<files, stream, made, persisted, stops>>

(* recover: publish the next line beyond the cursor. *)
Replay == /\ pc = "replay" /\ line <= Len(wal)
          /\ stream' = Append(stream, wal[line])
          /\ line' = line + 1
          /\ UNCHANGED <<pc, confirmed, files, made, persisted, stops>>

\* Mutant of EndReplay: the publishes are not awaited.
EndReplayUnawaited == /\ pc = "replay"
                      /\ confirmed' = Len(wal)
                      /\ pc' = "truncate"
                      /\ UNCHANGED <<line, files, stream, made, persisted, stops>>

\* Mutant of EndReplay: the replayed lines are not counted.
EndReplayUncounted == /\ pc = "replay" /\ line > Len(wal)
                      /\ pc' = "truncate"
                      /\ UNCHANGED <<memory, files, stream, made, persisted, stops>>

(* recover: every line is published, so all of them count as confirmed.
   Without a WAL file recover returns at once; no cursor file exists then
   either, and writing 0 to it changes nothing. *)
EndReplay == /\ pc = "replay" /\ line > Len(wal)
             /\ confirmed' = Len(wal)
             /\ pc' = "truncate"
             /\ UNCHANGED <<line, files, stream, made, persisted, stops>>

(* append_and_publish is called with the next verdict. *)
Submit == /\ pc = "idle" /\ made < MaxVerdicts
          /\ made' = made + 1
          /\ pc' = "append"
          /\ UNCHANGED <<memory, files, stream, persisted, stops>>

(* Step (1), write and flush.  A line cut by a power loss has no newline, so
   the new line is glued to it and neither decodes. *)
AppendLine == /\ pc = "append"
              /\ wal' = IF tail = "cut" THEN [wal EXCEPT ![Len(wal)] = Garbage]
                                         ELSE Append(wal, made)
              /\ tail' = "newline"
              /\ pc' = "sync"
              /\ UNCHANGED <<memory, synced, cursor, disk, stream, made, persisted, stops>>

\* Mutant of SyncWal: flush without os.fsync.
SyncWalFlushOnly == /\ pc = "sync"
                    /\ persisted' = persisted \cup {made}
                    /\ pc' = "publish"
                    /\ UNCHANGED <<memory, files, stream, made, stops>>

(* Step (1), fsync. *)
SyncWal == /\ pc = "sync"
           /\ synced' = Len(wal)
           /\ persisted' = persisted \cup {made}
           /\ pc' = "publish"
           /\ UNCHANGED <<memory, wal, tail, cursor, disk, stream, made, stops>>

\* Mutant of Publish: the acknowledgement is not awaited.
PublishUnawaited == /\ pc = "publish"
                    /\ stream' \in {stream, Append(stream, made)}
                    /\ pc' = "acked"
                    /\ UNCHANGED <<memory, files, made, persisted, stops>>

(* Step (2): JetStream stores the verdict. *)
Publish == /\ pc = "publish"
           /\ stream' = Append(stream, made)
           /\ pc' = "acked"
           /\ UNCHANGED <<memory, files, made, persisted, stops>>

(* Step (3): the acknowledgement arrives and the verdict is confirmed. *)
Confirm == /\ pc = "acked"
           /\ confirmed' = confirmed + 1
           /\ pc' = "truncate"
           /\ UNCHANGED <<line, files, stream, made, persisted, stops>>

(* _persist_cursor: open(cursor_path, "w") empties the file, and
   _read_cursor returns 0 for an empty file. *)
TruncateCursor == /\ pc = "truncate"
                  /\ cursor' = 0
                  /\ disk' = disk \cup {0}
                  /\ pc' = "write"
                  /\ UNCHANGED <<memory, wal, synced, tail, stream, made, persisted, stops>>

(* _persist_cursor: write and flush. *)
WriteCursor == /\ pc = "write"
               /\ cursor' = confirmed
               /\ disk' = disk \cup {confirmed}
               /\ pc' = "fsync"
               /\ UNCHANGED <<memory, wal, synced, tail, stream, made, persisted, stops>>

(* _persist_cursor: fsync.  The outbox is ready for a verdict. *)
SyncCursor == /\ pc = "fsync"
              /\ disk' = {confirmed}
              /\ pc' = "idle"
              /\ UNCHANGED <<memory, wal, synced, tail, cursor, stream, made, persisted, stops>>
-----------------------------------------------------------------------------
Stop == /\ stops < MaxStops
        /\ stops' = stops + 1
        /\ pc' = "down"
        /\ UNCHANGED <<memory, made, persisted>>

(* The process is killed (SIGKILL, os._exit in _maybe_crash) at any point. *)
Kill == /\ "kill" \in Faults
        /\ pc # "down"
        /\ Stop
        /\ UNCHANGED <<files, stream>>

(* js.publish raises: the verdict may be stored or not, no acknowledgement
   came back in time, and nothing catches the exception. *)
PublishFails == /\ "fail" \in Faults
                /\ \/ pc = "publish" /\ stream' \in {stream, Append(stream, made)}
                   \/ pc = "replay" /\ line <= Len(wal)
                      /\ stream' \in {stream, Append(stream, wal[line])}
                /\ Stop
                /\ UNCHANGED files

(* The machine loses power: of the lines that were not fsync'd a prefix
   survives, and of the cursor file one of the contents it had since its last
   fsync. *)
PowerLoss == /\ "power" \in Faults
             /\ \E n \in synced..Len(wal) :
                  /\ wal' = SubSeq(wal, 1, n)
                  /\ synced' = n
                  /\ tail' = IF n = Len(wal) THEN tail ELSE "newline"
             /\ cursor' \in disk
             /\ disk' = {cursor'}
             /\ Stop
             /\ UNCHANGED stream

(* The machine loses power in the middle of writing a WAL line. *)
TornWrite == /\ "torn" \in Faults
             /\ pc = "sync"
             /\ synced < Len(wal)
             /\ wal' = [wal EXCEPT ![Len(wal)] = Garbage]
             /\ synced' = Len(wal)
             /\ tail' = "cut"
             /\ cursor' \in disk
             /\ disk' = {cursor'}
             /\ Stop
             /\ UNCHANGED stream

Step == \/ Start \/ Replay \/ EndReplay
        \/ AppendLine \/ SyncWal \/ Publish \/ Confirm
        \/ TruncateCursor \/ WriteCursor \/ SyncCursor

(* The bound is reached: no further verdict comes. *)
Quiet == pc = "idle" /\ made = MaxVerdicts /\ UNCHANGED vars

Next == Step \/ Submit \/ Kill \/ PublishFails \/ PowerLoss \/ TornWrite \/ Quiet

(* A started process keeps running, and an operator restarts a stopped
   gateway: the compose file has no restart policy. *)
Safety == Init /\ [][Next]_vars
Spec   == Safety /\ WF_vars(Step)
-----------------------------------------------------------------------------
TypeOK == /\ pc \in {"down", "replay", "idle", "append", "sync", "publish",
                     "acked", "truncate", "write", "fsync"}
          /\ confirmed \in Nat /\ line \in Nat \ {0}
          /\ wal \in Seq(Lines) /\ synced \in 0..Len(wal) /\ tail \in {"newline", "cut"}
          /\ tail = "cut" => wal # <<>>
          /\ cursor \in Nat /\ disk \subseteq Nat
          /\ stream \in Seq(Lines)
          /\ made \in 0..MaxVerdicts
          /\ persisted \subseteq Lines
          /\ stops \in 0..MaxStops

(* The lines a restart at this moment would replay. *)
Unconfirmed == {wal[i] : i \in (cursor + 1)..Len(wal)}

(* Lines a power loss cut in the middle, alone or glued to the next line. *)
Torn == {i \in DOMAIN wal : wal[i] = Garbage}

(* A verdict that passed step (1) is never lost: at every moment, in the
   middle of a rewrite of the cursor or of another recovery too, it is in the
   stream or among the lines the next recovery replays
   (gateway.py:103-112), unless a power loss cut a line. *)
Recoverable == Torn = {} => persisted \subseteq Stored \cup Unconfirmed

(* Once the outbox is ready again, every verdict that passed step (1) before
   is in the stream: recovery skipped none. *)
ReadyMeansRelayed == Torn = {} /\ pc = "idle" => persisted \subseteq Stored

(* Whatever stops the outbox, a verdict that passed step (1) is lost only
   where a power loss cut a WAL line, one verdict for each such line: the cut
   shifts the cursor against the lines until the next recovery. *)
LossesAreTorn ==
  Cardinality(persisted \ (Stored \cup Unconfirmed)) <= Cardinality(Torn)

FirstCopy(i) == \A k \in 1..(i - 1) : stream[k] # stream[i]

InOrder == \A i, j \in DOMAIN stream :
             i < j /\ FirstCopy(i) /\ FirstCopy(j) => stream[i] < stream[j]

(* However often lines are replayed, the first copies of the verdicts reach
   the stream in the order the gateway made them: a consumer that drops
   copies sees one ordered history. *)
FirstCopiesInOrder == Torn = {} => InOrder

(* Recovery replays one line at most, unless the stop hit the rewrite of the
   cursor and left it empty ("The cursor also bounds recovery cost",
   gateway.py:114), or a power loss cut a line. *)
RecoveryCost == Torn = {} /\ cursor > 0 => Len(wal) <= cursor + 1

(* The outbox implements the relay log: the lines a reader of the WAL sees
   are the log, and the stream without copies is what is delivered. *)
Promise == INSTANCE RelayLog WITH Verdict   <- 1..MaxVerdicts,
                                  log       <- wal,
                                  delivered <- Stored
ImplementsRelayLog == Promise!LogSpec
=============================================================================
