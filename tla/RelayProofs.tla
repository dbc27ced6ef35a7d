----------------------------- MODULE RelayProofs -----------------------------
(***************************************************************************)
(* Proofs about Outbox and Relay, for every number of verdicts, devices,   *)
(* events and stops, and every set of faults.  Three parts:                *)
(*                                                                         *)
(* What the outbox guarantees.  The invariant behind the safety results    *)
(* holds until a power loss cuts a WAL line; TornInv says that a cut line  *)
(* stays, so the outbox cannot return to a state that looks as if none had *)
(* been cut.                                                               *)
(*                                                                         *)
(* What the outbox pays for its stops: RecoveryCost, how many lines a      *)
(* recovery replays, and LossesAreTorn, which bounds the verdicts lost by  *)
(* the WAL lines that power losses cut.  The second is an amortized        *)
(* argument: a cut line that has not cost a verdict yet is a debt.         *)
(*                                                                         *)
(* What the engines of the backend are fed.  Every step of the relay is a  *)
(* step of the outbox or none, so the first part holds here; its own       *)
(* invariants relate the stream to the backend's memory.                   *)
(***************************************************************************)
EXTENDS Relay, FiniteSetTheorems, SequenceTheorems, TLAPS

-----------------------------------------------------------------------------
(* The durable outbox. *)
-----------------------------------------------------------------------------
(* A cut line is on disk for good. *)
TornInv == /\ pc = "append" => made > 0
           /\ Torn \subseteq 1..synced
           /\ tail = "cut" => Len(wal) \in Torn

(* The first n lines of the WAL are in the stream. *)
Held(n) == \A i \in 1..Len(wal) : i <= n => wal[i] \in Stored

(* What the process knows at each of its steps. *)
ControlInv ==
  /\ pc \in {"idle", "append"} =>
       disk = {cursor} /\ cursor = Len(wal) /\ confirmed = Len(wal)
  /\ pc \in {"sync", "publish", "acked"} =>
       /\ disk = {cursor} /\ cursor = confirmed
       /\ Len(wal) = confirmed + 1 /\ wal[Len(wal)] = made
  /\ pc \in {"publish", "acked"} => synced = Len(wal)
  /\ pc \in {"truncate", "write", "fsync"} => confirmed = Len(wal)
  /\ pc = "fsync" => cursor = confirmed
  /\ pc = "replay" => Held(line - 1)
  /\ pc \in {"idle", "append", "acked", "truncate", "write", "fsync"} => Held(Len(wal))

(* No content the cursor file may have, now or after a power loss, skips a
   line that is not in the stream. *)
CursorInv == tail = "newline" /\ \A d \in disk \cup {cursor} : Held(d)

(* A verdict that passed step (1) is in the stream or on a synced line. *)
PersistedInv == \A v \in persisted :
                  v \in Stored \/ \E i \in 1..synced : wal[i] = v

(* WAL lines are in the order the verdicts were made. *)
WalOrdered ==
  /\ \A i \in 1..Len(wal) : wal[i] <= made
  /\ \A i, j \in 1..Len(wal) : i < j => wal[i] < wal[j]
  /\ pc = "append" => made > 0 /\ \A i \in 1..Len(wal) : wal[i] < made

(* A line that is not in the stream yet is newer than the whole stream. *)
StreamOrdered ==
  /\ \A s \in Stored : s <= made
  /\ pc = "append" => \A s \in Stored : s < made
  /\ \A i \in 1..Len(wal) : wal[i] \notin Stored => \A s \in Stored : s < wal[i]

SafeInv  == TypeOK /\ ControlInv /\ CursorInv /\ PersistedInv
OrderInv == WalOrdered /\ StreamOrdered /\ InOrder
-----------------------------------------------------------------------------
(* A WAL line holds Garbage, which is 0, or a verdict. *)
LEMMA LinesAre == Lines = 0..MaxVerdicts
  BY OutboxAssumption DEF Lines, Garbage

(* Every step keeps the types of the outbox's variables. *)
LEMMA TypeInvariant == Safety => []TypeOK
<1>1. Init => TypeOK
  <2> SUFFICES ASSUME Init PROVE TypeOK
    OBVIOUS
  <2>1. wal \in Seq(Lines) /\ stream \in Seq(Lines)
    BY DEF Init
  <2>2. synced \in 0..Len(wal) /\ tail \in {"newline", "cut"} /\ (tail = "cut" => wal # <<>>)
    BY DEF Init
  <2>3. cursor \in Nat /\ disk \subseteq Nat /\ confirmed \in Nat /\ line \in Nat \ {0}
    BY DEF Init
  <2>4. made \in 0..MaxVerdicts /\ persisted \subseteq Lines /\ stops \in 0..MaxStops
    BY OutboxAssumption DEF Init
  <2>5. QED
    BY <2>1, <2>2, <2>3, <2>4 DEF Init, TypeOK
<1>2. TypeOK /\ [Next]_vars => TypeOK'
  <2> SUFFICES ASSUME TypeOK, [Next]_vars
               PROVE  TypeOK'
    OBVIOUS
  <2> USE OutboxAssumption, LinesAre DEF TypeOK, memory, files
  <2>1. CASE Start
    BY <2>1 DEF Start
  <2>2. CASE Replay
    BY <2>2 DEF Replay
  <2>3. CASE EndReplay
    BY <2>3 DEF EndReplay
  <2>4. CASE AppendLine
    <3> DEFINE glued == [wal EXCEPT ![Len(wal)] = Garbage]
    <3>1. wal' = IF tail = "cut" THEN glued ELSE Append(wal, made)
      BY <2>4 DEF AppendLine
    <3>2. ASSUME tail = "cut" PROVE glued \in Seq(Lines) /\ Len(glued) = Len(wal)
      <4>1. Len(wal) \in 1..Len(wal) /\ Garbage \in Lines
        BY <3>2 DEF Garbage
      <4>2. QED
        BY <4>1, ExceptSeq
    <3>3. Append(wal, made) \in Seq(Lines) /\ Len(Append(wal, made)) = Len(wal) + 1
      OBVIOUS
    <3>4. wal' \in Seq(Lines) /\ Len(wal') >= Len(wal)
      <4>1. CASE tail = "cut"
        <5>1. wal' = glued
          BY <3>1, <4>1
        <5>2. QED
          BY <5>1, <3>2, <4>1
      <4>2. CASE tail # "cut"
        <5>1. wal' = Append(wal, made)
          BY <3>1, <4>2
        <5>2. QED
          BY <5>1, <3>3
      <4>3. QED
        BY <4>1, <4>2
    <3>5. /\ pc' = "sync" /\ tail' = "newline"
          /\ UNCHANGED <<memory, synced, cursor, disk, stream, made, persisted, stops>>
      BY <2>4 DEF AppendLine
    <3>6. QED
      BY <3>4, <3>5
  <2>5. CASE SyncWal
    BY <2>5 DEF SyncWal
  <2>6. CASE Publish
    BY <2>6 DEF Publish
  <2>7. CASE Confirm
    BY <2>7 DEF Confirm
  <2>8. CASE TruncateCursor
    BY <2>8 DEF TruncateCursor
  <2>9. CASE WriteCursor
    BY <2>9 DEF WriteCursor
  <2>10. CASE SyncCursor
    BY <2>10 DEF SyncCursor
  <2>11. CASE Submit
    BY <2>11 DEF Submit
  <2>12. CASE Kill
    BY <2>12 DEF Kill, Stop
  <2>13. CASE PublishFails
    <3>1. ASSUME NEW v \in Lines, stream' = Append(stream, v)
          PROVE  stream' \in Seq(Lines)
      BY <3>1
    <3>2. pc = "replay" /\ line <= Len(wal) => wal[line] \in Lines
      OBVIOUS
    <3>3. stream' \in Seq(Lines)
      <4>1. \/ stream' = stream
            \/ stream' = Append(stream, made)
            \/ pc = "replay" /\ line <= Len(wal) /\ stream' = Append(stream, wal[line])
        BY <2>13 DEF PublishFails
      <4>2. made \in Lines
        OBVIOUS
      <4>3. QED
        BY <3>1, <3>2, <4>1, <4>2
    <3>4. /\ UNCHANGED <<memory, files, made, persisted>>
          /\ pc' = "down" /\ stops < MaxStops /\ stops' = stops + 1
      BY <2>13 DEF PublishFails, Stop
    <3>5. QED
      BY <3>3, <3>4
  <2>14. CASE PowerLoss
    <3>1. PICK n \in synced..Len(wal) :
             /\ wal' = SubSeq(wal, 1, n)
             /\ synced' = n
             /\ tail' = IF n = Len(wal) THEN tail ELSE "newline"
      BY <2>14 DEF PowerLoss
    <3>2. wal' \in Seq(Lines) /\ Len(wal') = n
      BY <3>1
    <3>3. /\ synced' \in 0..Len(wal') /\ tail' \in {"newline", "cut"}
          /\ tail' = "cut" => wal' # <<>>
      BY <3>1, <3>2
    <3>4. cursor' \in Nat /\ disk' \subseteq Nat
      BY <2>14 DEF PowerLoss
    <3>5. /\ UNCHANGED <<confirmed, line, stream, made, persisted>>
          /\ pc' = "down" /\ stops < MaxStops /\ stops' = stops + 1
      BY <2>14 DEF PowerLoss, Stop
    <3>6. QED
      BY <3>2, <3>3, <3>4, <3>5
  <2>15. CASE TornWrite
    <3>1. Len(wal) \in 1..Len(wal) /\ Garbage \in Lines
      BY <2>15 DEF TornWrite, Garbage
    <3>2. wal' \in Seq(Lines) /\ Len(wal') = Len(wal)
      BY <2>15, <3>1, ExceptSeq DEF TornWrite
    <3>3. QED
      BY <2>15, <3>1, <3>2 DEF TornWrite, Stop
  <2>16. CASE UNCHANGED vars
    BY <2>16 DEF vars
  <2>17. QED
    BY <2>1, <2>2, <2>3, <2>4, <2>5, <2>6, <2>7, <2>8, <2>9, <2>10, <2>11,
       <2>12, <2>13, <2>14, <2>15, <2>16 DEF Next, Step, Quiet
<1>3. QED
  BY <1>1, <1>2, PTL DEF Safety

(* The outbox's variables keep their types, whatever stops it. *)
THEOREM TypeCorrect == Spec => []TypeOK
BY TypeInvariant, PTL DEF Spec
-----------------------------------------------------------------------------
(* A cut leaves an unreadable line, and everything before it on disk. *)
LEMMA TornCuts ==
  ASSUME TypeOK, TornWrite
  PROVE  TornInv' /\ Torn' # {}
<1> USE DEF TypeOK
<1>1. /\ wal' = [wal EXCEPT ![Len(wal)] = Garbage] /\ synced' = Len(wal)
      /\ synced < Len(wal) /\ pc' = "down"
  BY DEF TornWrite, Stop
<1>2. /\ DOMAIN wal = 1..Len(wal) /\ Len(wal) \in Nat /\ Len(wal) \in 1..Len(wal)
      /\ DOMAIN wal' = 1..Len(wal) /\ wal'[Len(wal)] = Garbage /\ Len(wal') = Len(wal)
  BY <1>1
<1>3. Len(wal) \in Torn' /\ Torn' \subseteq 1..Len(wal)
  BY <1>2 DEF Torn
<1>4. QED
  BY <1>1, <1>2, <1>3 DEF TornInv

(* A line at the end of the WAL, unreadable or not. *)
LEMMA AppendNoGarbage ==
  ASSUME NEW w \in Seq(Lines), NEW m \in Lines
  PROVE  LET x == Append(w, m) IN
         /\ DOMAIN w = 1..Len(w) /\ DOMAIN x = 1..(Len(w) + 1)
         /\ Len(w) \in Nat /\ x[Len(w) + 1] = m
         /\ \A i \in 1..Len(w) : x[i] = w[i]
         /\ m # Garbage => {i \in DOMAIN x : x[i] = Garbage} = {i \in DOMAIN w : w[i] = Garbage}
<1> DEFINE x == Append(w, m)
           n == Len(w)
<1>1. /\ DOMAIN w = 1..n /\ DOMAIN x = 1..(n + 1) /\ n \in Nat
      /\ x[n + 1] = m /\ \A i \in 1..n : x[i] = w[i]
  BY AppendProperties
<1> HIDE DEF x, n
<1>2. \A i \in 1..(n + 1) : i \in 1..n \/ i = n + 1
  BY <1>1
<1>3. \A i \in 1..n : i \in 1..(n + 1)
  BY <1>1
<1>4. m # Garbage => {i \in DOMAIN x : x[i] = Garbage} = {i \in DOMAIN w : w[i] = Garbage}
  BY <1>1, <1>2, <1>3
<1>5. QED
  BY <1>1, <1>4 DEF x, n

(* A step keeps TornInv, cuts a line only as TornWrite, and mends none. *)
LEMMA TornStep ==
  ASSUME TypeOK, TypeOK', TornInv, [Next]_vars
  PROVE  TornInv' /\ (Torn' = {} => Torn = {} /\ ~TornWrite)
                  /\ (Torn = {} /\ ~TornWrite => Torn' = {})
<1> USE DEF TypeOK
<1>1. CASE UNCHANGED <<wal, synced, tail>> /\ (pc' = "append" => made' > 0)
  <2>1. Torn' = Torn
    BY <1>1 DEF Torn
  <2>2. ~TornWrite
    BY <1>1 DEF TornWrite
  <2>3. QED
    BY <1>1, <2>1, <2>2 DEF TornInv
<1>2. CASE AppendLine
  <2>1. pc = "append" /\ made > 0 /\ made # Garbage /\ pc' = "sync"
        /\ tail' = "newline" /\ synced' = synced
    BY <1>2 DEF AppendLine, TornInv, Garbage
  <2>2. CASE tail = "cut"
    <3>1. wal' = [wal EXCEPT ![Len(wal)] = Garbage] /\ Len(wal) \in Torn
      BY <1>2, <2>2 DEF AppendLine, TornInv
    <3>2. DOMAIN wal' = DOMAIN wal /\ \A i \in DOMAIN wal :
             wal'[i] = IF i = Len(wal) THEN Garbage ELSE wal[i]
      BY <3>1
    <3>3. Torn' = Torn
      BY <3>1, <3>2 DEF Torn
    <3>4. QED
      BY <2>1, <3>1, <3>3 DEF TornInv, TornWrite
  <2>3. CASE tail = "newline"
    <3>1. wal' = Append(wal, made)
      BY <1>2, <2>3 DEF AppendLine
    <3>2. /\ DOMAIN wal = 1..Len(wal) /\ DOMAIN wal' = 1..(Len(wal) + 1)
          /\ Len(wal) \in Nat /\ wal'[Len(wal) + 1] = made
          /\ \A i \in 1..Len(wal) : wal'[i] = wal[i]
      <4>1. wal \in Seq(Lines) /\ made \in Lines
        BY LinesAre
      <4>2. QED
        BY <3>1, <4>1, AppendNoGarbage
    <3>3. Torn' = Torn
      <4>1. wal \in Seq(Lines) /\ made \in Lines
        BY LinesAre
      <4>2. {i \in DOMAIN wal' : wal'[i] = Garbage} = {i \in DOMAIN wal : wal[i] = Garbage}
        BY <2>1, <3>1, <4>1, AppendNoGarbage
      <4>3. QED
        BY <4>2 DEF Torn
    <3>4. QED
      BY <2>1, <3>3 DEF TornInv, TornWrite
  <2>4. QED
    BY <2>2, <2>3
<1>3. CASE SyncWal
  <2>1. UNCHANGED <<wal, tail>> /\ synced' = Len(wal) /\ pc' = "publish"
    BY <1>3 DEF SyncWal
  <2>2. Torn' = Torn /\ synced <= Len(wal)
    BY <2>1 DEF Torn
  <2>3. ~TornWrite
    BY <2>1 DEF TornWrite, Stop
  <2>4. QED
    BY <2>1, <2>2, <2>3 DEF TornInv
<1>4. CASE PowerLoss
  <2>1. PICK n \in synced..Len(wal) :
           /\ wal' = SubSeq(wal, 1, n) /\ synced' = n
           /\ tail' = IF n = Len(wal) THEN tail ELSE "newline"
    BY <1>4 DEF PowerLoss
  <2>2. /\ Len(wal') = n /\ n <= Len(wal) /\ n \in Nat /\ Len(wal) \in Nat
        /\ DOMAIN wal = 1..Len(wal) /\ DOMAIN wal' = 1..n
        /\ \A i \in 1..n : wal'[i] = wal[i]
    BY <2>1
  <2> HIDE DEF TypeOK
  <2>8. synced \in Nat /\ synced <= n /\ synced' = n /\ n \in Nat
    BY <2>1 DEF TypeOK
  <2>3. Torn' = Torn
    <3>1. 1..synced \subseteq 1..n /\ 1..n \subseteq 1..Len(wal)
      BY <2>2, <2>8
    <3>2. Torn \subseteq 1..n
      BY <3>1 DEF TornInv
    <3>3. \A i : i \in Torn <=> i \in Torn'
      BY <2>2, <3>1, <3>2 DEF Torn
    <3>4. QED
      BY <3>3
  <2>4. pc' = "down"
    BY <1>4 DEF PowerLoss, Stop
  <2>5. CASE TornWrite
    BY <2>3, <2>5, TornCuts
  <2>6. CASE ~TornWrite
    <3>1. 1..synced \subseteq 1..synced'
      BY <2>8
    <3>2. tail' = "cut" => tail = "cut" /\ Len(wal') = Len(wal)
      BY <2>1, <2>2
    <3>3. TornInv'
      BY <2>3, <2>4, <3>1, <3>2 DEF TornInv
    <3>4. QED
      BY <2>3, <2>6, <3>3
  <2>7. QED
    BY <2>5, <2>6
<1>5. CASE TornWrite
  BY <1>5, TornCuts
<1>6. CASE Submit
  BY <1>1, <1>6 DEF Submit, files
<1>7. CASE \/ Start \/ Replay \/ EndReplay \/ Publish \/ Confirm \/ TruncateCursor
           \/ WriteCursor \/ SyncCursor \/ Kill \/ PublishFails \/ UNCHANGED vars
  <2>1. UNCHANGED <<wal, synced, tail>> /\ (pc' = "append" => made' > 0)
    BY <1>7 DEF Start, Replay, EndReplay, Publish, Confirm, TruncateCursor, WriteCursor,
                SyncCursor, Kill, PublishFails, Stop, files, vars, TornInv
  <2>2. QED
    BY <1>1, <2>1
<1>8. QED
  BY <1>2, <1>3, <1>4, <1>5, <1>6, <1>7 DEF Next, Step, Quiet

(* A WAL line that was cut stays in the file: no later step makes the outbox
   look as if none had been. *)
THEOREM CutLinesStay == Safety => []TornInv
<1>1. Init => TornInv
  BY DEF Init, TornInv, Torn
<1>2. TypeOK /\ TypeOK' /\ TornInv /\ [Next]_vars => TornInv'
  BY TornStep
<1>3. QED
  BY <1>1, <1>2, TypeInvariant, PTL DEF Safety
-----------------------------------------------------------------------------
(* One more line in the stream. *)
LEMMA StoredAppend ==
  ASSUME stream \in Seq(Lines), NEW v \in Lines, stream' = Append(stream, v)
  PROVE  Stored' = Stored \cup {v}
<1>1. /\ Len(stream') = Len(stream) + 1
      /\ stream'[Len(stream) + 1] = v
      /\ \A i \in 1..Len(stream) : stream'[i] = stream[i]
  OBVIOUS
<1>2. /\ DOMAIN stream = 1..Len(stream) /\ DOMAIN stream' = 1..Len(stream')
      /\ Len(stream) \in Nat
  OBVIOUS
<1>3. QED
  BY <1>1, <1>2 DEF Stored

(* The empty files and the empty stream satisfy the invariant. *)
LEMMA SafeInit == Init => ControlInv /\ CursorInv /\ PersistedInv
<1> SUFFICES ASSUME Init PROVE ControlInv /\ CursorInv /\ PersistedInv
  OBVIOUS
<1>1. Len(wal) = 0
  BY DEF Init
<1>2. QED
  BY <1>1 DEF Init, ControlInv, CursorInv, PersistedInv, Held

(* Steps that only move the process or write the cursor file. *)
LEMMA SafeControlStep ==
  ASSUME SafeInv, TypeOK',
         \/ Start \/ EndReplay \/ Submit \/ Confirm
         \/ TruncateCursor \/ WriteCursor \/ SyncCursor \/ Quiet
  PROVE  ControlInv' /\ CursorInv' /\ PersistedInv'
<1> USE DEF SafeInv, TypeOK
<1>1. wal' = wal /\ synced' = synced /\ tail' = tail /\ stream' = stream /\ persisted' = persisted
  BY DEF Start, EndReplay, Submit, Confirm, TruncateCursor, WriteCursor, SyncCursor,
         Quiet, vars, memory, files
<1>2. Stored' = Stored /\ Len(wal') = Len(wal) /\ Len(wal) \in Nat
  BY <1>1 DEF Stored
<1>3. \A n : Held(n)' <=> Held(n)
  BY <1>1, <1>2 DEF Held
<1>4. PersistedInv'
  BY <1>1, <1>2 DEF PersistedInv
<1>5. CASE Start
  BY <1>1, <1>2, <1>3, <1>4, <1>5 DEF Start, ControlInv, CursorInv, files
<1>6. CASE EndReplay
  <2>1. Held(Len(wal))
    BY <1>2, <1>6 DEF EndReplay, ControlInv, Held
  <2>2. QED
    BY <1>1, <1>2, <1>3, <1>4, <1>6, <2>1 DEF EndReplay, ControlInv, CursorInv, files
<1>7. CASE Submit
  BY <1>1, <1>2, <1>3, <1>4, <1>7 DEF Submit, ControlInv, CursorInv, files, memory
<1>8. CASE Confirm
  BY <1>1, <1>2, <1>3, <1>4, <1>8 DEF Confirm, ControlInv, CursorInv, files
<1>9. CASE TruncateCursor
  <2>1. Held(0)
    BY DEF Held
  <2>2. QED
    BY <1>1, <1>2, <1>3, <1>4, <1>9, <2>1 DEF TruncateCursor, ControlInv, CursorInv, memory
<1>10. CASE WriteCursor
  BY <1>1, <1>2, <1>3, <1>4, <1>10 DEF WriteCursor, ControlInv, CursorInv, memory
<1>11. CASE SyncCursor
  BY <1>1, <1>2, <1>3, <1>4, <1>11 DEF SyncCursor, ControlInv, CursorInv, memory
<1>12. CASE Quiet
  BY <1>1, <1>2, <1>3, <1>4, <1>12 DEF Quiet, vars, ControlInv, CursorInv, memory, files
<1>13. QED
  BY <1>5, <1>6, <1>7, <1>8, <1>9, <1>10, <1>11, <1>12

(* The steps of (1): a line is added, then synced. *)
LEMMA SafeAppend ==
  ASSUME SafeInv, TypeOK', AppendLine
  PROVE  ControlInv' /\ CursorInv' /\ PersistedInv'
<1> USE DEF SafeInv, TypeOK
<1>1. /\ wal' = Append(wal, made) /\ pc' = "sync" /\ tail' = "newline"
      /\ UNCHANGED <<confirmed, line, synced, cursor, disk, stream, persisted, made>>
  BY DEF AppendLine, CursorInv, memory
<1>2. /\ Len(wal') = Len(wal) + 1 /\ wal'[Len(wal) + 1] = made
      /\ \A i \in 1..Len(wal) : wal'[i] = wal[i]
      /\ Len(wal) \in Nat
  BY <1>1
<1>3. Stored' = Stored
  BY <1>1 DEF Stored
<1>4. disk = {cursor} /\ cursor = Len(wal) /\ confirmed = Len(wal) /\ Held(Len(wal))
  BY DEF AppendLine, ControlInv
<1>5. ControlInv'
  BY <1>1, <1>2, <1>4 DEF ControlInv
<1>6. CursorInv'
  BY <1>1, <1>2, <1>3, <1>4 DEF CursorInv, Held
<1>7. PersistedInv'
  BY <1>1, <1>2, <1>3 DEF PersistedInv
<1>8. QED
  BY <1>5, <1>6, <1>7

(* The fsync of (1): the verdict in flight counts as persisted, and its line
   is beyond the cursor. *)
LEMMA SafeSync ==
  ASSUME SafeInv, TypeOK', SyncWal
  PROVE  ControlInv' /\ CursorInv' /\ PersistedInv'
<1> USE DEF SafeInv, TypeOK
<1>1. /\ synced' = Len(wal) /\ pc' = "publish" /\ persisted' = persisted \cup {made}
      /\ UNCHANGED <<confirmed, line, wal, tail, cursor, disk, stream, made>>
  BY DEF SyncWal, memory
<1>2. Stored' = Stored /\ Len(wal') = Len(wal) /\ Len(wal) \in Nat
  BY <1>1 DEF Stored
<1>3. disk = {cursor} /\ cursor = confirmed /\ Len(wal) = confirmed + 1 /\ wal[Len(wal)] = made
  BY DEF SyncWal, ControlInv
<1>4. ControlInv'
  BY <1>1, <1>2, <1>3 DEF ControlInv
<1>5. CursorInv'
  BY <1>1, <1>2 DEF CursorInv, Held
<1>6. PersistedInv'
  BY <1>1, <1>2, <1>3 DEF PersistedInv
<1>7. QED
  BY <1>4, <1>5, <1>6

(* The stream grows: nothing that was held stops being held. *)
LEMMA HeldGrows ==
  ASSUME TypeOK, wal' = wal, Stored \subseteq Stored',
         NEW n, Held(n)
  PROVE  Held(n)'
BY DEF Held, TypeOK

(* Step (2): the last line of the WAL is in the stream, as the others were. *)
LEMMA SafePublish ==
  ASSUME SafeInv, TypeOK', Publish
  PROVE  ControlInv' /\ CursorInv' /\ PersistedInv'
<1> USE DEF SafeInv, TypeOK
<1>1. /\ stream' = Append(stream, made) /\ pc' = "acked"
      /\ UNCHANGED <<confirmed, line, wal, synced, tail, cursor, disk, persisted, made>>
  BY DEF Publish, memory, files
<1>2. Stored' = Stored \cup {made}
  BY <1>1, StoredAppend, LinesAre
<1>3. /\ disk = {cursor} /\ cursor = confirmed /\ synced = Len(wal)
      /\ Len(wal) = confirmed + 1 /\ wal[Len(wal)] = made
  BY DEF Publish, ControlInv
<1>4. CursorInv'
  BY <1>1, <1>2, HeldGrows DEF CursorInv
<1>5. Held(Len(wal))'
  <2>1. Held(confirmed)
    BY <1>3 DEF CursorInv
  <2>2. QED
    BY <1>1, <1>2, <1>3, <2>1 DEF Held
<1>6. ControlInv'
  BY <1>1, <1>3, <1>5 DEF ControlInv
<1>7. PersistedInv'
  BY <1>1, <1>2 DEF PersistedInv
<1>8. QED
  BY <1>4, <1>6, <1>7

(* recover: one more line of the WAL is in the stream. *)
LEMMA SafeReplay ==
  ASSUME SafeInv, TypeOK', Replay
  PROVE  ControlInv' /\ CursorInv' /\ PersistedInv'
<1> USE DEF SafeInv, TypeOK
<1>1. /\ stream' = Append(stream, wal[line]) /\ pc' = "replay" /\ line' = line + 1
      /\ line \in 1..Len(wal)
      /\ UNCHANGED <<confirmed, wal, synced, tail, cursor, disk, persisted, made>>
  BY DEF Replay, files
<1>2. Stored' = Stored \cup {wal[line]}
  BY <1>1, StoredAppend
<1>3. CursorInv'
  BY <1>1, <1>2, HeldGrows DEF CursorInv
<1>4. Held(line - 1)'
  <2>1. Held(line - 1)
    BY DEF Replay, ControlInv
  <2>2. \A i \in 1..Len(wal) : i <= line => wal[i] \in Stored'
    BY <1>1, <1>2, <2>1 DEF Held
  <2>3. \A i \in 1..Len(wal') : i <= line' - 1 => wal'[i] \in Stored'
    BY <1>1, <2>2
  <2>4. QED
    BY <2>3 DEF Held
<1>5. ControlInv'
  BY <1>1, <1>4 DEF ControlInv
<1>6. PersistedInv'
  BY <1>1, <1>2 DEF PersistedInv
<1>7. QED
  BY <1>3, <1>5, <1>6

(* The stops: nothing is known about the process, the files stay sound. *)
LEMMA SafeStop ==
  ASSUME SafeInv, TypeOK', Kill \/ PublishFails \/ PowerLoss
  PROVE  ControlInv' /\ CursorInv' /\ PersistedInv'
<1> USE DEF SafeInv, TypeOK
<1>1. pc' = "down" /\ persisted' = persisted
  BY DEF Kill, PublishFails, PowerLoss, Stop
<1>2. ControlInv'
  BY <1>1 DEF ControlInv
<1>3. Stored \subseteq Stored'
  <2>1. CASE stream' = stream
    BY <2>1 DEF Stored
  <2>2. CASE PublishFails /\ stream' # stream
    <3>1. PICK v \in Lines : stream' = Append(stream, v)
      <4>1. \/ stream' = Append(stream, made)
            \/ line <= Len(wal) /\ stream' = Append(stream, wal[line])
        <5>1. CASE stream' \in {stream, Append(stream, made)}
          BY <2>2, <5>1
        <5>2. CASE line <= Len(wal) /\ stream' \in {stream, Append(stream, wal[line])}
          BY <2>2, <5>2
        <5>3. QED
          BY <2>2, <5>1, <5>2 DEF PublishFails
      <4>2. made \in Lines /\ (line <= Len(wal) => wal[line] \in Lines)
        <5>1. made \in Lines
          BY LinesAre
        <5>2. ASSUME line <= Len(wal) PROVE wal[line] \in Lines
          <6>1. line \in 1..Len(wal)
            BY <5>2
          <6>2. QED
            BY <6>1, ElementOfSeq
        <5>3. QED
          BY <5>1, <5>2
      <4>3. QED
        BY <4>1, <4>2
    <3>2. QED
      BY <3>1, StoredAppend
  <2>3. QED
    BY <2>1, <2>2 DEF Kill, PowerLoss
<1>4. CASE Kill \/ PublishFails
  <2>1. UNCHANGED <<wal, synced, tail, cursor, disk>>
    BY <1>4 DEF Kill, PublishFails, files
  <2>2. CursorInv'
    BY <1>3, <2>1, HeldGrows DEF CursorInv
  <2>3. PersistedInv'
    BY <1>1, <1>3, <2>1 DEF PersistedInv
  <2>4. QED
    BY <1>2, <2>2, <2>3
<1>5. CASE PowerLoss
  <2>1. PICK n \in synced..Len(wal) : wal' = SubSeq(wal, 1, n) /\ synced' = n
    BY <1>5 DEF PowerLoss
  <2>2. /\ Len(wal') = n /\ n <= Len(wal) /\ n \in Nat /\ synced <= n
        /\ \A i \in 1..n : wal'[i] = wal[i]
    BY <2>1
  <2>3. tail' = "newline" /\ cursor' \in disk /\ disk' = {cursor'}
    <3>1. tail = "newline"
      BY DEF CursorInv
    <3>2. QED
      BY <1>5, <3>1 DEF PowerLoss
  <2>4. ASSUME NEW i \in 1..Len(wal'), i <= cursor'
        PROVE  wal'[i] \in Stored'
    <3>1. Held(cursor') /\ i \in 1..Len(wal)
      BY <2>2, <2>3, <2>4 DEF CursorInv
    <3>2. QED
      BY <1>3, <2>2, <2>4, <3>1 DEF Held
  <2>5. CursorInv'
    BY <2>3, <2>4 DEF CursorInv, Held
  <2>6. PersistedInv'
    BY <1>1, <1>3, <2>1, <2>2 DEF PersistedInv
  <2>7. QED
    BY <1>2, <2>5, <2>6
<1>6. QED
  BY <1>4, <1>5
-----------------------------------------------------------------------------
(* As long as no line is cut the files are sound, whatever stops the outbox. *)
THEOREM SafeInvariant == Safety => [](Torn = {} => SafeInv)
<1>1. Init => ControlInv /\ CursorInv /\ PersistedInv
  BY SafeInit
<1>2. SafeInv /\ TypeOK' /\ [Next]_vars /\ ~TornWrite
        => (ControlInv /\ CursorInv /\ PersistedInv)'
  <2> SUFFICES ASSUME SafeInv, TypeOK', [Next]_vars, ~TornWrite
               PROVE  (ControlInv /\ CursorInv /\ PersistedInv)'
    OBVIOUS
  <2>1. CASE UNCHANGED vars
    <3>1. UNCHANGED <<pc, confirmed, line, wal, synced, tail, cursor, disk,
                      stream, made, persisted>>
      BY <2>1 DEF vars, memory, files
    <3>2. Stored' = Stored /\ \A n : Held(n)' = Held(n)
      BY <3>1 DEF Held, Stored
    <3>3. ControlInv'
      BY <3>1, <3>2 DEF SafeInv, ControlInv
    <3>4. CursorInv'
      BY <3>1, <3>2 DEF SafeInv, CursorInv
    <3>5. PersistedInv'
      BY <3>1, <3>2 DEF SafeInv, PersistedInv
    <3>6. QED
      BY <3>3, <3>4, <3>5
  <2>2. QED
    BY <2>1, SafeControlStep, SafeAppend, SafeSync, SafePublish, SafeReplay, SafeStop
    DEF Next, Step
<1>3. TypeOK /\ TypeOK' /\ TornInv /\ [Next]_vars /\ (Torn = {} => SafeInv)
        => (Torn = {} => SafeInv)'
  <2> SUFFICES ASSUME TypeOK, TypeOK', TornInv, [Next]_vars,
                      Torn = {} => SafeInv, Torn' = {}
               PROVE  SafeInv'
    OBVIOUS
  <2>1. SafeInv /\ ~TornWrite
    BY TornStep
  <2>2. QED
    BY <1>2, <2>1 DEF SafeInv
<1>4. TypeOK /\ Init => (Torn = {} => SafeInv)
  BY <1>1 DEF SafeInv
<1>5. QED
  BY <1>3, <1>4, TypeInvariant, CutLinesStay, PTL DEF Safety

(* gateway.py:103-112: at every moment a verdict that passed step (1) is in
   the stream or among the lines the next recovery replays. *)
THEOREM NothingPersistedIsLost == Spec => []Recoverable
<1>1. (Torn = {} => SafeInv) => Recoverable
  <2> SUFFICES ASSUME SafeInv, NEW v \in persisted, v \notin Stored
               PROVE  v \in Unconfirmed
    BY DEF Recoverable
  <2> USE DEF SafeInv, TypeOK
  <2>1. PICK i \in 1..synced : wal[i] = v
    BY DEF PersistedInv
  <2>2. i \in 1..Len(wal)
    BY <2>1
  <2>3. ~(i <= cursor)
    BY <2>1, <2>2 DEF CursorInv, Held
  <2>4. i \in (cursor + 1)..Len(wal)
    BY <2>2, <2>3
  <2>5. QED
    BY <2>1, <2>4 DEF Unconfirmed
<1>2. QED
  BY <1>1, SafeInvariant, PTL DEF Spec

(* Recovery skips no verdict: when the outbox is ready for the next verdict,
   the stream holds every verdict that passed step (1). *)
THEOREM RecoveryIsComplete == Spec => []ReadyMeansRelayed
<1>1. (Torn = {} => SafeInv) => ReadyMeansRelayed
  <2> SUFFICES ASSUME SafeInv, pc = "idle", NEW v \in persisted
               PROVE  v \in Stored
    BY DEF ReadyMeansRelayed
  <2>1. Held(Len(wal))
    BY DEF SafeInv, ControlInv
  <2>2. ASSUME NEW i \in 1..synced, wal[i] = v
        PROVE  v \in Stored
    <3>1. i \in 1..Len(wal) /\ i <= Len(wal)
      BY <2>2 DEF SafeInv, TypeOK
    <3>2. QED
      BY <2>1, <2>2, <3>1 DEF Held
  <2>3. QED
    BY <2>2 DEF SafeInv, PersistedInv
<1>2. QED
  BY <1>1, SafeInvariant, PTL DEF Spec
-----------------------------------------------------------------------------
(* A copy, or a verdict newer than the whole stream, keeps the first copies
   in order. *)
LEMMA FirstCopiesGrow ==
  ASSUME TypeOK, InOrder, NEW v \in Lines, stream' = Append(stream, v),
         v \in Stored \/ \A s \in Stored : s < v
  PROVE  InOrder'
<1>1. /\ Len(stream) \in Nat /\ DOMAIN stream = 1..Len(stream)
      /\ DOMAIN stream' = 1..(Len(stream) + 1)
      /\ stream'[Len(stream) + 1] = v
      /\ \A i \in 1..Len(stream) : stream'[i] = stream[i] /\ stream[i] \in Stored
  BY DEF TypeOK, Stored
<1>2. SUFFICES ASSUME NEW i \in 1..(Len(stream) + 1), NEW j \in 1..(Len(stream) + 1),
                      i < j, FirstCopy(i)', FirstCopy(j)'
               PROVE  stream'[i] < stream'[j]
  BY <1>1 DEF InOrder
<1>3. i \in 1..Len(stream)
  BY <1>1, <1>2
<1>4. CASE j \in 1..Len(stream)
  <2>1. FirstCopy(i) /\ FirstCopy(j)
    BY <1>1, <1>2, <1>3, <1>4 DEF FirstCopy
  <2>2. QED
    BY <1>1, <1>2, <1>3, <1>4, <2>1 DEF InOrder
<1>5. CASE j = Len(stream) + 1
  <2>1. v \notin Stored
    <3>1. \A k \in 1..Len(stream) : stream[k] # v
      BY <1>1, <1>2, <1>5 DEF FirstCopy
    <3>2. QED
      BY <1>1, <3>1 DEF Stored
  <2>2. QED
    BY <1>1, <1>3, <1>5, <2>1
<1>6. QED
  BY <1>1, <1>4, <1>5

(* The WAL line n is published when the lines before it are in the stream. *)
LEMMA PublishedInOrder ==
  ASSUME TypeOK, OrderInv, NEW n \in 1..Len(wal), Held(n - 1),
         stream' = Append(stream, wal[n]), wal' = wal, made' = made, pc' # "append"
  PROVE  OrderInv'
<1>1. wal[n] \in Lines /\ Len(wal) \in Nat
  BY ElementOfSeq DEF TypeOK
<1>2. Stored' = Stored \cup {wal[n]}
  BY <1>1, StoredAppend DEF TypeOK
<1>3. wal[n] \in Stored \/ \A s \in Stored : s < wal[n]
  BY DEF OrderInv, StreamOrdered
<1>4. InOrder'
  BY <1>1, <1>3, FirstCopiesGrow DEF OrderInv
<1>5. WalOrdered'
  BY DEF OrderInv, WalOrdered
<1>6. ASSUME NEW i \in 1..Len(wal), wal[i] \notin Stored'
      PROVE  \A s \in Stored' : s < wal[i]
  <2>1. n < i
    <3>1. wal[i] \notin Stored /\ i # n
      BY <1>2, <1>6
    <3>2. ~(i <= n - 1)
      BY <3>1 DEF Held
    <3>3. QED
      BY <1>1, <3>1, <3>2
  <2>2. wal[n] < wal[i]
    BY <2>1 DEF OrderInv, WalOrdered
  <2>3. \A s \in Stored : s < wal[i]
    BY <1>2, <1>6 DEF OrderInv, StreamOrdered
  <2>4. QED
    BY <1>2, <2>2, <2>3
<1>7. StreamOrdered'
  <2>1. \A s \in Stored' : s <= made
    BY <1>2 DEF OrderInv, StreamOrdered, WalOrdered
  <2>2. QED
    BY <1>6, <2>1 DEF StreamOrdered
<1>8. QED
  BY <1>4, <1>5, <1>7 DEF OrderInv

(* Steps that leave the stream and the WAL alone. *)
LEMMA OrderFrame ==
  ASSUME OrderInv, UNCHANGED <<stream, wal>>, made' = made, pc' # "append"
  PROVE  OrderInv'
<1>1. Stored' = Stored
  BY DEF Stored
<1>2. WalOrdered' /\ StreamOrdered'
  BY <1>1 DEF OrderInv, WalOrdered, StreamOrdered
<1>3. InOrder'
  BY DEF OrderInv, InOrder, FirstCopy
<1>4. QED
  BY <1>2, <1>3 DEF OrderInv

(* A new verdict is newer than every WAL line and every message. *)
LEMMA OrderSubmit ==
  ASSUME TypeOK, OrderInv, Submit
  PROVE  OrderInv'
<1>1. made' = made + 1 /\ made \in Nat /\ UNCHANGED <<stream, wal>>
  BY DEF Submit, files, TypeOK
<1>2. Stored' = Stored
  BY <1>1 DEF Stored
<1>3. (\A i \in 1..Len(wal) : wal[i] \in Nat) /\ Stored \subseteq Nat
  BY LinesAre, ElementOfSeq, OutboxAssumption DEF TypeOK, Stored
<1>4. WalOrdered'
  BY <1>1, <1>3 DEF OrderInv, WalOrdered
<1>5. StreamOrdered'
  BY <1>1, <1>2, <1>3 DEF OrderInv, StreamOrdered
<1>6. InOrder'
  BY <1>1 DEF OrderInv, InOrder, FirstCopy
<1>7. QED
  BY <1>4, <1>5, <1>6 DEF OrderInv

(* The WAL grows in the order the verdicts are made. *)
LEMMA OrderAppend ==
  ASSUME SafeInv, OrderInv, AppendLine
  PROVE  OrderInv'
<1>1. /\ wal' = Append(wal, made) /\ made' = made /\ stream' = stream
      /\ pc = "append" /\ pc' = "sync"
  BY DEF AppendLine, SafeInv, CursorInv
<1>2. /\ Len(wal) \in Nat /\ Len(wal') = Len(wal) + 1 /\ wal'[Len(wal) + 1] = made
      /\ \A i \in 1..Len(wal) : wal'[i] = wal[i]
  BY <1>1 DEF SafeInv, TypeOK
<1>3. Stored' = Stored
  BY <1>1 DEF Stored
<1>4. (\A s \in Stored : s < made) /\ \A i \in 1..Len(wal) : wal[i] < made
  BY <1>1 DEF OrderInv, StreamOrdered, WalOrdered
<1>5. WalOrdered'
  <2>1. \A i \in 1..Len(wal') : wal'[i] <= made
    BY <1>2 DEF OrderInv, WalOrdered, SafeInv, TypeOK
  <2>2. \A i, j \in 1..Len(wal') : i < j => wal'[i] < wal'[j]
    BY <1>2, <1>4 DEF OrderInv, WalOrdered
  <2>3. QED
    BY <1>1, <2>1, <2>2 DEF WalOrdered
<1>6. StreamOrdered'
  <2>1. \A i \in 1..Len(wal') : wal'[i] \notin Stored => \A s \in Stored : s < wal'[i]
    BY <1>2, <1>4 DEF OrderInv, StreamOrdered
  <2>2. QED
    BY <1>1, <1>3, <2>1 DEF OrderInv, StreamOrdered
<1>7. InOrder'
  BY <1>1 DEF OrderInv, InOrder, FirstCopy
<1>8. QED
  BY <1>5, <1>6, <1>7 DEF OrderInv

(* What a publish step of the process publishes: the WAL line n, when the
   lines before it are in the stream. *)
LEMMA PublishesALine ==
  ASSUME SafeInv, Publish \/ Replay \/ PublishFails
  PROVE  /\ UNCHANGED <<wal, made>> /\ pc' # "append"
         /\ \/ stream' = stream
            \/ \E n \in 1..Len(wal) : Held(n - 1) /\ stream' = Append(stream, wal[n])
<1> USE DEF SafeInv, TypeOK
<1>1. UNCHANGED <<wal, made>> /\ pc' # "append"
  BY DEF Publish, Replay, PublishFails, Stop, files
<1>2. ASSUME pc = "publish"
      PROVE  Len(wal) \in 1..Len(wal) /\ Held(Len(wal) - 1) /\ wal[Len(wal)] = made
  BY <1>2 DEF ControlInv, CursorInv
<1>3. ASSUME pc = "replay", line <= Len(wal)
      PROVE  line \in 1..Len(wal) /\ Held(line - 1)
  BY <1>3 DEF ControlInv
<1>4. \/ stream' = stream
      \/ pc = "publish" /\ stream' = Append(stream, made)
      \/ pc = "replay" /\ line <= Len(wal) /\ stream' = Append(stream, wal[line])
  BY DEF Publish, Replay, PublishFails
<1>5. QED
  BY <1>1, <1>2, <1>3, <1>4

(* A power loss leaves a prefix of the WAL, whose order stays. *)
LEMMA OrderPowerLoss ==
  ASSUME SafeInv, OrderInv, PowerLoss
  PROVE  OrderInv'
<1>1. PICK n \in synced..Len(wal) : wal' = SubSeq(wal, 1, n)
  BY DEF PowerLoss
<1>2. /\ Len(wal') = n /\ n <= Len(wal) /\ n \in Nat /\ Len(wal) \in Nat
      /\ \A i \in 1..n : wal'[i] = wal[i] /\ i \in 1..Len(wal)
  BY <1>1 DEF SafeInv, TypeOK
<1>3. UNCHANGED <<stream, made>> /\ pc' = "down"
  BY DEF PowerLoss, Stop
<1>4. Stored' = Stored
  BY <1>3 DEF Stored
<1>5. WalOrdered'
  BY <1>2, <1>3 DEF OrderInv, WalOrdered
<1>6. StreamOrdered'
  BY <1>2, <1>3, <1>4 DEF OrderInv, StreamOrdered
<1>7. InOrder'
  BY <1>3 DEF OrderInv, InOrder, FirstCopy
<1>8. QED
  BY <1>5, <1>6, <1>7 DEF OrderInv

(* The order of the WAL and of the first copies is inductive. *)
THEOREM OrderInvariant == Safety => [](Torn = {} => OrderInv)
<1>1. Init => OrderInv
  <2> SUFFICES ASSUME Init PROVE OrderInv
    OBVIOUS
  <2>1. Len(wal) = 0 /\ Stored = {} /\ DOMAIN stream = {}
    BY DEF Init, Stored
  <2>2. QED
    BY <2>1 DEF Init, OrderInv, WalOrdered, StreamOrdered, InOrder
<1>2. SafeInv /\ OrderInv /\ [Next]_vars /\ ~TornWrite => OrderInv'
  <2> SUFFICES ASSUME SafeInv, OrderInv, [Next]_vars, ~TornWrite
               PROVE  OrderInv'
    OBVIOUS
  <2>1. CASE Submit
    BY <2>1, OrderSubmit DEF SafeInv
  <2>2. CASE AppendLine
    BY <2>2, OrderAppend
  <2>3. CASE Publish \/ Replay \/ PublishFails
    <3>1. CASE stream' = stream
      BY <2>3, <3>1, PublishesALine, OrderFrame
    <3>2. CASE \E n \in 1..Len(wal) : Held(n - 1) /\ stream' = Append(stream, wal[n])
      BY <2>3, <3>2, PublishesALine, PublishedInOrder DEF SafeInv
    <3>3. QED
      BY <2>3, <3>1, <3>2, PublishesALine
  <2>4. CASE PowerLoss
    BY <2>4, OrderPowerLoss
  <2>5. CASE \/ Start \/ EndReplay \/ SyncWal \/ Confirm
             \/ TruncateCursor \/ WriteCursor \/ SyncCursor \/ Kill
    <3>1. UNCHANGED <<stream, wal>> /\ made' = made /\ pc' # "append"
      BY <2>5 DEF Start, EndReplay, SyncWal, Confirm, TruncateCursor, WriteCursor,
                  SyncCursor, Kill, Stop, files
    <3>2. QED
      BY <3>1, OrderFrame
  <2>6. CASE UNCHANGED vars
    <3>1. UNCHANGED <<pc, stream, wal, made>>
      BY <2>6 DEF vars, files
    <3>2. Stored' = Stored
      BY <3>1 DEF Stored
    <3>3. QED
      BY <3>1, <3>2 DEF OrderInv, WalOrdered, StreamOrdered, InOrder, FirstCopy
  <2>7. QED
    BY <2>1, <2>2, <2>3, <2>4, <2>5, <2>6
    DEF Next, Step, Quiet
<1>3. TypeOK /\ TypeOK' /\ TornInv /\ [Next]_vars
        /\ (Torn = {} => SafeInv) /\ (Torn = {} => OrderInv)
        => (Torn = {} => OrderInv)'
  BY <1>2, TornStep
<1>4. QED
  BY <1>1, <1>3, TypeInvariant, CutLinesStay, SafeInvariant, PTL DEF Safety

(* Replays never reorder: dropping copies, the stream is in the order the
   gateway made its verdicts. *)
THEOREM ReplayKeepsOrder == Spec => []FirstCopiesInOrder
<1>1. (Torn = {} => OrderInv) => FirstCopiesInOrder
  BY DEF OrderInv, FirstCopiesInOrder
<1>2. QED
  BY <1>1, OrderInvariant, PTL DEF Spec
-----------------------------------------------------------------------------
(* A publish step delivers the oldest undelivered verdict, or is a copy. *)
LEMMA PublishDelivers ==
  ASSUME SafeInv, Publish \/ Replay \/ PublishFails
  PROVE  Promise!Deliver \/ UNCHANGED Promise!logVars
<1>1. wal' = wal
  BY PublishesALine
<1>2. CASE stream' = stream
  BY <1>1, <1>2 DEF Stored, Promise!logVars
<1>3. CASE \E n \in 1..Len(wal) : Held(n - 1) /\ stream' = Append(stream, wal[n])
  <2>1. PICK n \in 1..Len(wal) : Held(n - 1) /\ stream' = Append(stream, wal[n])
    BY <1>3
  <2>2. /\ wal[n] \in Lines /\ Len(wal) \in Nat /\ DOMAIN wal = 1..Len(wal)
        /\ stream \in Seq(Lines)
    BY ElementOfSeq DEF SafeInv, TypeOK
  <2>3. Stored' = Stored \cup {wal[n]}
    BY <2>1, <2>2, StoredAppend
  <2>4. CASE wal[n] \in Stored
    BY <1>1, <2>3, <2>4 DEF Promise!logVars
  <2>5. CASE wal[n] \notin Stored
    <3>1. \A j \in 1..(n - 1) : wal[j] \in Stored
      BY <2>1, <2>2 DEF Held
    <3>2. QED
      BY <1>1, <2>2, <2>3, <2>5, <3>1 DEF Promise!Deliver
  <2>6. QED
    BY <2>4, <2>5
<1>4. QED
  BY <1>2, <1>3, PublishesALine

(* Step (1) is the abstract Accept: the line appended is a new verdict. *)
LEMMA AppendAccepts ==
  ASSUME SafeInv, OrderInv, AppendLine
  PROVE  Promise!Accept
<1>1. wal' = Append(wal, made) /\ stream' = stream /\ pc = "append"
  BY DEF AppendLine, SafeInv, CursorInv
<1>2. made > 0 /\ \A i \in 1..Len(wal) : wal[i] < made
  BY <1>1 DEF OrderInv, WalOrdered
<1>3. made \in 1..MaxVerdicts /\ DOMAIN wal = 1..Len(wal)
  BY <1>2, OutboxAssumption DEF SafeInv, TypeOK
<1>4. made \notin {wal[i] : i \in DOMAIN wal}
  BY <1>2, <1>3 DEF SafeInv, TypeOK
<1>5. Stored' = Stored
  BY <1>1 DEF Stored
<1>6. QED
  BY <1>1, <1>3, <1>4, <1>5 DEF Promise!Accept

(* A step that is no power loss is a step of the relay log or none. *)
LEMMA LogStep ==
  ASSUME SafeInv, OrderInv, Step \/ Submit \/ Kill \/ PublishFails \/ UNCHANGED vars
  PROVE  [Promise!LogNext]_Promise!logVars
<1> SUFFICES Promise!LogNext \/ UNCHANGED Promise!logVars
  BY DEF Promise!logVars
<1>1. CASE Publish \/ Replay \/ PublishFails
  BY <1>1, PublishDelivers DEF Promise!LogNext
<1>2. CASE AppendLine
  BY <1>2, AppendAccepts DEF Promise!LogNext
<1>3. CASE \/ Start \/ EndReplay \/ Submit \/ SyncWal \/ Confirm
           \/ TruncateCursor \/ WriteCursor \/ SyncCursor \/ Kill
           \/ UNCHANGED vars
  <2>1. UNCHANGED <<stream, wal>>
    BY <1>3 DEF Start, EndReplay, Submit, SyncWal, Confirm, TruncateCursor,
                WriteCursor, SyncCursor, Kill, Stop, files, vars
  <2>2. QED
    BY <2>1 DEF Stored, Promise!logVars
<1>4. QED
  BY <1>1, <1>2, <1>3 DEF Step

(* As long as the machine keeps its power, the outbox implements the relay
   log: a verdict is accepted when its line is in the WAL file, and delivered
   once in effect, in log order, whatever the process does. *)
THEOREM OutboxImplementsRelayLog ==
  ASSUME Faults \subseteq {"kill", "fail"}
  PROVE  Spec => Promise!LogSafety
<1>1. Init => Promise!LogInit
  BY DEF Init, Promise!LogInit, Stored
<1>2. ~PowerLoss /\ ~TornWrite
  BY DEF PowerLoss, TornWrite
<1>3. Safety => [](Torn = {})
  <2>1. Init => Torn = {}
    BY DEF Init, Torn
  <2>2. TypeOK /\ TypeOK' /\ TornInv /\ Torn = {} /\ [Next]_vars => (Torn = {})'
    BY <1>2, TornStep
  <2>3. QED
    BY <2>1, <2>2, TypeInvariant, CutLinesStay, PTL DEF Safety
<1>4. SafeInv /\ OrderInv /\ [Next]_vars => [Promise!LogNext]_Promise!logVars
  BY <1>2, LogStep DEF Next, Quiet
<1>5. QED
  BY <1>1, <1>3, <1>4, OrderInvariant, SafeInvariant, PTL
  DEF Spec, Safety, Promise!LogSafety
-----------------------------------------------------------------------------
(* What it pays for its stops. *)
-----------------------------------------------------------------------------
(* No content the cursor file may have, now or after a power loss, leaves
   more than one line to replay, the empty file aside. *)
CostInv == \A d \in disk \cup {cursor} : d > 0 => Len(wal) <= d + 1

(* A synced line that the next recovery replays, whatever cursor it reads. *)
OnLineBeyond(v) == \E i \in 1..synced : wal[i] = v /\ \A d \in disk \cup {cursor} : d < i

(* The verdicts that a stop at this moment may cost, the one that is being
   published aside. *)
AtRisk == IF pc \in {"down", "replay"} THEN {v \in persisted \ Stored : ~OnLineBeyond(v)}
          ELSE IF pc = "publish" THEN (persisted \ Stored) \ {made}
          ELSE persisted \ Stored

(* The cursor is ahead of the lines, by the line that was cut. *)
Shifted == \/ pc \in {"idle", "append", "truncate", "write", "fsync"} /\ confirmed > Len(wal)
           \/ pc \in {"sync", "publish", "acked"} /\ confirmed >= Len(wal)

(* A cut line has not cost a verdict yet. *)
Owing == tail = "cut" \/ Shifted

(* What the process knows at each step, cut lines or not: it may be ahead of
   the lines of the WAL, but never behind. *)
AheadInv ==
  /\ pc \in {"idle", "append"} => disk = {cursor} /\ cursor = confirmed /\ confirmed >= Len(wal)
  /\ pc \in {"sync", "publish", "acked"} =>
       /\ disk = {cursor} /\ cursor = confirmed /\ confirmed + 1 >= Len(wal)
       /\ confirmed < Len(wal) => wal[Len(wal)] = made
  /\ pc \in {"sync", "publish"} => tail = "newline"
  /\ pc = "publish" => synced = Len(wal)
  /\ pc \in {"truncate", "write", "fsync"} => confirmed >= Len(wal)
  /\ pc = "fsync" => cursor = confirmed
  /\ pc = "replay" => /\ confirmed = cursor
                      /\ \A i \in 1..Len(wal) : cursor < i /\ i < line => wal[i] \in Stored

Debt    == Cardinality(AtRisk) + (IF Owing THEN 1 ELSE 0)
DebtInv == Debt <= Cardinality(Torn)
-----------------------------------------------------------------------------
(* The cost invariant holds through every step that cuts no line. *)
LEMMA CostStep ==
  ASSUME SafeInv, CostInv, [Next]_vars, ~TornWrite
  PROVE  CostInv'
<1> USE DEF SafeInv, TypeOK
<1>1. CASE AppendLine
  <2>1. wal' = Append(wal, made) /\ disk' = disk /\ cursor' = cursor
    BY <1>1 DEF AppendLine, CursorInv
  <2>2. Len(wal') = Len(wal) + 1 /\ disk = {cursor} /\ cursor = Len(wal) /\ Len(wal) \in Nat
    BY <1>1, <2>1 DEF AppendLine, ControlInv
  <2>3. QED
    BY <2>1, <2>2 DEF CostInv
<1>2. CASE PowerLoss
  <2>1. PICK n \in synced..Len(wal) : wal' = SubSeq(wal, 1, n)
    BY <1>2 DEF PowerLoss
  <2>2. Len(wal') <= Len(wal) /\ Len(wal') \in Nat /\ Len(wal) \in Nat
    BY <2>1
  <2>3. cursor' \in disk /\ disk' = {cursor'}
    BY <1>2 DEF PowerLoss
  <2>4. QED
    BY <2>2, <2>3 DEF CostInv
<1>3. CASE WriteCursor
  <2>1. /\ wal' = wal /\ cursor' = confirmed /\ disk' = disk \cup {confirmed}
        /\ confirmed = Len(wal)
    BY <1>3 DEF WriteCursor, ControlInv
  <2>2. QED
    BY <2>1 DEF CostInv
<1>4. CASE SyncCursor
  <2>1. /\ wal' = wal /\ cursor' = cursor /\ disk' = {confirmed} /\ confirmed = Len(wal)
    BY <1>4 DEF SyncCursor, ControlInv
  <2>2. QED
    BY <2>1 DEF CostInv
<1>5. CASE TruncateCursor
  BY <1>5 DEF TruncateCursor, CostInv
<1>6. CASE \/ Start \/ Replay \/ EndReplay \/ Submit \/ SyncWal \/ Publish \/ Confirm
           \/ Kill \/ PublishFails \/ UNCHANGED vars
  <2>1. UNCHANGED <<wal, cursor, disk>>
    BY <1>6 DEF Start, Replay, EndReplay, Submit, SyncWal, Publish, Confirm, Kill,
                PublishFails, Stop, files, vars
  <2>2. QED
    BY <2>1 DEF CostInv
<1>7. QED
  BY <1>1, <1>2, <1>3, <1>4, <1>5, <1>6 DEF Next, Step, Quiet

(* gateway.py:114, "The cursor also bounds recovery cost": recovery replays
   one line at most, unless the stop hit the rewrite of the cursor and left
   it empty, or a power loss cut a line. *)
THEOREM RecoveryIsCheap == Spec => []RecoveryCost
<1>1. Init => CostInv
  BY DEF Init, CostInv
<1>2. TypeOK /\ TypeOK' /\ TornInv /\ [Next]_vars
        /\ (Torn = {} => SafeInv) /\ (Torn = {} => CostInv)
        => (Torn = {} => CostInv)'
  BY CostStep, TornStep
<1>3. (Torn = {} => CostInv) => RecoveryCost
  BY DEF CostInv, RecoveryCost
<1>4. QED
  BY <1>1, <1>2, <1>3, TypeInvariant, CutLinesStay, SafeInvariant, PTL DEF Spec, Safety
-----------------------------------------------------------------------------
(* The sets that the debt counts are finite. *)
LEMMA CountedSets ==
  ASSUME TypeOK
  PROVE  /\ AtRisk \subseteq persisted /\ IsFiniteSet(persisted)
         /\ IsFiniteSet(AtRisk) /\ Cardinality(AtRisk) \in Nat
         /\ IsFiniteSet(Torn) /\ Cardinality(Torn) \in Nat
<1>1. IsFiniteSet(Lines)
  BY LinesAre, OutboxAssumption, FS_Interval
<1>2. IsFiniteSet(persisted)
  BY <1>1, FS_Subset DEF TypeOK
<1>3. AtRisk \subseteq persisted
  BY DEF AtRisk
<1>4. IsFiniteSet(AtRisk)
  BY <1>2, <1>3, FS_Subset
<1>5. Torn \subseteq 1..Len(wal) /\ Len(wal) \in Int
  BY DEF Torn, TypeOK
<1>6. IsFiniteSet(Torn)
  <2>1. IsFiniteSet(1..Len(wal))
    BY <1>5, FS_Interval
  <2>2. QED
    BY <1>5, <2>1, FS_Subset
<1>7. QED
  BY <1>2, <1>3, <1>4, <1>6, FS_CardinalityType

(* A step that puts nothing at risk and shifts nothing keeps the bound. *)
LEMMA DebtFrame ==
  ASSUME TypeOK, TypeOK', DebtInv, Torn' = Torn,
         AtRisk' \subseteq AtRisk, Owing' => Owing
  PROVE  DebtInv'
<1>1. Cardinality(AtRisk') <= Cardinality(AtRisk)
  BY CountedSets, FS_Subset
<1>2. Cardinality(AtRisk) \in Nat /\ Cardinality(Torn) \in Nat
  BY CountedSets
<1>3. Cardinality(AtRisk') \in Nat
  BY CountedSets, FS_Subset, FS_CardinalityType
<1>4. QED
  BY <1>1, <1>2, <1>3 DEF DebtInv, Debt

(* A debt is paid with one verdict. *)
LEMMA DebtPaid ==
  ASSUME TypeOK, TypeOK', DebtInv, Torn' = Torn,
         NEW v, AtRisk' \subseteq AtRisk \cup {v}, Owing, ~Owing'
  PROVE  DebtInv'
<1>1. /\ IsFiniteSet(AtRisk \cup {v})
      /\ Cardinality(AtRisk \cup {v}) <= Cardinality(AtRisk) + 1
  <2>1. IsFiniteSet(AtRisk) /\ Cardinality(AtRisk) \in Nat
    BY CountedSets
  <2>2. /\ IsFiniteSet(AtRisk \cup {v})
        /\ Cardinality(AtRisk \cup {v}) =
             IF v \in AtRisk THEN Cardinality(AtRisk) ELSE Cardinality(AtRisk) + 1
    BY <2>1, FS_AddElement
  <2>3. QED
    BY <2>1, <2>2
<1>2. Cardinality(AtRisk') <= Cardinality(AtRisk \cup {v})
  BY <1>1, FS_Subset
<1>3. Cardinality(AtRisk) \in Nat /\ Cardinality(Torn) \in Nat
  BY CountedSets
<1>4. Cardinality(AtRisk \cup {v}) \in Nat
  BY <1>1, FS_CardinalityType
<1>5. Cardinality(AtRisk') \in Nat
  BY <1>1, FS_Subset, FS_CardinalityType
<1>6. QED
  BY <1>1, <1>2, <1>3, <1>4, <1>5 DEF DebtInv, Debt

(* A cut makes a debt, and one line more that is cut. *)
LEMMA DebtMade ==
  ASSUME TypeOK, TypeOK', DebtInv,
         NEW i, i \notin Torn, Torn' = Torn \cup {i}, AtRisk' \subseteq AtRisk
  PROVE  DebtInv'
<1>1. Cardinality(Torn') = Cardinality(Torn) + 1
  BY CountedSets, FS_AddElement
<1>2. Cardinality(AtRisk') <= Cardinality(AtRisk)
  BY CountedSets, FS_Subset
<1>3. Cardinality(AtRisk) \in Nat /\ Cardinality(Torn) \in Nat
  BY CountedSets
<1>4. Cardinality(AtRisk') \in Nat
  BY CountedSets, FS_Subset, FS_CardinalityType
<1>5. QED
  BY <1>1, <1>2, <1>3, <1>4 DEF DebtInv, Debt
-----------------------------------------------------------------------------
(* The stream only grows. *)
LEMMA StoredGrows ==
  ASSUME TypeOK, [Next]_vars
  PROVE  Stored \subseteq Stored'
<1> USE DEF TypeOK
<1>1. \/ stream' = stream
      \/ stream' = Append(stream, made)
      \/ line \in 1..Len(wal) /\ stream' = Append(stream, wal[line])
  BY DEF Next, Step, Quiet, vars, files, Stop, Start, Replay, EndReplay, Submit, AppendLine,
         SyncWal, Publish, Confirm, TruncateCursor, WriteCursor, SyncCursor, Kill,
         PublishFails, PowerLoss, TornWrite
<1>2. made \in Lines /\ (line \in 1..Len(wal) => wal[line] \in Lines)
  BY LinesAre, ElementOfSeq
<1>3. CASE stream' = stream
  BY <1>3 DEF Stored
<1>4. CASE stream' # stream
  <2>1. PICK v \in Lines : stream' = Append(stream, v)
    BY <1>1, <1>2, <1>4
  <2>2. QED
    BY <2>1, StoredAppend
<1>5. QED
  BY <1>3, <1>4

(* The process is never behind the lines of the WAL. *)
LEMMA AheadStep ==
  ASSUME TypeOK, TypeOK', AheadInv, [Next]_vars
  PROVE  AheadInv'
<1> USE DEF TypeOK
<1>1. CASE Start
  BY <1>1 DEF Start, files, AheadInv
<1>2. CASE Replay
  <2>1. /\ stream' = Append(stream, wal[line]) /\ line' = line + 1 /\ pc' = "replay"
        /\ line \in 1..Len(wal) /\ pc = "replay"
        /\ UNCHANGED <<wal, cursor, confirmed>>
    BY <1>2 DEF Replay, files
  <2>2. Stored' = Stored \cup {wal[line]}
    <3>1. wal[line] \in Lines
      BY <2>1, ElementOfSeq
    <3>2. QED
      BY <2>1, <3>1, StoredAppend
  <2>3. ASSUME NEW i \in 1..Len(wal), cursor < i, i < line + 1
        PROVE  wal[i] \in Stored'
    <3>1. CASE i = line
      BY <2>2, <3>1
    <3>2. CASE i < line
      BY <2>1, <2>2, <2>3, <3>2 DEF AheadInv
    <3>3. QED
      BY <2>3, <3>1, <3>2
  <2>4. QED
    BY <2>1, <2>3 DEF AheadInv
<1>3. CASE EndReplay
  BY <1>3 DEF EndReplay, files, AheadInv
<1>4. CASE Submit
  BY <1>4 DEF Submit, files, memory, AheadInv
<1>5. CASE AppendLine
  <2>1. /\ disk = {cursor} /\ cursor = confirmed /\ confirmed >= Len(wal) /\ pc' = "sync"
        /\ UNCHANGED <<disk, cursor, confirmed, made>>
    BY <1>5 DEF AppendLine, memory, AheadInv
  <2>2. CASE tail = "cut"
    <3>1. Len(wal) \in 1..Len(wal) /\ Garbage \in Lines
      BY <2>2 DEF Garbage, Lines
    <3>2. Len(wal') = Len(wal) /\ Len(wal) \in Nat
      BY <1>5, <2>2, <3>1, ExceptSeq DEF AppendLine
    <3>3. tail' = "newline"
      BY <1>5 DEF AppendLine
    <3>4. QED
      BY <2>1, <3>2, <3>3 DEF AheadInv
  <2>3. CASE tail # "cut"
    <3>1. wal' = Append(wal, made) /\ made \in Lines
      BY <1>5, <2>3, LinesAre DEF AppendLine
    <3>2. Len(wal') = Len(wal) + 1 /\ Len(wal) \in Nat /\ wal'[Len(wal')] = made
      BY <3>1
    <3>3. tail' = "newline"
      BY <1>5 DEF AppendLine
    <3>4. QED
      BY <2>1, <3>2, <3>3 DEF AheadInv
  <2>4. QED
    BY <2>2, <2>3
<1>6. CASE SyncWal
  BY <1>6 DEF SyncWal, memory, AheadInv
<1>7. CASE Publish
  BY <1>7 DEF Publish, memory, files, AheadInv
<1>8. CASE Confirm
  BY <1>8 DEF Confirm, files, AheadInv
<1>9. CASE TruncateCursor
  BY <1>9 DEF TruncateCursor, memory, AheadInv
<1>10. CASE WriteCursor
  BY <1>10 DEF WriteCursor, memory, AheadInv
<1>11. CASE SyncCursor
  BY <1>11 DEF SyncCursor, memory, AheadInv
<1>12. CASE Kill \/ PublishFails \/ PowerLoss \/ TornWrite
  <2>1. pc' = "down"
    BY <1>12 DEF Kill, PublishFails, PowerLoss, TornWrite, Stop
  <2>2. QED
    BY <2>1 DEF AheadInv
<1>13. CASE UNCHANGED vars
  BY <1>13 DEF vars, files, memory, AheadInv, Stored
<1>14. QED
  BY <1>1, <1>2, <1>3, <1>4, <1>5, <1>6, <1>7, <1>8, <1>9, <1>10, <1>11, <1>12, <1>13
  DEF Next, Step, Quiet

(* Steps of the process that leave the WAL file alone: what is at risk only
   gets less, and the cursor is shifted afterwards if it was before. *)
LEMMA DebtControl ==
  ASSUME TypeOK, TypeOK', AheadInv, DebtInv,
         \/ Start \/ Replay \/ EndReplay \/ Submit \/ SyncWal \/ Publish \/ Confirm
         \/ TruncateCursor \/ WriteCursor \/ SyncCursor \/ UNCHANGED vars
  PROVE  DebtInv'
<1> USE DEF TypeOK
<1>1. UNCHANGED <<wal, tail>>
  BY DEF Start, Replay, EndReplay, Submit, SyncWal, Publish, Confirm, TruncateCursor,
         WriteCursor, SyncCursor, files, vars
<1>2. Torn' = Torn
  BY <1>1 DEF Torn
<1>3. Stored \subseteq Stored'
  BY StoredGrows DEF Next, Step
<1>4. Shifted' => Shifted
  BY <1>1 DEF Start, Replay, EndReplay, Submit, SyncWal, Publish, Confirm, TruncateCursor,
              WriteCursor, SyncCursor, memory, vars, Shifted
<1>5. AtRisk' \subseteq AtRisk
  <2>1. CASE Start
    <3>1. /\ pc = "down" /\ pc' = "replay"
          /\ UNCHANGED <<stream, persisted, wal, synced, disk, cursor>>
      BY <2>1 DEF Start, files
    <3>2. QED
      BY <3>1 DEF AtRisk, OnLineBeyond, Stored
  <2>2. CASE Replay
    <3>1. pc = "replay" /\ pc' = "replay" /\ UNCHANGED <<persisted, wal, synced, disk, cursor>>
      BY <2>2 DEF Replay, files
    <3>2. QED
      BY <1>3, <3>1 DEF AtRisk, OnLineBeyond
  <2>3. CASE EndReplay
    <3>1. /\ pc = "replay" /\ pc' = "truncate" /\ line > Len(wal)
          /\ UNCHANGED <<stream, persisted, wal, synced, disk, cursor>>
      BY <2>3 DEF EndReplay, files
    <3>2. ASSUME NEW v \in persisted, v \notin Stored PROVE ~OnLineBeyond(v)
      <4>1. ASSUME NEW i \in 1..synced, wal[i] = v, cursor < i PROVE FALSE
        BY <3>1, <3>2, <4>1 DEF AheadInv
      <4>2. QED
        BY <4>1 DEF OnLineBeyond
    <3>3. Stored' = Stored
      BY <3>1 DEF Stored
    <3>4. QED
      BY <3>1, <3>2, <3>3 DEF AtRisk
  <2>4. CASE SyncWal
    <3>1. /\ pc = "sync" /\ pc' = "publish" /\ persisted' = persisted \cup {made}
          /\ made' = made /\ stream' = stream
      BY <2>4 DEF SyncWal
    <3>2. QED
      BY <3>1 DEF AtRisk, Stored
  <2>5. CASE Publish
    <3>1. /\ pc = "publish" /\ pc' = "acked" /\ persisted' = persisted
          /\ stream' = Append(stream, made)
      BY <2>5 DEF Publish
    <3>2. Stored' = Stored \cup {made}
      BY <3>1, LinesAre, StoredAppend
    <3>3. QED
      BY <3>1, <3>2 DEF AtRisk
  <2>6. CASE Submit \/ Confirm \/ TruncateCursor \/ WriteCursor \/ SyncCursor
    <3>1. /\ pc \notin {"down", "replay", "publish"} /\ pc' \notin {"down", "replay", "publish"}
          /\ UNCHANGED <<stream, persisted>>
      BY <2>6 DEF Submit, Confirm, TruncateCursor, WriteCursor, SyncCursor
    <3>2. QED
      BY <3>1 DEF AtRisk, Stored
  <2>7. CASE UNCHANGED vars
    BY <2>7 DEF vars, files, AtRisk, OnLineBeyond, Stored
  <2>8. QED
    BY <2>1, <2>2, <2>3, <2>4, <2>5, <2>6, <2>7
<1>6. QED
  BY <1>1, <1>2, <1>4, <1>5, DebtFrame DEF Owing

(* A new line: glued to a cut one, it takes over the debt. *)
LEMMA DebtAppend ==
  ASSUME TypeOK, TypeOK', TornInv, AheadInv, DebtInv, AppendLine
  PROVE  DebtInv'
<1> USE DEF TypeOK
<1>1. /\ pc = "append" /\ pc' = "sync" /\ tail' = "newline" /\ made # Garbage
      /\ UNCHANGED <<confirmed, stream, persisted>>
      /\ confirmed >= Len(wal)
  BY DEF AppendLine, memory, TornInv, AheadInv, Garbage
<1>2. AtRisk' \subseteq AtRisk
  BY <1>1 DEF AtRisk, Stored
<1>3. CASE tail = "cut"
  <2>1. wal' = [wal EXCEPT ![Len(wal)] = Garbage] /\ Len(wal) \in Torn
    BY <1>3 DEF AppendLine, TornInv
  <2>2. DOMAIN wal' = DOMAIN wal /\ \A i \in DOMAIN wal :
           wal'[i] = IF i = Len(wal) THEN Garbage ELSE wal[i]
    BY <2>1
  <2>3. Torn' = Torn
    BY <2>1, <2>2 DEF Torn
  <2>4. QED
    BY <1>2, <1>3, <2>3, DebtFrame DEF Owing
<1>4. CASE tail # "cut"
  <2>1. wal' = Append(wal, made)
    BY <1>4 DEF AppendLine
  <2>2. /\ DOMAIN wal = 1..Len(wal) /\ DOMAIN wal' = 1..(Len(wal) + 1)
        /\ Len(wal) \in Nat /\ wal'[Len(wal) + 1] = made /\ Len(wal') = Len(wal) + 1
        /\ \A i \in 1..Len(wal) : wal'[i] = wal[i]
    BY <2>1
  <2>3. Torn' = Torn
    BY <1>1, <2>2 DEF Torn
  <2>4. Owing' => Owing
    BY <1>1, <2>2 DEF Owing, Shifted
  <2>5. QED
    BY <1>2, <2>3, <2>4, DebtFrame
<1>5. QED
  BY <1>3, <1>4

(* A stop that cuts no line leaves the synced lines that the next recovery
   replays, and the lines that were cut. *)
LEMMA LinesSurvive ==
  ASSUME TypeOK, TornInv, Kill \/ PublishFails \/ PowerLoss
  PROVE  /\ Torn' = Torn
         /\ tail' = "cut" => tail = "cut"
         /\ \A v : OnLineBeyond(v) => OnLineBeyond(v)'
<1> USE DEF TypeOK
<1>1. CASE Kill \/ PublishFails
  <2>1. UNCHANGED files
    BY <1>1 DEF Kill, PublishFails
  <2>2. QED
    BY <2>1 DEF files, Torn, OnLineBeyond
<1>2. CASE PowerLoss
  <2>1. PICK n \in synced..Len(wal) :
           /\ wal' = SubSeq(wal, 1, n) /\ synced' = n
           /\ tail' = IF n = Len(wal) THEN tail ELSE "newline"
    BY <1>2 DEF PowerLoss
  <2>2. /\ Len(wal') = n /\ n <= Len(wal) /\ n \in Nat /\ synced <= n /\ synced \in Nat
        /\ DOMAIN wal = 1..Len(wal) /\ DOMAIN wal' = 1..n
        /\ \A i \in 1..n : wal'[i] = wal[i]
    BY <2>1
  <2>3. Torn' = Torn
    <3>1. Torn \subseteq 1..n
      BY <2>2 DEF TornInv
    <3>2. \A i : i \in Torn <=> i \in Torn'
      BY <2>2, <3>1 DEF Torn
    <3>3. QED
      BY <3>2
  <2>4. cursor' \in disk /\ disk' = {cursor'}
    BY <1>2 DEF PowerLoss
  <2>5. ASSUME NEW v, OnLineBeyond(v) PROVE OnLineBeyond(v)'
    <3>1. PICK i \in 1..synced : wal[i] = v /\ \A d \in disk \cup {cursor} : d < i
      BY <2>5 DEF OnLineBeyond
    <3>2. i \in 1..n
      BY <2>2, <3>1
    <3>3. i \in 1..synced' /\ wal'[i] = v
      BY <2>1, <2>2, <3>1, <3>2
    <3>4. QED
      BY <2>4, <3>1, <3>3 DEF OnLineBeyond
  <2>6. QED
    BY <2>1, <2>3, <2>5
<1>3. QED
  BY <1>1, <1>2

(* A stop puts at risk at most the verdict whose publish it hit, and that
   only while the cursor is shifted. *)
LEMMA DebtStop ==
  ASSUME TypeOK, TypeOK', TornInv, AheadInv, DebtInv, Kill \/ PublishFails \/ PowerLoss
  PROVE  DebtInv'
<1> USE DEF TypeOK
<1>1. /\ Torn' = Torn
      /\ tail' = "cut" => tail = "cut"
      /\ \A v : OnLineBeyond(v) => OnLineBeyond(v)'
  BY LinesSurvive
<1>2. pc' = "down" /\ UNCHANGED <<persisted, made>> /\ ~Shifted'
  BY DEF Kill, PublishFails, PowerLoss, Stop, Shifted
<1>3. Owing' => Owing
  BY <1>1, <1>2 DEF Owing
<1>4. Stored \subseteq Stored'
  BY StoredGrows DEF Next
<1>5. AtRisk' \subseteq {v \in persisted \ Stored : ~OnLineBeyond(v)}
  BY <1>1, <1>2, <1>4 DEF AtRisk
<1>6. CASE pc # "publish"
  <2>1. AtRisk' \subseteq AtRisk
    BY <1>5, <1>6 DEF AtRisk
  <2>2. QED
    BY <1>1, <1>3, <2>1, DebtFrame
<1>7. CASE pc = "publish" /\ confirmed < Len(wal)
  <2>1. /\ wal[Len(wal)] = made /\ synced = Len(wal) /\ disk = {cursor} /\ cursor = confirmed
    BY <1>7 DEF AheadInv
  <2>2. Len(wal) \in 1..synced
    BY <1>7, <2>1
  <2>3. OnLineBeyond(made)
    BY <1>7, <2>1, <2>2 DEF OnLineBeyond
  <2>4. AtRisk' \subseteq AtRisk
    BY <1>5, <1>7, <2>3 DEF AtRisk
  <2>5. QED
    BY <1>1, <1>3, <2>4, DebtFrame
<1>8. CASE pc = "publish" /\ confirmed >= Len(wal)
  <2>1. Owing
    BY <1>8 DEF Owing, Shifted
  <2>2. AtRisk' \subseteq AtRisk \cup {made}
    BY <1>5, <1>8 DEF AtRisk
  <2>3. ~Owing'
    BY <1>1, <1>2, <1>8 DEF Owing, AheadInv
  <2>4. QED
    BY <1>1, <2>1, <2>2, <2>3, DebtPaid
<1>9. QED
  BY <1>6, <1>7, <1>8

(* A cut line is a line more in Torn, and puts no verdict at risk: the one
   that was being written had not passed step (1). *)
LEMMA DebtCut ==
  ASSUME TypeOK, TypeOK', TornInv, AheadInv, DebtInv, TornWrite
  PROVE  DebtInv'
<1> USE DEF TypeOK
<1>1. /\ wal' = [wal EXCEPT ![Len(wal)] = Garbage] /\ synced < Len(wal)
      /\ pc = "sync" /\ pc' = "down" /\ UNCHANGED <<persisted, stream>>
  BY DEF TornWrite, Stop
<1>2. /\ DOMAIN wal = 1..Len(wal) /\ Len(wal) \in Nat /\ Len(wal) \in 1..Len(wal)
      /\ DOMAIN wal' = 1..Len(wal)
      /\ \A i \in 1..Len(wal) : wal'[i] = IF i = Len(wal) THEN Garbage ELSE wal[i]
  BY <1>1
<1>3. Len(wal) \notin Torn
  BY <1>1 DEF TornInv
<1>4. Torn' = Torn \cup {Len(wal)}
  BY <1>2 DEF Torn
<1>5. AtRisk' \subseteq AtRisk
  BY <1>1 DEF AtRisk, Stored
<1>6. QED
  BY <1>3, <1>4, <1>5, DebtMade

(* The debt never exceeds the lines that were cut. *)
THEOREM DebtInvariant == Safety => [](AheadInv /\ DebtInv)
<1>1. Init => AheadInv /\ DebtInv
  <2> SUFFICES ASSUME Init PROVE AheadInv /\ DebtInv
    OBVIOUS
  <2>1. AtRisk = {} /\ Torn = {} /\ ~Owing
    BY DEF Init, AtRisk, Torn, Owing, Shifted
  <2>2. DebtInv
    BY <2>1, FS_EmptySet DEF DebtInv, Debt
  <2>3. QED
    BY <2>2 DEF Init, AheadInv
<1>2. TypeOK /\ TypeOK' /\ TornInv /\ AheadInv /\ DebtInv /\ [Next]_vars => (AheadInv /\ DebtInv)'
  <2> SUFFICES ASSUME TypeOK, TypeOK', TornInv, AheadInv, DebtInv, [Next]_vars
               PROVE  AheadInv' /\ DebtInv'
    OBVIOUS
  <2>1. AheadInv'
    BY AheadStep
  <2>2. DebtInv'
    BY DebtControl, DebtAppend, DebtStop, DebtCut DEF Next, Step, Quiet
  <2>3. QED
    BY <2>1, <2>2
<1>3. QED
  BY <1>1, <1>2, TypeInvariant, CutLinesStay, PTL DEF Safety

(* Whatever stops the outbox, it loses one verdict at most for each WAL line
   that a power loss cut. *)
THEOREM CutsBoundTheLosses == Spec => []LossesAreTorn
<1>1. TypeOK /\ AheadInv /\ DebtInv => LossesAreTorn
  <2> SUFFICES ASSUME TypeOK, AheadInv, DebtInv PROVE LossesAreTorn
    OBVIOUS
  <2> DEFINE gone == persisted \ (Stored \cup Unconfirmed)
  <2>1. /\ IsFiniteSet(AtRisk) /\ Cardinality(AtRisk) \in Nat /\ Cardinality(Torn) \in Nat
        /\ IsFiniteSet(persisted)
    BY CountedSets
  <2>2. ASSUME gone \subseteq AtRisk
        PROVE  Cardinality(gone) <= Cardinality(Torn)
    <3>1. Cardinality(gone) <= Cardinality(AtRisk) /\ Cardinality(gone) \in Nat
      BY <2>1, <2>2, FS_Subset, FS_CardinalityType
    <3>2. QED
      BY <2>1, <3>1 DEF DebtInv, Debt
  <2>3. ASSUME gone \subseteq AtRisk \cup {made}, Owing
        PROVE  Cardinality(gone) <= Cardinality(Torn)
    <3>1. /\ IsFiniteSet(AtRisk \cup {made})
          /\ Cardinality(AtRisk \cup {made}) \in {Cardinality(AtRisk), Cardinality(AtRisk) + 1}
      BY <2>1, FS_AddElement
    <3>2. Cardinality(gone) <= Cardinality(AtRisk \cup {made}) /\ Cardinality(gone) \in Nat
      BY <2>3, <3>1, FS_Subset, FS_CardinalityType
    <3>3. QED
      BY <2>1, <2>3, <3>1, <3>2 DEF DebtInv, Debt
  <2>4. \A v : OnLineBeyond(v) => v \in Unconfirmed
    <3> SUFFICES ASSUME NEW v, OnLineBeyond(v) PROVE v \in Unconfirmed
      OBVIOUS
    <3>1. PICK i \in 1..synced : wal[i] = v /\ cursor < i
      BY DEF OnLineBeyond
    <3>2. i \in (cursor + 1)..Len(wal)
      BY <3>1 DEF TypeOK
    <3>3. QED
      BY <3>1, <3>2 DEF Unconfirmed
  <2>5. CASE pc # "publish"
    <3>1. gone \subseteq AtRisk
      BY <2>4, <2>5 DEF AtRisk
    <3>2. QED
      BY <2>2, <3>1 DEF LossesAreTorn
  <2>6. CASE pc = "publish"
    <3>1. gone \subseteq AtRisk \cup {made}
      BY <2>6 DEF AtRisk
    <3>2. CASE Owing
      BY <2>3, <3>1, <3>2 DEF LossesAreTorn
    <3>3. CASE ~Owing
      <4>1. confirmed < Len(wal) /\ synced = Len(wal)
        BY <2>6, <3>3 DEF Owing, Shifted, AheadInv, TypeOK
      <4>2. wal[Len(wal)] = made /\ cursor = confirmed /\ disk = {cursor}
        BY <2>6, <4>1 DEF AheadInv
      <4>3. Len(wal) \in 1..synced
        BY <4>1 DEF TypeOK
      <4>4. OnLineBeyond(made)
        BY <4>1, <4>2, <4>3 DEF OnLineBeyond
      <4>5. gone \subseteq AtRisk
        BY <2>4, <3>1, <4>4
      <4>6. QED
        BY <2>2, <4>5 DEF LossesAreTorn
    <3>4. QED
      BY <3>2, <3>3
  <2>7. QED
    BY <2>5, <2>6
<1>2. QED
  BY <1>1, DebtInvariant, TypeInvariant, PTL DEF Spec
-----------------------------------------------------------------------------
(* The relay to the backend. *)
-----------------------------------------------------------------------------
(* What the outbox guarantees here, where no power loss cuts a line. *)
OutboxInv == Torn = {} /\ SafeInv /\ OrderInv

(* The stream holds verdicts and nothing else. *)
StreamIsMade == \A i \in DOMAIN stream : stream[i] \in 1..made

GatewayInv ==
  /\ queue \in Seq(Devices) /\ todo \in Seq(Devices)
  /\ seq \in [Devices -> 0..made]
  /\ eid \in Seq(Devices \X Nat) /\ Len(eid) = made

(* Until the gateway stops, the counters are ahead of the ids they gave. *)
IdsInv ==
  stops = 0 => /\ \A v \in 1..made : eid[v][2] < seq[eid[v][1]]
               /\ \A v, w \in 1..made : eid[v] = eid[w] => v = w

(* The messages that the drain has worked off, acknowledged or not. *)
Handled == IF drainPc = "ack" THEN acked + 1 ELSE acked

(* The backend remembers the ids of what it fed in this run, and of nothing
   else; what it worked off was fed or had been seen. *)
BackendInv ==
  /\ drainPc \in {"wait", "ack", "down"}
  /\ acked \in Nat /\ Handled <= Len(stream)
  /\ backendStops \in Nat
  /\ feeds \in Seq([verdict : Nat, run : Nat])
  /\ \A i \in DOMAIN feeds : feeds[i].verdict \in 1..made /\ feeds[i].run <= backendStops
  /\ \A i \in DOMAIN feeds : feeds[i].run = backendStops => eid[feeds[i].verdict] \in seen
  /\ \A x \in seen : \E v \in Fed : eid[v] = x
  /\ \A i \in 1..Handled : stream[i] \in Fed \cup swallowed
  /\ swallowed \subseteq 1..made

(* In its first run the backend remembers all it worked off, so what it feeds
   is the first copy. *)
FirstRunInv ==
  backendStops = 0 =>
    /\ \A k \in 1..Handled : eid[stream[k]] \in seen
    /\ \A i \in DOMAIN feeds :
         \E k \in 1..Handled : FirstCopy(k) /\ stream[k] = feeds[i].verdict
-----------------------------------------------------------------------------
(* A step of the relay is a step of the outbox that is no power loss, or
   leaves the outbox alone. *)
LEMMA RelayStep ==
  ASSUME [RelayNext]_relayVars
  PROVE  Step \/ Submit \/ Kill \/ PublishFails \/ UNCHANGED vars
<1>1. CASE UNCHANGED relayVars
  BY <1>1 DEF relayVars
<1>2. CASE Emit \/ OutboxStep \/ GatewayStops
  BY <1>2 DEF Emit, OutboxStep, GatewayStops
<1>3. CASE \/ \E d \in Devices : Arrive(d)
           \/ TakeEvent \/ Consume \/ Ack \/ BackendStarts \/ BackendStops
  BY <1>3 DEF Arrive, TakeEvent, Consume, Ack, BackendStarts, BackendStops
<1>4. CASE RelayQuiet
  BY <1>1, <1>4 DEF RelayQuiet
<1>5. QED
  BY <1>1, <1>2, <1>3, <1>4 DEF RelayNext, GatewayNext, BackendNext

(* Only TornWrite cuts a line. *)
LEMMA RelayCutsNothing ==
  ASSUME TypeOK, Step \/ Submit \/ Kill \/ PublishFails \/ UNCHANGED vars
  PROVE  [Next]_vars /\ ~TornWrite
<1>1. [Next]_vars
  BY DEF Next
<1>2. CASE Step \/ Submit
  <2>1. pc' # "down"
    BY <1>2 DEF Step, Submit, Start, Replay, EndReplay, AppendLine, SyncWal, Publish,
                Confirm, TruncateCursor, WriteCursor, SyncCursor
  <2>2. QED
    BY <1>1, <2>1 DEF TornWrite, Stop
<1>3. CASE Kill \/ PublishFails \/ UNCHANGED vars
  <2>1. synced' = synced /\ synced \in Nat
    BY <1>3 DEF Kill, PublishFails, files, vars, TypeOK
  <2>2. QED
    BY <1>1, <2>1 DEF TornWrite, TypeOK
<1>4. QED
  BY <1>2, <1>3

(* The relay is an outbox with something around it. *)
THEOREM RelayIsAnOutbox == RelaySpec => Safety
<1>1. RelayInit => Init
  BY DEF RelayInit
<1>2. [RelayNext]_relayVars => [Next]_vars
  BY RelayStep DEF Next
<1>3. QED
  BY <1>1, <1>2, PTL DEF RelaySpec, Safety

(* What is proved of the outbox holds in the relay, without the condition on
   cut lines. *)
THEOREM OutboxHolds == RelaySpec => []OutboxInv
<1>1. RelayInit => Torn = {}
  BY DEF RelayInit, Init, Torn
<1>2. TypeOK /\ TypeOK' /\ TornInv /\ Torn = {} /\ [RelayNext]_relayVars => (Torn = {})'
  BY RelayStep, RelayCutsNothing, TornStep
<1>3. Torn = {} /\ (Torn = {} => SafeInv) /\ (Torn = {} => OrderInv) => OutboxInv
  BY DEF OutboxInv
<1>4. QED
  BY <1>1, <1>2, <1>3, RelayIsAnOutbox, TypeInvariant, CutLinesStay, SafeInvariant,
     OrderInvariant, PTL DEF RelaySpec

(* The relay log is implemented by the gateway at work: its event loop, its
   event ids and its stops included, whatever the backend does. *)
THEOREM RelayImplementsRelayLog == RelaySpec => Promise!LogSafety
<1>1. RelayInit => Promise!LogInit
  BY DEF RelayInit, Init, Promise!LogInit, Stored
<1>2. OutboxInv /\ [RelayNext]_relayVars => [Promise!LogNext]_Promise!logVars
  BY RelayStep, LogStep DEF OutboxInv
<1>3. QED
  BY <1>1, <1>2, OutboxHolds, PTL DEF RelaySpec, Promise!LogSafety
-----------------------------------------------------------------------------
(* Messages stay where they are in the stream. *)
LEMMA StreamExtends ==
  ASSUME OutboxInv, [RelayNext]_relayVars
  PROVE  /\ Len(stream) \in Nat /\ Len(stream') \in Nat /\ Len(stream) <= Len(stream')
         /\ DOMAIN stream = 1..Len(stream)
         /\ \A i \in 1..Len(stream) : stream'[i] = stream[i]
<1>1. stream \in Seq(Lines) /\ TypeOK
  BY DEF OutboxInv, SafeInv, TypeOK
<1>2. \/ stream' = stream
      \/ \E n \in 1..Len(wal) : stream' = Append(stream, wal[n])
  <2>1. CASE Publish \/ Replay \/ PublishFails
    BY <2>1, PublishesALine DEF OutboxInv
  <2>2. CASE ~(Publish \/ Replay \/ PublishFails)
    BY <2>2, RelayStep DEF Step, Submit, Start, EndReplay, AppendLine, SyncWal, Confirm,
            TruncateCursor, WriteCursor, SyncCursor, Kill, vars
  <2>3. QED
    BY <2>1, <2>2
<1>3. \A n \in 1..Len(wal) : wal[n] \in Lines
  BY <1>1, ElementOfSeq DEF TypeOK
<1>4. CASE stream' = stream
  BY <1>1, <1>4
<1>5. CASE \E v \in Lines : stream' = Append(stream, v)
  BY <1>1, <1>5
<1>6. QED
  BY <1>2, <1>3, <1>4, <1>5

(* Verdicts are made one at a time, by Emit. *)
LEMMA MadeGrows ==
  ASSUME TypeOK, [RelayNext]_relayVars
  PROVE  /\ made \in Nat
         /\ \/ Emit /\ made' = made + 1 /\ UNCHANGED <<stream, stops>>
            \/ made' = made /\ UNCHANGED eid
<1>1. CASE Emit
  BY <1>1 DEF Emit, Submit, TypeOK
<1>2. CASE OutboxStep
  BY <1>2 DEF OutboxStep, gatewayVars, TypeOK, Step, Start, Replay, EndReplay, AppendLine,
              SyncWal, Publish, Confirm, TruncateCursor, WriteCursor, SyncCursor
<1>3. CASE GatewayStops
  BY <1>3 DEF GatewayStops, Kill, PublishFails, Stop, TypeOK
<1>4. CASE \/ \E d \in Devices : Arrive(d)
           \/ TakeEvent \/ Consume \/ Ack \/ BackendStarts \/ BackendStops
  BY <1>4 DEF Arrive, TakeEvent, Consume, Ack, BackendStarts, BackendStops, gatewayVars,
              vars, TypeOK
<1>5. CASE UNCHANGED relayVars
  BY <1>5 DEF relayVars, gatewayVars, vars, TypeOK
<1>6. QED
  BY <1>1, <1>2, <1>3, <1>4, <1>5 DEF RelayNext, GatewayNext, BackendNext, RelayQuiet

(* No line that does not decode reaches the stream. *)
THEOREM StreamHoldsVerdicts == RelaySpec => []StreamIsMade
<1>1. RelayInit => StreamIsMade
  BY DEF RelayInit, Init, StreamIsMade
<1>2. OutboxInv /\ OutboxInv' /\ StreamIsMade /\ [RelayNext]_relayVars => StreamIsMade'
  <2> SUFFICES ASSUME OutboxInv, OutboxInv', StreamIsMade, [RelayNext]_relayVars,
                      NEW i \in DOMAIN stream'
               PROVE  stream'[i] \in 1..made'
    BY DEF StreamIsMade
  <2>1. stream'[i] <= made'
    BY DEF OutboxInv, OrderInv, StreamOrdered, Stored
  <2>2. stream'[i] \in Lines /\ made' \in Nat
    BY OutboxAssumption DEF OutboxInv, SafeInv, TypeOK
  <2>3. stream'[i] # Garbage
    <3>1. CASE i \in 1..Len(stream)
      BY <3>1, StreamExtends DEF StreamIsMade, Garbage
    <3>2. CASE i \notin 1..Len(stream)
      <4>1. Publish \/ Replay \/ PublishFails
        <5>1. stream' # stream
          BY <3>2, StreamExtends
        <5>2. QED
          BY <5>1, RelayStep DEF Step, Submit, Start, EndReplay, AppendLine, SyncWal, Confirm,
             TruncateCursor, WriteCursor, SyncCursor, Kill, vars
      <4>2. PICK n \in 1..Len(wal) : stream' = Append(stream, wal[n])
        BY <3>2, <4>1, StreamExtends, PublishesALine DEF OutboxInv
      <4>3. stream \in Seq(Lines) /\ wal[n] \in Lines /\ n \in DOMAIN wal
        BY ElementOfSeq DEF OutboxInv, SafeInv, TypeOK
      <4>4. stream'[i] = wal[n]
        BY <3>2, <4>2, <4>3
      <4>5. QED
        BY <4>3, <4>4 DEF OutboxInv, Torn
    <3>3. QED
      BY <3>1, <3>2
  <2>4. QED
    BY <2>1, <2>2, <2>3, LinesAre, OutboxAssumption DEF Garbage
<1>3. QED
  BY <1>1, <1>2, OutboxHolds, PTL DEF RelaySpec
-----------------------------------------------------------------------------
(* Emit gives the verdict it makes the next id of its device. *)
LEMMA EmitsAnId ==
  ASSUME TypeOK, GatewayInv, Emit
  PROVE  \E d \in Devices :
           /\ eid' \in Seq(Devices \X Nat) /\ Len(eid') = made + 1 /\ made' = made + 1
           /\ eid'[made + 1] = <<d, seq[d]>>
           /\ \A v \in 1..made : eid'[v] = eid[v] /\ eid[v] \in Devices \X Nat
           /\ seq' = [seq EXCEPT ![d] = @ + 1]
           /\ seq[d] \in 0..made /\ stops' = stops
<1> DEFINE d == Head(todo)
<1>1. d \in Devices
  BY HeadTailProperties DEF Emit, GatewayInv
<1>2. seq[d] \in 0..made /\ made \in Nat
  BY <1>1 DEF GatewayInv, TypeOK
<1>3. <<d, seq[d]>> \in Devices \X Nat
  BY <1>1, <1>2
<1>4. eid' = Append(eid, <<d, seq[d]>>) /\ seq' = [seq EXCEPT ![d] = @ + 1]
  BY DEF Emit
<1>5. made' = made + 1 /\ stops' = stops
  BY DEF Emit, Submit
<1> HIDE DEF d
<1>6. /\ eid' \in Seq(Devices \X Nat) /\ Len(eid') = made + 1
      /\ eid'[made + 1] = <<d, seq[d]>>
      /\ \A v \in 1..made : eid'[v] = eid[v]
  BY <1>3, <1>4, AppendProperties DEF GatewayInv
<1>7. \A v \in 1..made : eid[v] \in Devices \X Nat
  BY ElementOfSeq DEF GatewayInv
<1>8. QED
  BY <1>1, <1>2, <1>4, <1>5, <1>6, <1>7

(* The gateway's memory keeps its types. *)
THEOREM GatewayInvariant == RelaySpec => []GatewayInv
<1>1. RelayInit => GatewayInv
  BY DEF RelayInit, Init, GatewayInv, FreshSeq
<1>2. TypeOK /\ GatewayInv /\ [RelayNext]_relayVars => GatewayInv'
  <2> SUFFICES ASSUME TypeOK, GatewayInv, [RelayNext]_relayVars
               PROVE  GatewayInv'
    OBVIOUS
  <2>1. ASSUME NEW d \in Devices, Arrive(d) PROVE GatewayInv'
    BY <2>1, AppendProperties DEF Arrive, GatewayInv, vars
  <2>2. CASE TakeEvent
    <3>1. Head(queue) \in Devices /\ Tail(queue) \in Seq(Devices)
      BY <2>2, HeadTailProperties DEF TakeEvent, GatewayInv
    <3>2. PICK n \in 0..MaxAlerts : todo' = [i \in 1..n |-> Head(queue)]
      BY <2>2 DEF TakeEvent
    <3>3. n \in Nat
      BY <3>2, RelayAssumption
    <3>4. todo' \in Seq(Devices)
      BY <3>1, <3>2, <3>3
    <3>5. queue' = Tail(queue) /\ UNCHANGED <<seq, eid, made>>
      BY <2>2 DEF TakeEvent, vars
    <3>6. QED
      BY <3>1, <3>4, <3>5 DEF GatewayInv
  <2>3. CASE Emit
    <3>1. PICK d \in Devices :
           /\ eid' \in Seq(Devices \X Nat) /\ Len(eid') = made + 1 /\ made' = made + 1
           /\ seq' = [seq EXCEPT ![d] = @ + 1] /\ seq[d] \in 0..made
      BY <2>3, EmitsAnId
    <3>2. todo' \in Seq(Devices) /\ queue' = queue
      BY <2>3, HeadTailProperties DEF Emit, GatewayInv
    <3>3. seq' \in [Devices -> 0..made']
      <4>1. made \in Nat /\ seq \in [Devices -> 0..made]
        BY DEF GatewayInv, TypeOK
      <4>2. \A x \in Devices : seq'[x] = IF x = d THEN seq[d] + 1 ELSE seq[x]
        BY <3>1, <4>1
      <4>3. ASSUME NEW x \in Devices
            PROVE  seq'[x] \in 0..made'
        <5>1. seq[x] \in 0..made /\ made' = made + 1 /\ seq[d] \in 0..made
          BY <3>1, <4>1
        <5>2. CASE x = d
          BY <4>1, <4>2, <5>1, <5>2
        <5>3. CASE x # d
          BY <4>1, <4>2, <5>1, <5>3
        <5>4. QED
          BY <5>2, <5>3
      <4>4. QED
        BY <3>1, <4>1, <4>3
    <3>4. QED
      BY <3>1, <3>2, <3>3 DEF GatewayInv
  <2>4. CASE GatewayStops
    <3>1. queue' = <<>> /\ todo' = <<>> /\ seq' = FreshSeq /\ UNCHANGED <<eid, made>>
      BY <2>4 DEF GatewayStops, Kill, PublishFails, Stop
    <3>2. QED
      BY <3>1 DEF GatewayInv, FreshSeq, TypeOK
  <2>5. CASE OutboxStep \/ Consume \/ Ack \/ BackendStarts \/ BackendStops \/ UNCHANGED relayVars
    <3>1. UNCHANGED <<queue, todo, seq, eid>>
      BY <2>5 DEF OutboxStep, Consume, Ack, BackendStarts, BackendStops, relayVars, gatewayVars
    <3>2. made' = made
      BY <2>5 DEF OutboxStep, Consume, Ack, BackendStarts, BackendStops, relayVars, vars,
                  Step, Start, Replay, EndReplay, AppendLine, SyncWal, Publish, Confirm,
                  TruncateCursor, WriteCursor, SyncCursor
    <3>3. QED
      BY <3>1, <3>2 DEF GatewayInv
  <2>6. QED
    BY <2>1, <2>2, <2>3, <2>4, <2>5 DEF RelayNext, GatewayNext, BackendNext, RelayQuiet
<1>3. QED
  BY <1>1, <1>2, RelayIsAnOutbox, TypeInvariant, PTL DEF RelaySpec

(* As long as the gateway has not stopped, no two verdicts share an id. *)
THEOREM IdsAreDistinct == RelaySpec => []IdsInv
<1>1. RelayInit => IdsInv
  BY DEF RelayInit, Init, IdsInv
<1>2. TypeOK /\ TypeOK' /\ GatewayInv /\ IdsInv /\ [RelayNext]_relayVars => IdsInv'
  <2> SUFFICES ASSUME TypeOK, TypeOK', GatewayInv, IdsInv, [RelayNext]_relayVars
               PROVE  IdsInv'
    OBVIOUS
  <2>1. CASE Emit
    <3>1. PICK d \in Devices :
           /\ made' = made + 1 /\ eid'[made + 1] = <<d, seq[d]>>
           /\ \A v \in 1..made : eid'[v] = eid[v] /\ eid[v] \in Devices \X Nat
           /\ seq' = [seq EXCEPT ![d] = @ + 1] /\ seq[d] \in 0..made /\ stops' = stops
      BY <2>1, EmitsAnId
    <3>2. /\ made \in Nat /\ seq \in [Devices -> 0..made]
      BY DEF TypeOK, GatewayInv
    <3> SUFFICES ASSUME stops = 0 
                 PROVE  /\ \A v \in 1..made' : eid'[v][2] < seq'[eid'[v][1]]
                        /\ \A v, w \in 1..made' : eid'[v] = eid'[w] => v = w
      BY <3>1 DEF IdsInv
    <3>3. /\ \A v \in 1..made : eid[v][2] < seq[eid[v][1]]
          /\ \A v, w \in 1..made : eid[v] = eid[w] => v = w
      BY DEF IdsInv
    <3>4. ASSUME NEW v \in 1..made
          PROVE  eid'[v][2] < seq'[eid'[v][1]] /\ eid'[v] # eid'[made + 1]
      <4>1. PICK x \in Devices, n \in Nat : eid[v] = <<x, n>> /\ eid'[v] = <<x, n>>
        BY <3>1
      <4>2. n < seq[x] /\ seq[x] \in Nat /\ seq[d] \in Nat
        BY <3>2, <3>3, <4>1
      <4>3. seq'[x] = IF x = d THEN seq[d] + 1 ELSE seq[x]
        BY <3>1, <3>2
      <4>4. QED
        BY <3>1, <4>1, <4>2, <4>3
    <3>5. eid'[made + 1][2] < seq'[eid'[made + 1][1]]
      BY <3>1, <3>2
    <3>6. 1..made' = 1..made \cup {made + 1}
      BY <3>1, <3>2
    <3>7. QED
      BY <3>1, <3>3, <3>4, <3>5, <3>6
  <2>2. CASE GatewayStops
    <3>1. stops' = stops + 1 /\ stops \in Nat
      BY <2>2 DEF GatewayStops, Kill, PublishFails, Stop, TypeOK
    <3>2. QED
      BY <3>1 DEF IdsInv
  <2>3. CASE ~Emit /\ ~GatewayStops
    <3>1. UNCHANGED <<eid, seq, stops>>
      BY <2>3 DEF RelayNext, GatewayNext, BackendNext, RelayQuiet, Arrive, TakeEvent, OutboxStep,
                  Consume, Ack, BackendStarts, BackendStops, relayVars, gatewayVars, vars,
                  Step, Start, Replay, EndReplay, AppendLine, SyncWal, Publish, Confirm,
                  TruncateCursor, WriteCursor, SyncCursor
    <3>2. made' = made
      BY <2>3, MadeGrows
    <3>3. QED
      BY <3>1, <3>2 DEF IdsInv
  <2>4. QED
    BY <2>1, <2>2, <2>3
<1>3. QED
  BY <1>1, <1>2, RelayIsAnOutbox, TypeInvariant, GatewayInvariant, PTL DEF RelaySpec
-----------------------------------------------------------------------------
(* A verdict keeps its id. *)
LEMMA IdsStay ==
  ASSUME TypeOK, GatewayInv, [RelayNext]_relayVars
  PROVE  /\ made \in Nat /\ made' \in Nat /\ made <= made'
         /\ \A v \in 1..made : v \in 1..made' /\ eid'[v] = eid[v]
<1>1. made \in Nat /\ \/ Emit /\ made' = made + 1
                      \/ made' = made /\ eid' = eid
  BY MadeGrows
<1>2. CASE Emit
  BY <1>1, <1>2, EmitsAnId
<1>3. QED
  BY <1>1, <1>2

(* A feed is added to the history. *)
LEMMA FeedsAppend ==
  ASSUME BackendInv, NEW v \in Nat, Feed(v)
  PROVE  /\ feeds' \in Seq([verdict : Nat, run : Nat])
         /\ Len(feeds) \in Nat /\ DOMAIN feeds = 1..Len(feeds)
         /\ DOMAIN feeds' = 1..(Len(feeds) + 1)
         /\ feeds'[Len(feeds) + 1].verdict = v
         /\ feeds'[Len(feeds) + 1].run = backendStops
         /\ \A i \in 1..Len(feeds) : feeds'[i] = feeds[i]
         /\ Fed' = Fed \cup {v}
<1> DEFINE r == [verdict |-> v, run |-> backendStops]
<1>1. r \in [verdict : Nat, run : Nat] /\ r.verdict = v /\ r.run = backendStops
  BY DEF BackendInv
<1>2. feeds' = Append(feeds, r) /\ feeds \in Seq([verdict : Nat, run : Nat])
  BY DEF Feed, BackendInv
<1> HIDE DEF r
<1>3. /\ feeds' \in Seq([verdict : Nat, run : Nat])
      /\ Len(feeds) \in Nat /\ DOMAIN feeds = 1..Len(feeds)
      /\ DOMAIN feeds' = 1..(Len(feeds) + 1)
      /\ feeds'[Len(feeds) + 1] = r
      /\ \A i \in 1..Len(feeds) : feeds'[i] = feeds[i]
  BY <1>1, <1>2, AppendProperties, LenProperties
<1>4. Fed' = Fed \cup {v}
  <2>1. ASSUME NEW x PROVE x \in Fed' <=> x \in Fed \/ x = v
    BY <1>1, <1>3 DEF Fed
  <2>2. QED
    BY <2>1
<1>5. QED
  BY <1>1, <1>3, <1>4

(* Steps of the gateway: the stream and the ids grow, the backend is left. *)
LEMMA BackendFrame ==
  ASSUME OutboxInv, GatewayInv, BackendInv, [RelayNext]_relayVars, UNCHANGED backendVars
  PROVE  BackendInv' /\ Handled' = Handled
<1>1. /\ Handled' = Handled /\ Fed' = Fed
      /\ UNCHANGED <<drainPc, acked, seen, feeds, swallowed, backendStops>>
  BY DEF backendVars, Handled, Fed
<1>2. /\ made \in Nat /\ made' \in Nat /\ made <= made'
      /\ \A v \in 1..made : v \in 1..made' /\ eid'[v] = eid[v]
  BY IdsStay DEF OutboxInv, SafeInv
<1>3. /\ Len(stream) \in Nat /\ Len(stream') \in Nat /\ Len(stream) <= Len(stream')
      /\ \A i \in 1..Len(stream) : stream'[i] = stream[i]
  BY StreamExtends
<1>4. Handled \in Nat /\ Handled <= Len(stream)
  BY DEF BackendInv, Handled
<1>5. \A i \in 1..Handled : stream'[i] = stream[i]
  BY <1>3, <1>4
<1>6. \A v \in Fed : v \in 1..made
  BY DEF BackendInv, Fed
<1>7. /\ \A x \in seen' : \E v \in Fed' : eid'[v] = x
      /\ swallowed' \subseteq 1..made'
  BY <1>1, <1>2, <1>6 DEF BackendInv
<1>8. \A i \in DOMAIN feeds' : /\ feeds'[i].verdict \in 1..made' /\ feeds'[i].run <= backendStops'
                               /\ feeds'[i].run = backendStops' => eid'[feeds'[i].verdict] \in seen'
  BY <1>1, <1>2 DEF BackendInv
<1>9. /\ Handled' <= Len(stream')
      /\ \A i \in 1..Handled' : stream'[i] \in Fed' \cup swallowed'
  BY <1>1, <1>3, <1>4, <1>5 DEF BackendInv
<1>10. QED
  BY <1>1, <1>7, <1>8, <1>9 DEF BackendInv

(* The drain takes a message: it is fed, or its id had been seen. *)
LEMMA BackendConsumes ==
  ASSUME TypeOK, StreamIsMade, GatewayInv, BackendInv, Consume
  PROVE  BackendInv'
<1> DEFINE v == stream[acked + 1]
<1>1. /\ drainPc = "wait" /\ drainPc' = "ack" /\ acked < Len(stream)
      /\ UNCHANGED <<acked, backendStops, stream, eid, made>>
  BY DEF Consume, vars, gatewayVars
<1>2. Len(stream) \in Nat /\ made \in Nat /\ DOMAIN stream = 1..Len(stream)
  BY DEF TypeOK
<1>3. acked \in Nat /\ acked + 1 \in 1..Len(stream) /\ Handled = acked /\ Handled' = acked + 1
  BY <1>1, <1>2 DEF BackendInv, Handled
<1>4. v \in 1..made /\ v \in Nat
  BY <1>2, <1>3 DEF StreamIsMade
<1>5. /\ drainPc' \in {"wait", "ack", "down"} /\ acked' \in Nat /\ Handled' <= Len(stream')
      /\ backendStops' \in Nat
  BY <1>1, <1>2, <1>3 DEF BackendInv
<1>6. CASE eid[v] \notin seen /\ Feed(v)
  <2>1. /\ feeds' \in Seq([verdict : Nat, run : Nat])
        /\ Len(feeds) \in Nat /\ DOMAIN feeds = 1..Len(feeds)
        /\ DOMAIN feeds' = 1..(Len(feeds) + 1)
        /\ feeds'[Len(feeds) + 1].verdict = v /\ feeds'[Len(feeds) + 1].run = backendStops
        /\ \A i \in 1..Len(feeds) : feeds'[i] = feeds[i]
        /\ Fed' = Fed \cup {v}
    BY <1>4, <1>6, FeedsAppend
  <2>2. seen' = seen \cup {eid[v]} /\ swallowed' = swallowed
    BY <1>6 DEF Feed
  <2>3. \A i \in 1..(Len(feeds) + 1) :
           /\ feeds'[i].verdict \in 1..made /\ feeds'[i].run <= backendStops
           /\ feeds'[i].run = backendStops => eid[feeds'[i].verdict] \in seen'
    <3>1. ASSUME NEW i \in 1..Len(feeds)
          PROVE  /\ feeds'[i].verdict \in 1..made /\ feeds'[i].run <= backendStops
                 /\ feeds'[i].run = backendStops => eid[feeds'[i].verdict] \in seen'
      BY <2>1, <2>2 DEF BackendInv
    <3>2. backendStops \in Nat /\ eid[v] \in seen'
      BY <2>2 DEF BackendInv
    <3>3. QED
      BY <1>4, <2>1, <3>1, <3>2
  <2>4. \A x \in seen' : \E u \in Fed' : eid[u] = x
    BY <2>1, <2>2 DEF BackendInv
  <2>5. \A i \in 1..Handled' : stream[i] \in Fed' \cup swallowed'
    BY <1>3, <2>1, <2>2 DEF BackendInv
  <2>6. swallowed' \subseteq 1..made
    BY <2>2 DEF BackendInv
  <2>7. QED
    BY <1>1, <1>5, <2>1, <2>3, <2>4, <2>5, <2>6 DEF BackendInv
<1>7. CASE eid[v] \in seen /\ swallowed' = swallowed \cup ({v} \ Fed) /\ UNCHANGED <<seen, feeds>>
  <2>1. Fed' = Fed
    BY <1>7 DEF Fed
  <2>2. \A i \in 1..Handled' : stream[i] \in Fed' \cup swallowed'
    BY <1>3, <1>7, <2>1 DEF BackendInv
  <2>3. swallowed' \subseteq 1..made
    BY <1>4, <1>7 DEF BackendInv
  <2>4. QED
    BY <1>1, <1>5, <1>7, <2>1, <2>2, <2>3 DEF BackendInv
<1>8. QED
  BY <1>6, <1>7 DEF Consume

(* The other steps of the backend: an acknowledgement moves the cursor over
   the message just handled, and a stop forgets this run's ids with it. *)
LEMMA BackendMoves ==
  ASSUME TypeOK, BackendInv, Ack \/ BackendStops \/ BackendStarts
  PROVE  BackendInv'
<1>1. /\ UNCHANGED <<feeds, swallowed, stream, eid, made>> /\ Fed' = Fed
  BY DEF Ack, BackendStops, BackendStarts, vars, gatewayVars, Fed
<1>2. Len(stream) \in Nat
  BY DEF TypeOK
<1>3. CASE Ack
  <2>1. /\ drainPc = "ack" /\ drainPc' = "wait" /\ acked' = acked + 1
        /\ UNCHANGED <<seen, backendStops>>
    BY <1>3 DEF Ack
  <2>2. Handled' = Handled /\ acked' \in Nat
    BY <2>1 DEF Handled, BackendInv
  <2>3. QED
    BY <1>1, <2>1, <2>2 DEF BackendInv
<1>4. CASE BackendStops
  <2>1. /\ drainPc' = "down" /\ seen' = {} /\ backendStops' = backendStops + 1 /\ acked' = acked
    BY <1>4 DEF BackendStops
  <2>2. Handled' \in Nat /\ Handled \in Nat /\ Handled' <= Handled
    BY <2>1 DEF Handled, BackendInv
  <2>3. \A i \in 1..Handled' : i \in 1..Handled
    BY <2>2
  <2>4. /\ Handled' <= Len(stream')
        /\ \A i \in 1..Handled' : stream'[i] \in Fed' \cup swallowed'
    BY <1>1, <1>2, <2>2, <2>3 DEF BackendInv
  <2>5. \A i \in DOMAIN feeds' : /\ feeds'[i].verdict \in 1..made'
                                 /\ feeds'[i].run <= backendStops'
                                 /\ feeds'[i].run # backendStops'
    <3> SUFFICES ASSUME NEW i \in DOMAIN feeds
                 PROVE  /\ feeds[i].verdict \in 1..made
                        /\ feeds[i].run <= backendStops + 1 /\ feeds[i].run # backendStops + 1
      BY <1>1, <2>1
    <3>1. /\ feeds[i].verdict \in 1..made /\ feeds[i].run <= backendStops
          /\ backendStops \in Nat /\ feeds \in Seq([verdict : Nat, run : Nat])
      BY DEF BackendInv
    <3>2. feeds[i] \in [verdict : Nat, run : Nat]
      BY <3>1, LenProperties, ElementOfSeq
    <3>3. feeds[i].run \in Nat
      BY <3>2
    <3>4. QED
      BY <3>1, <3>3
  <2>6. QED
    BY <1>1, <2>1, <2>4, <2>5 DEF BackendInv
<1>5. CASE BackendStarts
  <2>1. /\ drainPc = "down" /\ drainPc' = "wait" /\ UNCHANGED <<acked, seen, backendStops>>
    BY <1>5 DEF BackendStarts
  <2>2. Handled' = Handled
    BY <2>1 DEF Handled
  <2>3. QED
    BY <1>1, <2>1, <2>2 DEF BackendInv
<1>6. QED
  BY <1>3, <1>4, <1>5

(* A step of the relay is one of the backend, or leaves the backend alone. *)
LEMMA BackendSteps ==
  ASSUME [RelayNext]_relayVars
  PROVE  \/ Consume \/ Ack \/ BackendStops \/ BackendStarts
         \/ UNCHANGED backendVars
<1>1. CASE UNCHANGED relayVars
  BY <1>1 DEF relayVars
<1>2. CASE \/ \E d \in Devices : Arrive(d)
           \/ TakeEvent \/ Emit \/ OutboxStep \/ GatewayStops
  BY <1>2 DEF Arrive, TakeEvent, Emit, OutboxStep, GatewayStops
<1>3. QED
  BY <1>1, <1>2 DEF RelayNext, GatewayNext, BackendNext, RelayQuiet

(* What the backend remembers, through stops of both sides. *)
THEOREM BackendInvariant == RelaySpec => []BackendInv
<1>1. RelayInit => BackendInv
  <2> SUFFICES ASSUME RelayInit PROVE BackendInv
    OBVIOUS
  <2>1. Len(stream) = 0 /\ feeds = <<>> /\ Handled = 0
    BY DEF RelayInit, Init, Handled
  <2>2. feeds \in Seq([verdict : Nat, run : Nat]) /\ DOMAIN feeds = {}
    BY <2>1
  <2>3. QED
    BY <2>1, <2>2 DEF RelayInit, Init, BackendInv
<1>2. OutboxInv /\ StreamIsMade /\ GatewayInv /\ BackendInv /\ [RelayNext]_relayVars
        => BackendInv'
  BY BackendSteps, BackendFrame, BackendConsumes, BackendMoves DEF OutboxInv, SafeInv
<1>3. QED
  BY <1>1, <1>2, OutboxHolds, StreamHoldsVerdicts, GatewayInvariant, PTL DEF RelaySpec

(* Type correctness of the relay: ids, counters, the durable cursor. *)
THEOREM RelayTypeCorrect == RelaySpec => []RelayTypeOK
<1>1. OutboxInv /\ GatewayInv /\ BackendInv => RelayTypeOK
  <2> SUFFICES ASSUME OutboxInv, GatewayInv, BackendInv PROVE RelayTypeOK
    OBVIOUS
  <2>1. TypeOK /\ made \in 0..MaxVerdicts /\ Len(stream) \in Nat
    BY DEF OutboxInv, SafeInv, TypeOK
  <2>2. seq \in [Devices -> 0..MaxVerdicts]
    BY <2>1, OutboxAssumption DEF GatewayInv
  <2>3. acked \in 0..Len(stream)
    BY <2>1 DEF BackendInv, Handled
  <2>4. QED
    BY <2>1, <2>2, <2>3 DEF GatewayInv, BackendInv, RelayTypeOK
<1>2. QED
  BY <1>1, OutboxHolds, GatewayInvariant, BackendInvariant, PTL

(* An acknowledged message was handled, whoever stopped in between. *)
THEOREM AckedIsHandled == RelaySpec => []AckedWasHandled
<1>1. BackendInv => AckedWasHandled
  <2> SUFFICES ASSUME BackendInv PROVE \A i \in 1..acked : i \in 1..Handled
    BY DEF BackendInv, AckedWasHandled
  <2>1. QED
    BY DEF BackendInv, Handled
<1>2. QED
  BY <1>1, BackendInvariant, PTL

(* backend_l3.py:213-215: no verdict is fed twice in one run of the backend,
   however often the gateway replays it. *)
THEOREM FedOnce == RelaySpec => []FedOncePerRun
<1>1. RelayInit => FedOncePerRun
  BY DEF RelayInit, FedOncePerRun
<1>2. TypeOK /\ StreamIsMade /\ BackendInv /\ FedOncePerRun /\ [RelayNext]_relayVars => FedOncePerRun'
  <2> SUFFICES ASSUME TypeOK, StreamIsMade, BackendInv, FedOncePerRun, [RelayNext]_relayVars
               PROVE  FedOncePerRun'
    OBVIOUS
  <2>1. CASE feeds' = feeds
    BY <2>1 DEF FedOncePerRun
  <2>2. CASE feeds' # feeds
    <3> DEFINE v == stream[acked + 1]
    <3>1. Consume /\ eid[v] \notin seen /\ Feed(v)
      BY <2>2, BackendSteps DEF Consume, Ack, BackendStops, BackendStarts, backendVars
    <3>2. v \in Nat
      BY <3>1 DEF Consume, StreamIsMade, TypeOK, BackendInv
    <3>3. /\ Len(feeds) \in Nat /\ DOMAIN feeds = 1..Len(feeds)
          /\ DOMAIN feeds' = 1..(Len(feeds) + 1)
          /\ feeds'[Len(feeds) + 1].verdict = v /\ feeds'[Len(feeds) + 1].run = backendStops
          /\ \A i \in 1..Len(feeds) : feeds'[i] = feeds[i]
      BY <3>1, <3>2, FeedsAppend
    <3>4. ASSUME NEW i \in 1..Len(feeds), feeds[i].run = backendStops
          PROVE  feeds[i].verdict # v
      BY <3>1, <3>3, <3>4 DEF BackendInv
    <3>5. ASSUME NEW i \in 1..(Len(feeds) + 1), NEW j \in 1..(Len(feeds) + 1),
                 i # j, feeds'[i].run = feeds'[j].run
          PROVE  feeds'[i].verdict # feeds'[j].verdict
      <4>1. CASE i \in 1..Len(feeds) /\ j \in 1..Len(feeds)
        BY <3>3, <3>5, <4>1 DEF FedOncePerRun
      <4>2. CASE i = Len(feeds) + 1 /\ j \in 1..Len(feeds)
        BY <3>3, <3>4, <3>5, <4>2
      <4>3. CASE j = Len(feeds) + 1 /\ i \in 1..Len(feeds)
        BY <3>3, <3>4, <3>5, <4>3
      <4>4. QED
        BY <3>3, <3>5, <4>1, <4>2, <4>3
    <3>6. QED
      BY <3>3, <3>5 DEF FedOncePerRun
  <2>3. QED
    BY <2>1, <2>2
<1>3. QED
  BY <1>1, <1>2, RelayIsAnOutbox, TypeInvariant, StreamHoldsVerdicts, BackendInvariant, PTL
  DEF RelaySpec

(* Until the gateway stops, ids are distinct and the deduplication drops
   copies only. *)
THEOREM OnlyCopiesDropped == RelaySpec => []NoneSwallowedUntilRestart
<1>1. RelayInit => NoneSwallowedUntilRestart
  BY DEF RelayInit, NoneSwallowedUntilRestart
<1>2. /\ TypeOK /\ StreamIsMade /\ IdsInv /\ BackendInv /\ NoneSwallowedUntilRestart
      /\ [RelayNext]_relayVars
      => NoneSwallowedUntilRestart'
  <2> SUFFICES ASSUME TypeOK, StreamIsMade, IdsInv, BackendInv, NoneSwallowedUntilRestart,
                      [RelayNext]_relayVars, stops' = 0
               PROVE  swallowed' = {}
    BY DEF NoneSwallowedUntilRestart
  <2>1. stops = 0
    <3>1. stops' = stops \/ stops' = stops + 1
      BY RelayStep DEF Step, Start, Replay, EndReplay, Submit, AppendLine, SyncWal, Publish,
         Confirm, TruncateCursor, WriteCursor, SyncCursor, Kill, PublishFails, Stop, vars
    <3>2. QED
      BY <3>1 DEF TypeOK
  <2>2. swallowed = {}
    BY <2>1 DEF NoneSwallowedUntilRestart
  <2>3. CASE swallowed' = swallowed
    BY <2>2, <2>3
  <2>4. CASE swallowed' # swallowed
    <3> DEFINE v == stream[acked + 1]
    <3>1. Consume /\ eid[v] \in seen /\ swallowed' = swallowed \cup ({v} \ Fed)
      BY <2>4, BackendSteps DEF Consume, Feed, Ack, BackendStops, BackendStarts, backendVars
    <3>2. PICK u \in Fed : eid[u] = eid[v]
      BY <3>1 DEF BackendInv
    <3>3. v \in 1..made
      BY <3>1 DEF Consume, StreamIsMade, TypeOK, BackendInv
    <3>4. u \in 1..made
      BY <3>2 DEF Fed, BackendInv
    <3>5. u = v
      BY <2>1, <3>2, <3>3, <3>4 DEF IdsInv
    <3>6. QED
      BY <2>2, <3>1, <3>2, <3>5
  <2>5. QED
    BY <2>3, <2>4
<1>3. QED
  BY <1>1, <1>2, RelayIsAnOutbox, TypeInvariant, StreamHoldsVerdicts, IdsAreDistinct,
     BackendInvariant, PTL DEF RelaySpec
-----------------------------------------------------------------------------
(* In its first run the drain feeds a message only if it is the first copy. *)
LEMMA FeedsFirstCopies ==
  ASSUME TypeOK, BackendInv, FirstRunInv, backendStops = 0, Consume,
         eid[stream[acked + 1]] \notin seen
  PROVE  FirstCopy(acked + 1)
<1>1. Handled = acked /\ acked \in Nat
  BY DEF Consume, Handled, BackendInv
<1>2. ASSUME NEW k \in 1..((acked + 1) - 1) PROVE stream[k] # stream[acked + 1]
  <2>1. eid[stream[k]] \in seen
    BY <1>1 DEF FirstRunInv
  <2>2. QED
    BY <2>1
<1>3. QED
  BY <1>2 DEF FirstCopy

(* FirstRunInv is inductive. *)
THEOREM FirstRunInvariant == RelaySpec => []FirstRunInv
<1>1. RelayInit => FirstRunInv
  BY DEF RelayInit, FirstRunInv, Handled
<1>2. /\ OutboxInv /\ StreamIsMade /\ GatewayInv /\ BackendInv /\ FirstRunInv
      /\ [RelayNext]_relayVars
      => FirstRunInv'
  <2> SUFFICES ASSUME OutboxInv, StreamIsMade, GatewayInv, BackendInv, FirstRunInv,
                      [RelayNext]_relayVars, backendStops' = 0
               PROVE  /\ \A k \in 1..Handled' : eid'[stream'[k]] \in seen'
                      /\ \A i \in DOMAIN feeds' :
                           \E k \in 1..Handled' : FirstCopy(k)' /\ stream'[k] = feeds'[i].verdict
    BY DEF FirstRunInv
  <2>1. TypeOK
    BY DEF OutboxInv, SafeInv
  <2>2. Handled \in Nat /\ Handled <= Len(stream) /\ Len(stream) \in Nat
    BY <2>1 DEF BackendInv, Handled, TypeOK
  <2>3. CASE UNCHANGED backendVars
    <3>1. Handled' = Handled /\ UNCHANGED <<seen, feeds, backendStops>>
      BY <2>3 DEF backendVars, Handled
    <3>2. /\ \A k \in 1..Handled : eid[stream[k]] \in seen
          /\ \A i \in DOMAIN feeds :
               \E k \in 1..Handled : FirstCopy(k) /\ stream[k] = feeds[i].verdict
      BY <3>1 DEF FirstRunInv
    <3>3. \A k \in 1..Handled : /\ stream'[k] = stream[k] /\ eid'[stream[k]] = eid[stream[k]]
                                /\ \A j \in 1..(k - 1) : stream'[j] = stream[j]
      <4>1. \A k \in 1..Handled : k \in 1..Len(stream) /\ \A j \in 1..(k - 1) : j \in 1..Len(stream)
        BY <2>2
      <4>2. \A v \in 1..made : eid'[v] = eid[v]
        BY <2>1, IdsStay
      <4>3. /\ DOMAIN stream = 1..Len(stream)
            /\ \A i \in 1..Len(stream) : stream'[i] = stream[i]
        BY StreamExtends
      <4>4. \A k \in 1..Handled : stream[k] \in 1..made
        BY <4>1, <4>3 DEF StreamIsMade
      <4>5. QED
        BY <4>1, <4>2, <4>3, <4>4
    <3>4. \A k \in 1..Handled : FirstCopy(k) => FirstCopy(k)'
      BY <3>3 DEF FirstCopy
    <3>5. QED
      BY <3>1, <3>2, <3>3, <3>4
  <2>4. CASE Consume
    <3> DEFINE v == stream[acked + 1]
    <3>1. /\ Handled = acked /\ Handled' = acked + 1 /\ acked \in Nat
          /\ UNCHANGED <<backendStops, stream, eid>>
      BY <2>4 DEF Consume, Handled, BackendInv, vars, gatewayVars
    <3>2. /\ \A k \in 1..acked : eid[stream[k]] \in seen
          /\ \A i \in DOMAIN feeds :
               \E k \in 1..acked : FirstCopy(k) /\ stream[k] = feeds[i].verdict
      BY <3>1 DEF FirstRunInv
    <3>3. seen \subseteq seen' /\ eid[v] \in seen'
      BY <2>4 DEF Consume, Feed
    <3>4. \A k \in 1..Handled' : eid'[stream'[k]] \in seen'
      BY <3>1, <3>2, <3>3
    <3>5. \A k : FirstCopy(k)' <=> FirstCopy(k)
      BY <3>1 DEF FirstCopy
    <3>6. CASE feeds' = feeds
      BY <3>1, <3>2, <3>4, <3>5, <3>6
    <3>7. CASE feeds' # feeds
      <4>1. eid[v] \notin seen /\ Feed(v)
        BY <2>4, <3>7 DEF Consume
      <4>2. FirstCopy(acked + 1)
        BY <2>1, <2>4, <3>1, <4>1, FeedsFirstCopies
      <4>3. v \in Nat
        BY <2>1, <2>4 DEF Consume, StreamIsMade, TypeOK, BackendInv
      <4>4. /\ Len(feeds) \in Nat /\ DOMAIN feeds = 1..Len(feeds)
            /\ DOMAIN feeds' = 1..(Len(feeds) + 1)
            /\ feeds'[Len(feeds) + 1].verdict = v
            /\ \A i \in 1..Len(feeds) : feeds'[i] = feeds[i]
        BY <4>1, <4>3, FeedsAppend
      <4>5. ASSUME NEW i \in 1..(Len(feeds) + 1)
            PROVE  \E k \in 1..Handled' : FirstCopy(k) /\ stream[k] = feeds'[i].verdict
        <5>1. CASE i \in 1..Len(feeds)
          BY <3>1, <3>2, <4>4, <5>1
        <5>2. CASE i = Len(feeds) + 1
          BY <3>1, <4>2, <4>4, <5>2
        <5>3. QED
          BY <4>4, <5>1, <5>2
      <4>6. QED
        BY <3>1, <3>4, <3>5, <4>4, <4>5
    <3>8. QED
      BY <3>6, <3>7
  <2>5. CASE Ack
    <3>1. /\ Handled' = Handled /\ UNCHANGED <<seen, feeds, backendStops, stream, eid>>
      BY <2>5 DEF Ack, Handled, vars, gatewayVars
    <3>2. \A k : FirstCopy(k)' <=> FirstCopy(k)
      BY <3>1 DEF FirstCopy
    <3>3. QED
      BY <3>1, <3>2 DEF FirstRunInv
  <2>6. CASE BackendStarts
    <3>1. /\ Handled' = Handled /\ UNCHANGED <<seen, feeds, backendStops, stream, eid>>
      BY <2>6 DEF BackendStarts, Handled, vars, gatewayVars
    <3>2. \A k : FirstCopy(k)' <=> FirstCopy(k)
      BY <3>1 DEF FirstCopy
    <3>3. QED
      BY <3>1, <3>2 DEF FirstRunInv
  <2>7. CASE BackendStops
    BY <2>7 DEF BackendStops, BackendInv
  <2>8. QED
    BY <2>3, <2>4, <2>5, <2>6, <2>7, BackendSteps
<1>3. QED
  BY <1>1, <1>2, OutboxHolds, StreamHoldsVerdicts, GatewayInvariant, BackendInvariant, PTL
  DEF RelaySpec

(* While the backend stays up, its engines see the verdicts in the order the
   gateway made them, through replays and stops of the gateway. *)
THEOREM FeedsInOrder == RelaySpec => []FedInOrder
<1>1. RelayInit => FedInOrder
  BY DEF RelayInit, FedInOrder
<1>2. /\ OutboxInv /\ StreamIsMade /\ BackendInv /\ FirstRunInv /\ FedInOrder
      /\ [RelayNext]_relayVars
      => FedInOrder'
  <2> SUFFICES ASSUME OutboxInv, StreamIsMade, BackendInv, FirstRunInv, FedInOrder,
                      [RelayNext]_relayVars, feeds' # feeds
               PROVE  FedInOrder'
    BY DEF FedInOrder
  <2> DEFINE v == stream[acked + 1]
  <2>1. TypeOK /\ InOrder
    BY DEF OutboxInv, SafeInv, OrderInv
  <2>2. Consume /\ eid[v] \notin seen /\ Feed(v)
    BY BackendSteps DEF Consume, Ack, BackendStops, BackendStarts, backendVars
  <2>3. v \in Nat /\ acked \in Nat /\ Handled = acked /\ acked < Len(stream)
        /\ DOMAIN stream = 1..Len(stream) /\ Len(stream) \in Nat
    BY <2>1, <2>2 DEF Consume, StreamIsMade, TypeOK, BackendInv, Handled
  <2>4. /\ Len(feeds) \in Nat /\ DOMAIN feeds = 1..Len(feeds)
        /\ DOMAIN feeds' = 1..(Len(feeds) + 1)
        /\ feeds'[Len(feeds) + 1].verdict = v /\ feeds'[Len(feeds) + 1].run = backendStops
        /\ \A i \in 1..Len(feeds) : feeds'[i] = feeds[i]
    BY <2>2, <2>3, FeedsAppend
  <2>5. ASSUME NEW i \in 1..Len(feeds), backendStops = 0
        PROVE  feeds[i].verdict < v
    <3>1. PICK k \in 1..acked : FirstCopy(k) /\ stream[k] = feeds[i].verdict
      BY <2>3, <2>4, <2>5 DEF FirstRunInv
    <3>2. FirstCopy(acked + 1)
      BY <2>1, <2>2, <2>5, FeedsFirstCopies
    <3>3. k \in DOMAIN stream /\ acked + 1 \in DOMAIN stream /\ k < acked + 1
      BY <2>3
    <3>4. QED
      BY <2>1, <3>1, <3>2, <3>3 DEF InOrder
  <2>6. ASSUME NEW i \in 1..(Len(feeds) + 1), NEW j \in 1..(Len(feeds) + 1),
               i < j, feeds'[j].run = 0
        PROVE  feeds'[i].verdict < feeds'[j].verdict
    <3>1. i \in 1..Len(feeds)
      BY <2>4, <2>6
    <3>2. CASE j \in 1..Len(feeds)
      BY <2>4, <2>6, <3>1, <3>2 DEF FedInOrder
    <3>3. CASE j = Len(feeds) + 1
      BY <2>4, <2>5, <2>6, <3>1, <3>3
    <3>4. QED
      BY <2>4, <3>2, <3>3
  <2>7. QED
    BY <2>4, <2>6 DEF FedInOrder
<1>3. QED
  BY <1>1, <1>2, OutboxHolds, StreamHoldsVerdicts, BackendInvariant, FirstRunInvariant, PTL
  DEF RelaySpec
=============================================================================
