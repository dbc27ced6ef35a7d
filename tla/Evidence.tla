------------------------------- MODULE Evidence -------------------------------
(***************************************************************************)
(* The completeness tag of the evidence-aware verdicts: the bounded stream *)
(* with its two discard policies (exp_retention.py), the consumer that     *)
(* reads it through the durable cursor "chk" and looks for gaps in the     *)
(* event ids (has_gap), and the tag it derives (classify), as              *)
(* exp_completeness.py runs them: reset, publish, age, assess.  An id is a *)
(* device and its sequence number, from 0.                                 *)
(***************************************************************************)
EXTENDS Integers, Sequences, FiniteSets, FiniteSetsExt

CONSTANTS Devices,
          Capacity,        \* max_msgs of the stream
          WatermarkTenths, \* --watermark, in tenths
          T,               \* --window
          Batch,           \* messages of one fetch (100 in the code)
          MaxEvents,       \* bound: ids issued
          MaxTicks         \* bound: ticks published

ASSUME EvidenceAssumption ==
  /\ {Capacity, T, Batch} \subseteq Nat \ {0}
  /\ WatermarkTenths \in 0..10
  /\ {MaxEvents, MaxTicks} \subseteq Nat

VARIABLES
  discard,       \* the discard policy of the stream, "old" or "new"
  issued,        \* ids each device was given by its gateway
  store,         \* the messages the stream holds: ids and ticks
  dropped,       \* ids lost before the stream
  evicted,       \* ids the stream discarded to make room
  refused,       \* ids whose publish raised
  ticks,         \* bound: ticks so far
  sinceTick, sinceVerdict,  \* age in seconds, T for "T or more"
  pc,            \* "publish", "read" or "done"
  marks,         \* whether has_gap was given the high-water marks
  left,          \* has_gap: the positions in the stream not yet delivered
  got,           \* has_gap: seqs, the ids delivered
  tag            \* what classify returned

lost  == <<dropped, evicted, refused>>
ages  == <<sinceTick, sinceVerdict>>
check == <<marks, left, got, tag>>
vars  == <<discard, issued, store, lost, ticks, ages, pc, check>>

Tick    == <<"tick">>
Ids     == UNION {{<<d, n>> : n \in 0..(issued[d] - 1)} : d \in Devices}
Missing == dropped \cup evicted \cup refused

Init == /\ discard \in {"old", "new"}
        /\ issued = [d \in Devices |-> 0]
        /\ store = <<>>
        /\ dropped = {} /\ evicted = {} /\ refused = {}
        /\ ticks = 0 /\ sinceTick = T /\ sinceVerdict = T
        /\ pc = "publish"
        /\ marks = FALSE /\ left = {} /\ got = {} /\ tag = "none"
-----------------------------------------------------------------------------
(* The stream takes a message while there is room; when it is full, discard
   "old" drops its oldest message. *)
Take(m) == \/ /\ Len(store) < Capacity
              /\ store' = Append(store, m)
              /\ UNCHANGED evicted
           \/ /\ Len(store) = Capacity /\ discard = "old"
              /\ store' = Append(Tail(store), m)
              /\ evicted' = evicted \cup ({Head(store)} \ {Tick})

Full == Len(store) = Capacity /\ discard = "new"

Issue(d) == /\ pc = "publish"
            /\ SumFunction(issued) < MaxEvents
            /\ issued' = [issued EXCEPT ![d] = @ + 1]
            /\ UNCHANGED <<discard, ticks, sinceTick, pc, check>>

(* js.publish of the next id of a device. *)
Publish(d) == /\ Issue(d)
              /\ Take(<<d, issued[d]>>)
              /\ sinceVerdict' = 0
              /\ UNCHANGED <<dropped, refused>>

(* Discard "new": the publish raises and is counted. *)
Refuse(d) == /\ Issue(d)
             /\ Full
             /\ refused' = refused \cup {<<d, issued[d]>>}
             /\ UNCHANGED <<store, dropped, evicted, sinceVerdict>>

(* The id is issued, but its verdict never reaches the stream. *)
Drop(d) == /\ Issue(d)
           /\ dropped' = dropped \cup {<<d, issued[d]>>}
           /\ UNCHANGED <<store, evicted, refused, sinceVerdict>>

(* A tick is published: it takes room in the same stream. *)
PublishTick == /\ pc = "publish" /\ ticks < MaxTicks
               /\ Take(Tick)
               /\ ticks' = ticks + 1
               /\ sinceTick' = 0
               /\ UNCHANGED <<discard, issued, dropped, refused, sinceVerdict, pc, check>>

(* A second passes. *)
Age == /\ pc = "publish"
       /\ sinceTick' = Min({T, sinceTick + 1})
       /\ sinceVerdict' = Min({T, sinceVerdict + 1})
       /\ UNCHANGED <<discard, issued, store, lost, ticks, pc, check>>
-----------------------------------------------------------------------------
(* has_gap subscribes: the cursor stands before every id the stream holds. *)
Subscribe == /\ pc = "publish"
             /\ pc' = "read"
             /\ marks' \in BOOLEAN
             /\ left' = {i \in DOMAIN store : store[i] # Tick}
             /\ UNCHANGED <<discard, issued, store, lost, ticks, ages, got, tag>>

(* One fetch returns up to a batch, the oldest first, and each message is
   acknowledged. *)
Fetch == /\ pc = "read" /\ left # {}
         /\ LET batch == {i \in left : Cardinality({j \in left : j < i}) < Batch} IN
              /\ got' = got \cup {store[i] : i \in batch}
              /\ left' = left \ batch
         /\ UNCHANGED <<discard, issued, store, lost, ticks, ages, pc, marks, tag>>

SeqsOf(d, S) == {m[2] : m \in {n \in S : n[1] = d}}
Mark(d)      == issued[d] - 1
Marked       == {d \in Devices : issued[d] > 0}

\* Mutant of Hole: the + 1 is missing.
HoleOffByOne(V) == V # {} /\ Max(V) - Min(V) # Cardinality(V)

(* (max(v) - min(v) + 1) != len(v) *)
Hole(V) == V # {} /\ Max(V) - Min(V) + 1 # Cardinality(V)

\* Mutant of Short: a device that never appeared is not missed.
ShortIfSeen(V, hi) == V # {} /\ Max(V) < hi

(* Below the high-water mark: the device never appeared, or its suffix is
   missing. *)
Short(V, hi) == V = {} \/ Max(V) < hi

HasGap(S) == \/ \E d \in Devices : Hole(SeqsOf(d, S))
             \/ marks /\ \E d \in Marked : Short(SeqsOf(d, S), Mark(d))

(* observe_gap, the same question asked by exp_oracle.py, always with
   high-water marks. *)
ObserveGap(S) == \E d \in Marked : LET V == SeqsOf(d, S) IN
                   \/ V = {}
                   \/ Max(V) - Min(V) + 1 # Cardinality(V)
                   \/ Max(V) < Mark(d)

\* Mutant of PastWatermark: > for >=.
PastWatermarkStrictly == 10 * Len(store) > WatermarkTenths * Capacity

PastWatermark == 10 * Len(store) >= WatermarkTenths * Capacity

(* classify: the worst condition that holds. *)
Classify(gap) ==
  IF sinceTick < T /\ ~(sinceVerdict < T) THEN "unavailable"
  ELSE IF gap THEN "incomplete"
  ELSE IF PastWatermark THEN "degraded"
  ELSE "sound"

(* A fetch times out, which ends the reading, whether or not the cursor has
   delivered everything; the tag follows.  With high-water marks the reader
   may be either of the two. *)
Assess == /\ pc = "read"
          /\ pc' = "done"
          /\ \/ tag' = Classify(HasGap(got))
             \/ marks /\ tag' = Classify(ObserveGap(got))
          /\ UNCHANGED <<discard, issued, store, lost, ticks, ages, marks, left, got>>

(* Reset: the stream is deleted and created again. *)
Reset == /\ pc = "done"
         /\ discard' \in {"old", "new"}
         /\ issued' = [d \in Devices |-> 0]
         /\ store' = <<>>
         /\ dropped' = {} /\ evicted' = {} /\ refused' = {}
         /\ ticks' = 0 /\ sinceTick' = T /\ sinceVerdict' = T
         /\ pc' = "publish"
         /\ marks' = FALSE /\ left' = {} /\ got' = {} /\ tag' = "none"

Next == \/ \E d \in Devices : Publish(d) \/ Refuse(d) \/ Drop(d)
        \/ PublishTick \/ Age
        \/ Subscribe \/ Fetch \/ Assess \/ Reset

Spec == Init /\ [][Next]_vars
-----------------------------------------------------------------------------
Unflagged == tag \in {"sound", "degraded"}

(* exp_completeness.py:50, "True if the consumer can prove evidence is
   missing": whenever the tag is incomplete, an id that was issued is missing
   from the stream.  The proof rests on a complete reading: a fetch that times
   out while messages are left makes gaps of its own. *)
GapIsReal == tag = "incomplete" /\ left = {} => Missing # {}

(* The tag is honest about the middle of a stream, with high-water marks or
   without: when no gap is reported, no missing id lies between two delivered
   ids of its device. *)
NoHoleUnflagged ==
  Unflagged => \A m \in Missing : LET V == SeqsOf(m[1], got) IN
                 ~(\E a, b \in V : a < m[2] /\ m[2] < b)

(* With high-water marks the only loss that goes unreported is a prefix: a
   device that issued an id was heard, up to its last one
   (exp_completeness.py:52-56). *)
OnlyPrefixUnflagged ==
  Unflagged /\ marks =>
    \A d \in Marked : LET V == SeqsOf(d, got) IN
      V # {} /\ \A n \in SeqsOf(d, Missing) : \A k \in V : n < k

(* Evidence that the bounded stream threw away by itself is never tagged
   sound: whoever evicted was full, ticks included, and full is past the
   watermark. *)
EvictionNotSound == tag = "sound" => evicted = {}
=============================================================================
