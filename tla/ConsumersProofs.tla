--------------------------- MODULE ConsumersProofs ---------------------------
(***************************************************************************)
(* Proofs about Consumers: what the drains acknowledge and what they write *)
(* to the engines, for every stream of messages, every number of second    *)
(* deliveries and kills, and whichever engines stop to read.               *)
(***************************************************************************)
EXTENDS Consumers, SequenceTheorems, TLAPS

(* The drain whose feeds write to an engine. *)
Owner(e) == IF e = "rtlola" THEN "rtlola" ELSE "monpoly"

(* What a feed may have left to write. *)
Todos == {<<"crossgw", "monpoly">>, <<"crossgw">>, <<"monpoly">>, <<"rtlola">>}

TypeOK ==
  /\ stream \in Seq(Kinds)
  /\ floor \in [Drains -> Nat] /\ acked \in [Drains -> SUBSET Nat]
  /\ pending \in [Drains -> Seq(Nat)]
  /\ phase \in {"up", "closing", "down"}
  /\ drainPc \in [Drains -> {"wait", "feed", "ack", "dead"}]
  /\ current \in [Drains -> Nat]
  /\ todo \in Seq(Engines)
  /\ seen \in [Drains -> SUBSET Nat]
  /\ fed \in [Engines -> Seq(Nat)]
  /\ done \in [Drains -> SUBSET Nat] /\ unfed \in [Drains -> SUBSET Nat]

(* One feed at a time holds the loop, and what it has left to write is its
   own. *)
LoopInv ==
  /\ phase = "down" => \A d \in Drains : drainPc[d] = "wait"
  /\ \A d \in Drains : drainPc[d] = "feed" =>
       /\ todo \in Todos
       /\ \A k \in DOMAIN todo : Owner(todo[k]) = d
       /\ todo = <<"crossgw">> => phase = "closing"
       /\ \A c \in Drains : drainPc[c] = "feed" => c = d

(* What the backend saw in this run it has fed, acknowledges unfed, or has in
   hand. *)
HandledInv ==
  /\ \A d \in Drains : drainPc[d] = "ack" => current[d] \in done[d] \cup unfed[d]
  /\ phase # "down" =>
       \A d \in Drains : \A i \in seen[d] :
         i \in done[d] \cup unfed[d] \/ (drainPc[d] = "feed" /\ current[d] = i)

(* An engine was given what its drain saw, each message once, and not yet the
   message that is to be written to it. *)
FedInv ==
  /\ \A e \in Engines : ToSet(fed[e]) \subseteq seen[Owner(e)]
  /\ \A d \in Drains : drainPc[d] = "feed" =>
       /\ current[d] \in seen[d]
       /\ \A k \in DOMAIN todo : current[d] \notin ToSet(fed[todo[k]])

(* P3.6 is ahead of P3.1-P3.4 by the verdict in hand, or not at all. *)
AgreeInv ==
  phase = "up" =>
    IF drainPc["monpoly"] = "feed"
    THEN \/ /\ todo = <<"crossgw", "monpoly">>
            /\ stream[current["monpoly"]] = "overflow"
            /\ Overflows(fed["crossgw"], fed["monpoly"])
         \/ /\ todo = <<"monpoly">>
            /\ Overflows(fed["crossgw"], Append(fed["monpoly"], current["monpoly"]))
    ELSE Overflows(fed["crossgw"], fed["monpoly"])
-----------------------------------------------------------------------------
(* What a feed has to write, by the drain, the phase and the message. *)
LEMMA TargetsShape ==
  ASSUME NEW d \in Drains, NEW i
  PROVE  /\ d = "tick" \/ Dup(d, i) => Targets(d, i) = <<>>
         /\ d = "monpoly" /\ ~Dup(d, i) /\ phase # "closing" =>
              Targets(d, i) = IF stream[i] = "overflow" THEN <<"crossgw", "monpoly">>
                                                        ELSE <<"monpoly">>
         /\ d = "rtlola" /\ ~Dup(d, i) /\ phase # "closing" => Targets(d, i) = <<"rtlola">>
         /\ d = "monpoly" /\ ~Dup(d, i) /\ phase = "closing" =>
              Targets(d, i) = IF stream[i] = "overflow" THEN <<"crossgw">> ELSE <<>>
         /\ d = "rtlola" /\ ~Dup(d, i) /\ phase = "closing" => Targets(d, i) = <<>>
<1>1. /\ <<"crossgw">> \o <<>> = <<"crossgw">> /\ <<>> \o <<>> = <<>>
      /\ <<>> \o <<"monpoly">> = <<"monpoly">> /\ <<>> \o <<"rtlola">> = <<"rtlola">>
      /\ <<"crossgw">> \o <<"monpoly">> = <<"crossgw", "monpoly">>
  <2>1. /\ <<"crossgw">> \in Seq(Engines) /\ <<"monpoly">> \in Seq(Engines)
        /\ <<"rtlola">> \in Seq(Engines) /\ <<>> \in Seq(Engines) /\ "monpoly" \in Engines
    BY DEF Engines
  <2>2. Append(<<"crossgw">>, "monpoly") = <<"crossgw">> \o <<"monpoly">>
    BY <2>1, AppendIsConcat
  <2>3. \A x, y : <<x, y>> = Append(<<x>>, y)
    BY SMT
  <2>4. QED
    BY <2>1, <2>2, <2>3, ConcatEmptySeq
<1>2. Open = IF phase = "closing" THEN {"crossgw"} ELSE {"crossgw", "monpoly", "rtlola"}
  BY DEF Open, Engines
<1>3. CASE d = "tick"
  BY <1>3 DEF Targets
<1>4. CASE d = "monpoly"
  BY <1>1, <1>2, <1>4 DEF Targets
<1>5. CASE d = "rtlola"
  BY <1>1, <1>2, <1>5 DEF Targets
<1>6. QED
  BY <1>3, <1>4, <1>5 DEF Drains

(* A feed has nothing left to write, or targets of its own drain. *)
LEMMA TargetsOwned ==
  ASSUME NEW d \in Drains, NEW i
  PROVE  /\ Targets(d, i) \in Todos \cup {<<>>}
         /\ \A k \in DOMAIN Targets(d, i) : Owner(Targets(d, i)[k]) = d
         /\ phase # "closing" => Targets(d, i) # <<"crossgw">>
<1>1. DOMAIN <<>> = {} /\ DOMAIN <<"crossgw">> = {1} /\ DOMAIN <<"monpoly">> = {1}
      /\ DOMAIN <<"rtlola">> = {1} /\ DOMAIN <<"crossgw", "monpoly">> = {1, 2}
  OBVIOUS
<1>2. CASE d = "tick" \/ Dup(d, i)
  BY <1>1, <1>2, TargetsShape DEF Todos
<1>3. CASE d = "monpoly" /\ ~Dup(d, i)
  BY <1>1, <1>3, TargetsShape DEF Todos, Owner
<1>4. CASE d = "rtlola" /\ ~Dup(d, i)
  BY <1>1, <1>4, TargetsShape DEF Todos, Owner
<1>5. QED
  BY <1>2, <1>3, <1>4 DEF Drains

(* What is left to write after one line of it. *)
LEMMA TodoTail ==
  ASSUME NEW t \in Todos
  PROVE  /\ t # <<>> /\ Head(t) = t[1] /\ 1 \in DOMAIN t
         /\ Tail(t) = IF t = <<"crossgw", "monpoly">> THEN <<"monpoly">> ELSE <<>>
         /\ t \in Seq(Engines) /\ t[1] \in Engines
<1>1. /\ \A x, y : <<x, y>> # <<>> /\ Head(<<x, y>>) = x /\ 1 \in DOMAIN <<x, y>>
      /\ \A x : <<x>> # <<>> /\ Head(<<x>>) = x /\ 1 \in DOMAIN <<x>>
  OBVIOUS
<1>2. \A x, y : Tail(<<x, y>>) = <<y>> /\ <<x, y>>[1] = x
  OBVIOUS
<1>3. \A x : Tail(<<x>>) = <<>> /\ <<x>>[1] = x
  OBVIOUS
<1>4. \A x, y, z : <<x, y>> # <<z>>
  OBVIOUS
<1>5. \A x, y \in Engines : <<x, y>> \in Seq(Engines) /\ <<x>> \in Seq(Engines)
  OBVIOUS
<1>6. "crossgw" \in Engines /\ "monpoly" \in Engines /\ "rtlola" \in Engines
  BY DEF Engines
<1>7. CASE t = <<"crossgw", "monpoly">>
  BY <1>1, <1>2, <1>5, <1>6, <1>7, Zenon
<1>8. CASE t \in {<<"crossgw">>, <<"monpoly">>, <<"rtlola">>}
  BY <1>1, <1>3, <1>4, <1>5, <1>6, <1>8
<1>9. QED
  BY <1>7, <1>8 DEF Todos

(* The types are kept. *)
LEMMA TypeStep ==
  ASSUME TypeOK, LoopInv, [Next]_vars
  PROVE  TypeOK'
<1>1. CASE UNCHANGED vars
  BY <1>1 DEF TypeOK, vars, server, loop, history
<1>2. ASSUME NEW d \in Drains, DeliverNew(d)
      PROVE  TypeOK'
  <2>1. PICK i \in DOMAIN stream :
               /\ floor' = [floor EXCEPT ![d] = i]
               /\ pending' = [pending EXCEPT ![d] = Append(@, i)]
    BY <1>2 DEF DeliverNew
  <2>2. i \in Nat
    BY DEF TypeOK
  <2>3. Append(pending[d], i) \in Seq(Nat)
    BY <2>2 DEF TypeOK
  <2>4. QED
    BY <1>2, <2>1, <2>2, <2>3 DEF TypeOK, DeliverNew, loop, history
<1>3. ASSUME NEW d \in Drains, NEW i \in DOMAIN stream, Deliver(d, i)
      PROVE  TypeOK'
  <2>1. i \in Nat /\ Append(pending[d], i) \in Seq(Nat)
    BY DEF TypeOK
  <2>2. QED
    BY <1>3, <2>1 DEF TypeOK, Deliver, server, loop, history
<1>4. ASSUME NEW d \in Drains, NEW i \in Nat, NEW rest \in Todos \cup {<<>>}, NEW new,
             Return(d, i, rest, new)
      PROVE  /\ todo' \in Seq(Engines)
             /\ drainPc' \in [Drains -> {"wait", "feed", "ack", "dead"}]
             /\ done' \in [Drains -> SUBSET Nat] /\ unfed' \in [Drains -> SUBSET Nat]
  <2>1. rest \in Seq(Engines)
    BY TodoTail, EmptySeq, Zenon
  <2>2. QED
    BY <1>4, <2>1 DEF Return, TypeOK
<1>5. ASSUME NEW d \in Drains, Take(d)
      PROVE  TypeOK'
  <2> DEFINE i == Head(pending[d])
  <2>1. i \in Nat /\ Tail(pending[d]) \in Seq(Nat)
    BY <1>5 DEF TypeOK, Take
  <2>2. Targets(d, i) \in Todos \cup {<<>>}
    BY TargetsOwned
  <2>3. Return(d, i, Targets(d, i), ~Dup(d, i))
    BY <1>5 DEF Take
  <2>4. /\ todo' \in Seq(Engines)
        /\ drainPc' \in [Drains -> {"wait", "feed", "ack", "dead"}]
        /\ done' \in [Drains -> SUBSET Nat] /\ unfed' \in [Drains -> SUBSET Nat]
    BY <1>4, <2>1, <2>2, <2>3
  <2>5. seen' \in [Drains -> SUBSET Nat]
    BY <1>5, <2>1 DEF Take, Remember, TypeOK
  <2>6. pending' \in [Drains -> Seq(Nat)] /\ current' \in [Drains -> Nat]
    BY <1>5, <2>1 DEF Take, TypeOK
  <2>7. QED
    BY <1>5, <2>4, <2>5, <2>6 DEF Take, TypeOK, server
<1>6. ASSUME NEW d \in Drains, Raise(d)
      PROVE  TypeOK'
  <2>1. Tail(pending[d]) \in Seq(Nat)
    BY <1>6 DEF TypeOK, Raise
  <2>2. QED
    BY <1>6, <2>1 DEF Raise, TypeOK, server, history
<1>7. ASSUME NEW d \in Drains, Write(d)
      PROVE  TypeOK'
  <2>1. todo \in Todos /\ current[d] \in Nat
    BY <1>7 DEF Write, LoopInv, TypeOK
  <2>2. Head(todo) \in Engines /\ Tail(todo) \in Todos \cup {<<>>}
    BY <2>1, TodoTail DEF Todos
  <2>3. Return(d, current[d], Tail(todo), TRUE)
    BY <1>7 DEF Write
  <2>4. /\ todo' \in Seq(Engines)
        /\ drainPc' \in [Drains -> {"wait", "feed", "ack", "dead"}]
        /\ done' \in [Drains -> SUBSET Nat] /\ unfed' \in [Drains -> SUBSET Nat]
    BY <1>4, <2>1, <2>2, <2>3
  <2>5. fed' \in [Engines -> Seq(Nat)]
    BY <1>7, <2>1, <2>2 DEF Write, TypeOK
  <2>6. QED
    BY <1>7, <2>4, <2>5 DEF Write, TypeOK, server
<1>8. ASSUME NEW d \in Drains, Ack(d)
      PROVE  TypeOK'
  BY <1>8 DEF Ack, TypeOK, history
<1>9. ASSUME NEW e \in Engines, Stall(e)
      PROVE  TypeOK'
  BY <1>9 DEF Stall, TypeOK, server, loop, history
<1>10. CASE Exit \/ Kill
  <2>1. Stop
    BY <1>10 DEF Exit, Kill
  <2>2. QED
    BY <2>1 DEF Stop, TypeOK, server, history
<1>11. CASE Start
  BY <1>11 DEF Start, TypeOK, server, history, None
<1>12. QED
  BY <1>1, <1>2, <1>3, <1>5, <1>6, <1>7, <1>8, <1>9, <1>10, <1>11
  DEF Next, Deliveries, Work, Restart, DeliverAgain, DeliverTwice

(* One feed at a time holds the loop. *)
LEMMA LoopStep ==
  ASSUME TypeOK, LoopInv, [Next]_vars
  PROVE  LoopInv'
<1>1. CASE UNCHANGED <<phase, drainPc, todo>>
  BY <1>1 DEF LoopInv
<1>2. ASSUME NEW d \in Drains, Take(d)
      PROVE  LoopInv'
  <2> DEFINE i == Head(pending[d])
             rest == Targets(d, i)
  <2>1. /\ phase # "down" /\ \A c \in Drains : drainPc[c] # "feed"
        /\ phase' = phase
        /\ todo' = rest
        /\ drainPc' = [drainPc EXCEPT ![d] = IF rest = <<>> THEN "ack" ELSE "feed"]
    BY <1>2 DEF Take, LoopFree, Return
  <2>2. /\ drainPc'[d] = IF rest = <<>> THEN "ack" ELSE "feed"
        /\ \A c \in Drains : c # d => drainPc'[c] = drainPc[c]
    BY <2>1 DEF TypeOK
  <2>3. /\ rest \in Todos \cup {<<>>}
        /\ \A k \in DOMAIN rest : Owner(rest[k]) = d
        /\ phase # "closing" => rest # <<"crossgw">>
    BY TargetsOwned
  <2> HIDE DEF i, rest
  <2>4. QED
    BY <2>1, <2>2, <2>3 DEF LoopInv
<1>3. ASSUME NEW d \in Drains, Raise(d)
      PROVE  LoopInv'
  <2>1. /\ \A c \in Drains : drainPc[c] # "feed"
        /\ phase' = "closing"
        /\ drainPc' = [drainPc EXCEPT ![d] = "dead"]
    BY <1>3 DEF Raise, LoopFree
  <2>2. \A c \in Drains : drainPc'[c] # "feed"
    BY <2>1 DEF TypeOK
  <2>3. QED
    BY <2>1, <2>2 DEF LoopInv
<1>4. ASSUME NEW d \in Drains, Write(d)
      PROVE  LoopInv'
  <2>1. /\ drainPc[d] = "feed" /\ phase' = phase /\ todo' = Tail(todo)
        /\ drainPc' = [drainPc EXCEPT ![d] = IF Tail(todo) = <<>> THEN "ack" ELSE "feed"]
    BY <1>4 DEF Write, Return
  <2>2. /\ drainPc'[d] = IF Tail(todo) = <<>> THEN "ack" ELSE "feed"
        /\ \A c \in Drains : c # d => drainPc'[c] = drainPc[c]
    BY <2>1 DEF TypeOK
  <2>3. /\ todo \in Todos /\ phase # "down"
        /\ \A k \in DOMAIN todo : Owner(todo[k]) = d
        /\ \A c \in Drains : drainPc[c] = "feed" => c = d
    BY <2>1 DEF LoopInv
  <2>4. Tail(todo) = IF todo = <<"crossgw", "monpoly">> THEN <<"monpoly">> ELSE <<>>
    BY <2>3, TodoTail
  <2>5. \A c \in Drains : drainPc'[c] = "feed" => c = d
    BY <2>2, <2>3
  <2>6. CASE todo = <<"crossgw", "monpoly">>
    <3>1. todo' = <<"monpoly">>
      BY <2>1, <2>4, <2>6
    <3>2. 1 \in DOMAIN todo /\ todo[1] = "crossgw" /\ d = "monpoly"
      BY <2>3, <2>6 DEF Owner
    <3>3. \A k \in DOMAIN todo' : Owner(todo'[k]) = d
      BY <3>1, <3>2 DEF Owner
    <3>4. todo' \in Todos /\ todo' # <<"crossgw">>
      BY <3>1 DEF Todos
    <3>5. QED
      BY <2>1, <2>3, <2>5, <3>3, <3>4 DEF LoopInv
  <2>7. CASE todo # <<"crossgw", "monpoly">>
    BY <2>1, <2>2, <2>3, <2>4, <2>5, <2>7 DEF LoopInv
  <2>8. QED
    BY <2>6, <2>7
<1>5. ASSUME NEW d \in Drains, Ack(d)
      PROVE  LoopInv'
  <2>1. /\ phase # "down" /\ \A c \in Drains : drainPc[c] # "feed"
        /\ phase' = phase
        /\ drainPc' = [drainPc EXCEPT ![d] = "wait"]
    BY <1>5 DEF Ack, LoopFree
  <2>2. \A c \in Drains : drainPc'[c] # "feed"
    BY <2>1 DEF TypeOK
  <2>3. QED
    BY <2>1, <2>2 DEF LoopInv
<1>6. CASE Exit \/ Kill
  BY <1>6 DEF Exit, Kill, Stop, LoopInv
<1>7. CASE Start
  BY <1>7 DEF Start, LoopInv
<1>8. QED
  BY <1>1, <1>2, <1>3, <1>4, <1>5, <1>6, <1>7
  DEF Next, Deliveries, Work, Restart, DeliverNew, DeliverAgain, DeliverTwice, Deliver, Stall,
      vars, loop

(* What the backend saw in this run is fed, acknowledged unfed, or in hand. *)
LEMMA HandledStep ==
  ASSUME TypeOK, LoopInv, HandledInv, FedInv, [Next]_vars
  PROVE  HandledInv'
<1>1. CASE UNCHANGED <<phase, drainPc, current, seen, done, unfed>>
  BY <1>1 DEF HandledInv
<1>2. ASSUME NEW d \in Drains, NEW i \in Nat, NEW rest, NEW new, Return(d, i, rest, new)
      PROVE  /\ \A c \in Drains : c # d => drainPc'[c] = drainPc[c]
             /\ drainPc'[d] = IF rest = <<>> THEN "ack" ELSE "feed"
             /\ \A c \in Drains : done[c] \subseteq done'[c] /\ unfed[c] \subseteq unfed'[c]
             /\ rest = <<>> /\ new /\ phase \in {"up", "closing"} => i \in done'[d] \cup unfed'[d]
  BY <1>2 DEF Return, TypeOK
<1>3. ASSUME NEW d \in Drains, Take(d)
      PROVE  HandledInv'
  <2> DEFINE i == Head(pending[d])
             rest == Targets(d, i)
  <2>1. /\ Return(d, i, rest, ~Dup(d, i)) /\ Remember(d, i)
        /\ current' = [current EXCEPT ![d] = i]
        /\ phase' = phase /\ phase # "down"
        /\ \A c \in Drains : drainPc[c] # "feed"
    BY <1>3 DEF Take, LoopFree
  <2>2. i \in Nat
    BY <1>3 DEF Take, TypeOK
  <2>3. /\ current'[d] = i
        /\ \A c \in Drains : c # d => current'[c] = current[c] /\ seen'[c] = seen[c]
        /\ seen'[d] = IF d = "tick" THEN seen[d] ELSE seen[d] \cup {i}
    BY <2>1 DEF Remember, TypeOK
  <2>4. /\ \A c \in Drains : c # d => drainPc'[c] = drainPc[c]
        /\ drainPc'[d] = IF rest = <<>> THEN "ack" ELSE "feed"
        /\ \A c \in Drains : done[c] \subseteq done'[c] /\ unfed[c] \subseteq unfed'[c]
        /\ rest = <<>> /\ ~Dup(d, i) /\ phase \in {"up", "closing"} =>
             i \in done'[d] \cup unfed'[d]
    BY <1>2, <2>1, <2>2
  <2>5. Dup(d, i) => i \in done[d] \cup unfed[d]
    BY <2>1 DEF Dup, HandledInv
  <2>6. phase \in {"up", "closing"}
    BY <2>1 DEF TypeOK
  <2>7. rest = <<>> => i \in done'[d] \cup unfed'[d]
    BY <2>4, <2>5, <2>6
  <2> HIDE DEF i, rest
  <2>8. \A c \in Drains : drainPc'[c] = "ack" => current'[c] \in done'[c] \cup unfed'[c]
    BY <2>3, <2>4, <2>7 DEF HandledInv
  <2>9. ASSUME NEW c \in Drains, NEW j \in seen'[c]
        PROVE  j \in done'[c] \cup unfed'[c] \/ (drainPc'[c] = "feed" /\ current'[c] = j)
    BY <2>1, <2>3, <2>4, <2>7, <2>9 DEF HandledInv
  <2>10. QED
    BY <2>8, <2>9 DEF HandledInv
<1>4. ASSUME NEW d \in Drains, Raise(d)
      PROVE  HandledInv'
  <2>1. /\ \A c \in Drains : drainPc[c] # "feed"
        /\ drainPc' = [drainPc EXCEPT ![d] = "dead"]
        /\ UNCHANGED <<current, seen, done, unfed>> /\ phase # "down"
    BY <1>4 DEF Raise, LoopFree, history
  <2>2. \A c \in Drains : drainPc'[c] = IF c = d THEN "dead" ELSE drainPc[c]
    BY <2>1 DEF TypeOK
  <2>3. QED
    BY <2>1, <2>2 DEF HandledInv
<1>5. ASSUME NEW d \in Drains, Write(d)
      PROVE  HandledInv'
  <2>1. /\ Return(d, current[d], Tail(todo), TRUE) /\ drainPc[d] = "feed"
        /\ UNCHANGED <<phase, current, seen>>
    BY <1>5 DEF Write
  <2>2. current[d] \in Nat /\ phase \in {"up", "closing"}
    BY <2>1 DEF TypeOK, LoopInv
  <2>3. /\ \A c \in Drains : c # d => drainPc'[c] = drainPc[c]
        /\ drainPc'[d] = IF Tail(todo) = <<>> THEN "ack" ELSE "feed"
        /\ \A c \in Drains : done[c] \subseteq done'[c] /\ unfed[c] \subseteq unfed'[c]
        /\ Tail(todo) = <<>> => current[d] \in done'[d] \cup unfed'[d]
    BY <1>2, <2>1, <2>2
  <2>4. \A c \in Drains : drainPc'[c] = "ack" => current'[c] \in done'[c] \cup unfed'[c]
    BY <2>1, <2>3 DEF HandledInv
  <2>5. ASSUME NEW c \in Drains, NEW j \in seen'[c]
        PROVE  j \in done'[c] \cup unfed'[c] \/ (drainPc'[c] = "feed" /\ current'[c] = j)
    BY <2>1, <2>2, <2>3, <2>5 DEF HandledInv
  <2>6. QED
    BY <2>4, <2>5 DEF HandledInv
<1>6. ASSUME NEW d \in Drains, Ack(d)
      PROVE  HandledInv'
  <2>1. /\ \A c \in Drains : drainPc[c] # "feed"
        /\ drainPc' = [drainPc EXCEPT ![d] = "wait"]
        /\ current' = [current EXCEPT ![d] = 0]
        /\ UNCHANGED <<phase, seen, done, unfed>>
    BY <1>6 DEF Ack, LoopFree, history
  <2>2. \A c \in Drains : c # d => drainPc'[c] = drainPc[c] /\ current'[c] = current[c]
    BY <2>1 DEF TypeOK
  <2>3. drainPc'[d] = "wait"
    BY <2>1 DEF TypeOK
  <2>4. QED
    BY <2>1, <2>2, <2>3 DEF HandledInv
<1>7. CASE Exit \/ Kill
  BY <1>7 DEF Exit, Kill, Stop, HandledInv
<1>8. CASE Start
  <2>1. /\ phase = "down" /\ seen' = [d \in Drains |-> {}]
        /\ UNCHANGED <<drainPc, current, done, unfed>>
    BY <1>8 DEF Start, None, history
  <2>2. QED
    BY <2>1 DEF LoopInv, HandledInv
<1>9. QED
  BY <1>1, <1>3, <1>4, <1>5, <1>6, <1>7, <1>8
  DEF Next, Deliveries, Work, Restart, DeliverNew, DeliverAgain, DeliverTwice, Deliver, Stall,
      vars, loop, history

(* What an engine was given, after one more message. *)
LEMMA FedAppend ==
  ASSUME NEW s \in Seq(Nat), NEW i \in Nat
  PROVE  /\ Append(s, i) \in Seq(Nat) /\ DOMAIN s = 1..Len(s) /\ Len(s) \in Nat
         /\ DOMAIN Append(s, i) = 1..(Len(s) + 1)
         /\ \A k \in 1..Len(s) : Append(s, i)[k] = s[k]
         /\ Append(s, i)[Len(s) + 1] = i
         /\ ToSet(Append(s, i)) = ToSet(s) \cup {i}
         /\ \A k \in 1..Len(s) : s[k] \in ToSet(s)
<1>1. /\ Append(s, i) \in Seq(Nat) /\ DOMAIN s = 1..Len(s) /\ Len(s) \in Nat
      /\ DOMAIN Append(s, i) = 1..(Len(s) + 1)
      /\ \A k \in 1..Len(s) : Append(s, i)[k] = s[k]
      /\ Append(s, i)[Len(s) + 1] = i
  OBVIOUS
<1>2. \A k \in 1..Len(s) : s[k] \in ToSet(s)
  BY <1>1 DEF ToSet
<1>3. ASSUME NEW x \in ToSet(Append(s, i))
      PROVE  x \in ToSet(s) \cup {i}
  <2>1. PICK k \in 1..(Len(s) + 1) : x = Append(s, i)[k]
    BY <1>1, <1>3 DEF ToSet
  <2>2. CASE k = Len(s) + 1
    BY <1>1, <2>1, <2>2
  <2>3. CASE k # Len(s) + 1
    BY <1>1, <1>2, <2>1, <2>3
  <2>4. QED
    BY <2>2, <2>3
<1>4. ASSUME NEW x \in ToSet(s)
      PROVE  x \in ToSet(Append(s, i))
  <2>1. PICK k \in 1..Len(s) : x = s[k]
    BY <1>1, <1>4 DEF ToSet
  <2>2. k \in DOMAIN Append(s, i) /\ x = Append(s, i)[k]
    BY <1>1, <2>1
  <2>3. QED
    BY <2>2 DEF ToSet
<1>5. i \in ToSet(Append(s, i))
  <2>1. Len(s) + 1 \in DOMAIN Append(s, i)
    BY <1>1
  <2>2. QED
    BY <1>1, <2>1 DEF ToSet
<1>6. QED
  BY <1>1, <1>2, <1>3, <1>4, <1>5

(* A message that is not yet in an injective sequence keeps it so. *)
LEMMA InjectiveAppend ==
  ASSUME NEW s \in Seq(Nat), NEW i \in Nat, IsInjective(s), i \notin ToSet(s)
  PROVE  IsInjective(Append(s, i))
<1> DEFINE t == Append(s, i)
<1>1. /\ DOMAIN t = 1..(Len(s) + 1) /\ DOMAIN s = 1..Len(s) /\ Len(s) \in Nat
      /\ \A k \in 1..Len(s) : t[k] = s[k] /\ s[k] # i
      /\ t[Len(s) + 1] = i
  BY FedAppend
<1> HIDE DEF t
<1>2. \A k \in DOMAIN t : k \in 1..Len(s) \/ k = Len(s) + 1
  BY <1>1
<1>3. \A k \in 1..Len(s) : t[k] # t[Len(s) + 1]
  BY <1>1
<1>4. \A a, b \in 1..Len(s) : t[a] = t[b] => a = b
  BY <1>1 DEF IsInjective
<1>5. IsInjective(t)
  BY <1>2, <1>3, <1>4 DEF IsInjective
<1>6. QED
  BY <1>5 DEF t

(* The write of a feed, taken apart. *)
LEMMA WriteStep ==
  ASSUME TypeOK, LoopInv, NEW d \in Drains, Write(d)
  PROVE  LET e == todo[1] IN
         /\ e \in Engines /\ Owner(e) = d /\ todo \in Todos
         /\ fed'[e] = Append(fed[e], current[d])
         /\ \A x \in Engines : x # e => fed'[x] = fed[x]
         /\ UNCHANGED <<phase, current, seen, stream>>
         /\ todo' = Tail(todo)
         /\ drainPc[d] = "feed"
         /\ drainPc'[d] = IF Tail(todo) = <<>> THEN "ack" ELSE "feed"
         /\ \A c \in Drains : c # d => drainPc'[c] = drainPc[c] /\ drainPc[c] # "feed"
<1>1. todo \in Todos /\ \A k \in DOMAIN todo : Owner(todo[k]) = d
  BY DEF Write, LoopInv
<1>2. Head(todo) = todo[1] /\ 1 \in DOMAIN todo /\ todo[1] \in Engines
  BY <1>1, TodoTail
<1>3. \A c \in Drains : c # d => drainPc[c] # "feed"
  BY DEF Write, LoopInv
<1>4. QED
  BY <1>1, <1>2, <1>3 DEF Write, Return, TypeOK, server

(* An engine is given what its drain saw, and each message once. *)
LEMMA FedStep ==
  ASSUME TypeOK, LoopInv, FedInv, OncePerRun, [Next]_vars
  PROVE  FedInv' /\ OncePerRun'
<1>1. CASE UNCHANGED <<drainPc, current, todo, seen, fed>>
  BY <1>1 DEF FedInv, OncePerRun
<1>2. ASSUME NEW d \in Drains, Take(d)
      PROVE  FedInv' /\ OncePerRun'
  <2> DEFINE i == Head(pending[d])
             rest == Targets(d, i)
  <2>1. /\ \A c \in Drains : drainPc[c] # "feed"
        /\ fed' = fed /\ todo' = rest /\ Remember(d, i)
        /\ current' = [current EXCEPT ![d] = i]
        /\ drainPc' = [drainPc EXCEPT ![d] = IF rest = <<>> THEN "ack" ELSE "feed"]
    BY <1>2 DEF Take, LoopFree, Return
  <2>2. i \in Nat
    BY <1>2 DEF Take, TypeOK
  <2>3. /\ \A c \in Drains : c # d => drainPc'[c] = drainPc[c]
        /\ drainPc'[d] = IF rest = <<>> THEN "ack" ELSE "feed"
        /\ current'[d] = i
        /\ \A c \in Drains : seen[c] \subseteq seen'[c]
        /\ d # "tick" => i \in seen'[d]
    BY <2>1, <2>2 DEF Remember, TypeOK
  <2>4. rest # <<>> => d # "tick" /\ i \notin seen[d]
    BY TargetsShape DEF Dup
  <2>5. /\ rest \in Todos \cup {<<>>}
        /\ \A k \in DOMAIN rest : Owner(rest[k]) = d
    BY TargetsOwned
  <2>6. \A k \in DOMAIN rest : rest[k] \in Engines
    BY <2>5, TodoTail
  <2> HIDE DEF i, rest
  <2>7. \A e \in Engines : ToSet(fed'[e]) \subseteq seen'[Owner(e)]
    <3>1. \A e \in Engines : Owner(e) \in Drains
      BY DEF Owner, Drains
    <3>2. QED
      BY <2>1, <2>3, <3>1 DEF FedInv
  <2>8. ASSUME rest # <<>>, NEW k \in DOMAIN rest
        PROVE  i \notin ToSet(fed[rest[k]])
    BY <2>4, <2>5, <2>6, <2>8 DEF FedInv
  <2>9. ASSUME NEW c \in Drains, drainPc'[c] = "feed"
        PROVE  /\ c = d /\ rest # <<>>
               /\ current'[c] \in seen'[c]
               /\ \A k \in DOMAIN todo' : current'[c] \notin ToSet(fed'[todo'[k]])
    BY <2>1, <2>3, <2>4, <2>8, <2>9
  <2>10. QED
    BY <2>1, <2>7, <2>9 DEF FedInv, OncePerRun
<1>3. ASSUME NEW d \in Drains, Raise(d)
      PROVE  FedInv' /\ OncePerRun'
  <2>1. /\ \A c \in Drains : drainPc[c] # "feed"
        /\ drainPc' = [drainPc EXCEPT ![d] = "dead"]
        /\ UNCHANGED <<seen, fed>>
    BY <1>3 DEF Raise, LoopFree
  <2>2. \A c \in Drains : drainPc'[c] # "feed"
    BY <2>1 DEF TypeOK
  <2>3. QED
    BY <2>1, <2>2 DEF FedInv, OncePerRun
<1>4. ASSUME NEW d \in Drains, Write(d)
      PROVE  FedInv' /\ OncePerRun'
  <2> DEFINE e == todo[1]
             i == current[d]
  <2>1. /\ e \in Engines /\ Owner(e) = d /\ todo \in Todos
        /\ fed'[e] = Append(fed[e], i)
        /\ \A x \in Engines : x # e => fed'[x] = fed[x]
        /\ UNCHANGED <<phase, current, seen, stream>>
        /\ todo' = Tail(todo)
        /\ drainPc[d] = "feed"
        /\ drainPc'[d] = IF Tail(todo) = <<>> THEN "ack" ELSE "feed"
        /\ \A c \in Drains : c # d => drainPc'[c] = drainPc[c] /\ drainPc[c] # "feed"
    BY <1>4, WriteStep
  <2>2. 1 \in DOMAIN todo
    BY <2>1, TodoTail
  <2>3. i \in Nat /\ i \in seen[d] /\ i \notin ToSet(fed[e]) /\ fed[e] \in Seq(Nat)
    BY <2>1, <2>2 DEF FedInv, TypeOK
  <2>4. ToSet(fed'[e]) = ToSet(fed[e]) \cup {i}
    BY <2>1, <2>3, FedAppend
  <2>5. \A x \in Engines : ToSet(fed'[x]) \subseteq seen'[Owner(x)]
    BY <2>1, <2>3, <2>4 DEF FedInv
  <2>6. IsInjective(fed'[e])
    BY <2>1, <2>3, InjectiveAppend DEF OncePerRun
  <2>7. OncePerRun'
    BY <2>1, <2>6 DEF OncePerRun
  <2>8. ASSUME NEW c \in Drains, drainPc'[c] = "feed"
        PROVE  /\ current'[c] \in seen'[c]
               /\ \A k \in DOMAIN todo' : current'[c] \notin ToSet(fed'[todo'[k]])
    <3>1. c = d /\ Tail(todo) # <<>>
      BY <2>1, <2>8
    <3>2. todo = <<"crossgw", "monpoly">> /\ todo' = <<"monpoly">>
      BY <2>1, <3>1, TodoTail
    <3>3. e = "crossgw" /\ 2 \in DOMAIN todo /\ todo[2] = "monpoly"
      BY <3>2
    <3>4. i \notin ToSet(fed["monpoly"]) /\ fed'["monpoly"] = fed["monpoly"]
      BY <2>1, <3>3 DEF FedInv, Engines
    <3>5. QED
      BY <2>1, <2>3, <3>1, <3>2, <3>4
  <2>9. QED
    BY <2>5, <2>7, <2>8 DEF FedInv
<1>5. ASSUME NEW d \in Drains, Ack(d)
      PROVE  FedInv' /\ OncePerRun'
  <2>1. /\ \A c \in Drains : drainPc[c] # "feed"
        /\ drainPc' = [drainPc EXCEPT ![d] = "wait"]
        /\ UNCHANGED <<seen, fed>>
    BY <1>5 DEF Ack, LoopFree
  <2>2. \A c \in Drains : drainPc'[c] # "feed"
    BY <2>1 DEF TypeOK
  <2>3. QED
    BY <2>1, <2>2 DEF FedInv, OncePerRun
<1>6. CASE Exit \/ Kill
  <2>1. /\ \A c \in Drains : drainPc'[c] # "feed"
        /\ UNCHANGED <<seen, fed>>
    BY <1>6 DEF Exit, Kill, Stop
  <2>2. QED
    BY <2>1 DEF FedInv, OncePerRun
<1>7. CASE Start
  <2>1. /\ \A e \in Engines : fed'[e] = <<>>
        /\ \A c \in Drains : drainPc'[c] # "feed"
    BY <1>7 DEF Start, LoopInv
  <2>2. ToSet(<<>>) = {} /\ IsInjective(<<>>)
    BY DEF ToSet, IsInjective
  <2>3. QED
    BY <2>1, <2>2 DEF FedInv, OncePerRun
<1>8. QED
  BY <1>1, <1>2, <1>3, <1>4, <1>5, <1>6, <1>7
  DEF Next, Deliveries, Work, Restart, DeliverNew, DeliverAgain, DeliverTwice, Deliver, Stall,
      vars, loop

(* An overflow given to P3.6 and to P3.1-P3.4 leaves them in agreement, and
   so does another verdict given to P3.1-P3.4 alone. *)
LEMMA OverflowsBoth ==
  ASSUME NEW c \in Seq(Nat), NEW m \in Seq(Nat), NEW i \in Nat,
         stream[i] = "overflow", i \notin ToSet(c), i \notin ToSet(m), Overflows(c, m)
  PROVE  Overflows(Append(c, i), Append(m, i))
<1> DEFINE c1 == Append(c, i)
           m1 == Append(m, i)
<1>1. /\ DOMAIN c1 = 1..(Len(c) + 1) /\ DOMAIN c = 1..Len(c) /\ Len(c) \in Nat
      /\ \A k \in 1..Len(c) : c1[k] = c[k] /\ c[k] # i
      /\ c1[Len(c) + 1] = i /\ ToSet(c1) = ToSet(c) \cup {i}
  BY FedAppend
<1>2. /\ DOMAIN m1 = 1..(Len(m) + 1) /\ DOMAIN m = 1..Len(m) /\ Len(m) \in Nat
      /\ \A k \in 1..Len(m) : m1[k] = m[k] /\ m[k] # i
      /\ m1[Len(m) + 1] = i /\ ToSet(m1) = ToSet(m) \cup {i}
  BY FedAppend
<1> HIDE DEF c1, m1
<1>3. ToSet(c1) = {j \in ToSet(m1) : stream[j] = "overflow"}
  BY <1>1, <1>2 DEF Overflows
<1>4. ASSUME NEW a \in DOMAIN c1, NEW p \in DOMAIN m1, c1[a] = m1[p]
      PROVE  (a = Len(c) + 1 <=> p = Len(m) + 1)
  <2>1. a = Len(c) + 1 <=> c1[a] = i
    <3>1. a \in 1..Len(c) \/ a = Len(c) + 1
      BY <1>1
    <3>2. Len(c) + 1 \notin 1..Len(c)
      BY <1>1
    <3>3. QED
      BY <1>1, <3>1, <3>2
  <2>2. p = Len(m) + 1 <=> m1[p] = i
    <3>1. p \in 1..Len(m) \/ p = Len(m) + 1
      BY <1>2
    <3>2. Len(m) + 1 \notin 1..Len(m)
      BY <1>2
    <3>3. QED
      BY <1>2, <3>1, <3>2
  <2>3. QED
    BY <1>4, <2>1, <2>2
<1>5. ASSUME NEW a \in DOMAIN c1, NEW b \in DOMAIN c1, NEW p \in DOMAIN m1, NEW q \in DOMAIN m1,
             c1[a] = m1[p], c1[b] = m1[q]
      PROVE  a < b <=> p < q
  <2>1. (a = Len(c) + 1 <=> p = Len(m) + 1) /\ (b = Len(c) + 1 <=> q = Len(m) + 1)
    BY <1>4, <1>5
  <2>2. CASE a \in DOMAIN c /\ b \in DOMAIN c
    <3>1. p \in DOMAIN m /\ q \in DOMAIN m
      <4>1. a # Len(c) + 1 /\ b # Len(c) + 1
        BY <1>1, <2>2
      <4>2. QED
        BY <1>2, <2>1, <4>1
    <3>2. c[a] = m[p] /\ c[b] = m[q]
      BY <1>1, <1>2, <1>5, <2>2, <3>1
    <3>3. QED
      BY <2>2, <3>1, <3>2 DEF Overflows
  <2>3. CASE a = Len(c) + 1 \/ b = Len(c) + 1
    BY <1>1, <1>2, <2>1, <2>3
  <2>4. QED
    BY <1>1, <2>2, <2>3
<1>6. Overflows(c1, m1)
  BY <1>3, <1>5 DEF Overflows
<1>7. QED
  BY <1>6 DEF c1, m1

(* Writing anything but an overflow to P3.1-P3.4 keeps them in step with P3.6. *)
LEMMA OverflowsOther ==
  ASSUME NEW c \in Seq(Nat), NEW m \in Seq(Nat), NEW i \in Nat,
         stream[i] # "overflow", Overflows(c, m)
  PROVE  Overflows(c, Append(m, i))
<1> DEFINE m1 == Append(m, i)
<1>1. \A k \in DOMAIN c : c[k] \in ToSet(c)
  BY DEF ToSet
<1>2. \A k \in DOMAIN c : c[k] # i
  BY <1>1 DEF Overflows
<1>3. /\ DOMAIN m1 = 1..(Len(m) + 1) /\ DOMAIN m = 1..Len(m) /\ Len(m) \in Nat
      /\ \A k \in 1..Len(m) : m1[k] = m[k]
      /\ m1[Len(m) + 1] = i /\ ToSet(m1) = ToSet(m) \cup {i}
  BY FedAppend
<1> HIDE DEF m1
<1>4. ToSet(c) = {j \in ToSet(m1) : stream[j] = "overflow"}
  BY <1>3 DEF Overflows
<1>5. ASSUME NEW a \in DOMAIN c, NEW p \in DOMAIN m1, c[a] = m1[p]
      PROVE  p \in DOMAIN m /\ m1[p] = m[p]
  BY <1>2, <1>3, <1>5
<1>6. ASSUME NEW a \in DOMAIN c, NEW b \in DOMAIN c, NEW p \in DOMAIN m1, NEW q \in DOMAIN m1,
             c[a] = m1[p], c[b] = m1[q]
      PROVE  a < b <=> p < q
  BY <1>5, <1>6 DEF Overflows
<1>7. Overflows(c, m1)
  BY <1>4, <1>6 DEF Overflows
<1>8. QED
  BY <1>7 DEF m1

(* P3.6 is ahead of P3.1-P3.4 by the verdict in hand, or not at all. *)
LEMMA AgreeStep ==
  ASSUME TypeOK, LoopInv, FedInv, AgreeInv, [Next]_vars
  PROVE  AgreeInv'
<1>1. CASE UNCHANGED <<stream, phase, drainPc, current, todo, fed>>
  BY <1>1 DEF AgreeInv, Overflows
<1>2. "monpoly" \in Drains /\ "crossgw" \in Engines /\ "monpoly" \in Engines
      /\ fed["crossgw"] \in Seq(Nat) /\ fed["monpoly"] \in Seq(Nat)
  BY DEF Drains, Engines, TypeOK
<1>3. ASSUME NEW d \in Drains, Take(d)
      PROVE  AgreeInv'
  <2> DEFINE i == Head(pending[d])
             rest == Targets(d, i)
  <2>1. /\ \A c \in Drains : drainPc[c] # "feed"
        /\ UNCHANGED <<stream, phase, fed>> /\ todo' = rest
        /\ current' = [current EXCEPT ![d] = i]
        /\ drainPc' = [drainPc EXCEPT ![d] = IF rest = <<>> THEN "ack" ELSE "feed"]
    BY <1>3 DEF Take, LoopFree, Return, server
  <2>2. i \in Nat
    BY <1>3 DEF Take, TypeOK
  <2>3. SUFFICES ASSUME phase = "up"
                 PROVE  AgreeInv'
    BY <2>1 DEF AgreeInv
  <2>4. Overflows(fed["crossgw"], fed["monpoly"])
    BY <1>2, <2>1, <2>3 DEF AgreeInv
  <2>5. /\ drainPc'[d] = IF rest = <<>> THEN "ack" ELSE "feed"
        /\ current'[d] = i
        /\ \A c \in Drains : c # d => drainPc'[c] = drainPc[c]
    BY <2>1, <2>2 DEF TypeOK
  <2>6. CASE drainPc'["monpoly"] # "feed"
    BY <2>1, <2>4, <2>6 DEF AgreeInv, Overflows
  <2>7. CASE drainPc'["monpoly"] = "feed"
    <3>1. d = "monpoly" /\ rest # <<>>
      BY <1>2, <2>1, <2>5, <2>7
    <3>2. ~Dup(d, i)
      BY <3>1, TargetsShape
    <3>3. rest = IF stream[i] = "overflow" THEN <<"crossgw", "monpoly">> ELSE <<"monpoly">>
      BY <2>3, <3>1, <3>2, TargetsShape
    <3> HIDE DEF i, rest
    <3>4. CASE stream[i] = "overflow"
      BY <2>1, <2>4, <2>5, <3>1, <3>3, <3>4 DEF AgreeInv, Overflows
    <3>5. CASE stream[i] # "overflow"
      <4>1. Overflows(fed["crossgw"], Append(fed["monpoly"], i))
        BY <1>2, <2>2, <2>4, <3>5, OverflowsOther
      <4>2. QED
        BY <2>1, <2>5, <3>1, <3>3, <3>5, <4>1 DEF AgreeInv, Overflows
    <3>6. QED
      BY <3>4, <3>5
  <2>8. QED
    BY <2>6, <2>7
<1>4. CASE phase' # "up"
  BY <1>4 DEF AgreeInv
<1>5. ASSUME NEW d \in Drains, Write(d)
      PROVE  AgreeInv'
  <2> DEFINE e == todo[1]
             i == current[d]
  <2>1. /\ e \in Engines /\ Owner(e) = d /\ todo \in Todos
        /\ fed'[e] = Append(fed[e], i)
        /\ \A x \in Engines : x # e => fed'[x] = fed[x]
        /\ UNCHANGED <<phase, current, seen, stream>>
        /\ todo' = Tail(todo)
        /\ drainPc[d] = "feed"
        /\ drainPc'[d] = IF Tail(todo) = <<>> THEN "ack" ELSE "feed"
        /\ \A c \in Drains : c # d => drainPc'[c] = drainPc[c] /\ drainPc[c] # "feed"
    BY <1>5, WriteStep
  <2>2. 1 \in DOMAIN todo
    BY <2>1, TodoTail
  <2>3. SUFFICES ASSUME phase = "up"
                 PROVE  AgreeInv'
    BY <2>1 DEF AgreeInv
  <2>4. CASE d # "monpoly"
    <3>1. e # "crossgw" /\ e # "monpoly"
      BY <2>1, <2>4 DEF Owner
    <3>2. fed'["crossgw"] = fed["crossgw"] /\ fed'["monpoly"] = fed["monpoly"]
      BY <1>2, <2>1, <3>1
    <3>3. drainPc["monpoly"] # "feed" /\ drainPc'["monpoly"] # "feed"
      BY <1>2, <2>1, <2>4
    <3>4. QED
      BY <2>1, <2>3, <3>2, <3>3 DEF AgreeInv, Overflows
  <2>5. CASE d = "monpoly" /\ todo = <<"crossgw", "monpoly">>
    <3>1. e = "crossgw" /\ 2 \in DOMAIN todo /\ todo[2] = "monpoly"
      BY <2>5
    <3>2. i \notin ToSet(fed["crossgw"]) /\ i \notin ToSet(fed["monpoly"]) /\ i \in Nat
      BY <2>1, <2>2, <3>1 DEF FedInv, TypeOK
    <3>3. <<"crossgw", "monpoly">> # <<"monpoly">>
      OBVIOUS
    <3>4. stream[i] = "overflow" /\ Overflows(fed["crossgw"], fed["monpoly"])
      BY <2>1, <2>3, <2>5, <3>3 DEF AgreeInv
    <3>5. Overflows(Append(fed["crossgw"], i), Append(fed["monpoly"], i))
      BY <1>2, <3>2, <3>4, OverflowsBoth
    <3>6. todo' = <<"monpoly">> /\ drainPc'["monpoly"] = "feed"
      BY <2>1, <2>5, TodoTail
    <3>7. fed'["crossgw"] = Append(fed["crossgw"], i) /\ fed'["monpoly"] = fed["monpoly"]
      BY <1>2, <2>1, <3>1
    <3>8. Overflows(fed'["crossgw"], Append(fed'["monpoly"], current'["monpoly"]))
      BY <2>1, <2>5, <3>5, <3>7
    <3>9. QED
      BY <2>1, <3>6, <3>8 DEF AgreeInv, Overflows
  <2>6. CASE d = "monpoly" /\ todo # <<"crossgw", "monpoly">>
    <3>1. todo = <<"monpoly">> /\ Overflows(fed["crossgw"], Append(fed["monpoly"], i))
      BY <2>1, <2>3, <2>6 DEF AgreeInv
    <3>2. e = "monpoly" /\ Tail(todo) = <<>>
      BY <3>1
    <3>3. fed'["crossgw"] = fed["crossgw"] /\ fed'["monpoly"] = Append(fed["monpoly"], i)
      BY <1>2, <2>1, <3>2
    <3>4. drainPc'["monpoly"] # "feed"
      BY <2>1, <2>6, <3>2
    <3>5. QED
      BY <2>1, <3>1, <3>3, <3>4 DEF AgreeInv, Overflows
  <2>7. QED
    BY <2>4, <2>5, <2>6
<1>6. ASSUME NEW d \in Drains, Ack(d)
      PROVE  AgreeInv'
  <2>1. /\ \A c \in Drains : drainPc[c] # "feed"
        /\ drainPc' = [drainPc EXCEPT ![d] = "wait"]
        /\ UNCHANGED <<stream, phase, fed>>
    BY <1>6 DEF Ack, LoopFree
  <2>2. drainPc'["monpoly"] # "feed" /\ drainPc["monpoly"] # "feed"
    BY <1>2, <2>1 DEF TypeOK
  <2>3. QED
    BY <2>1, <2>2 DEF AgreeInv, Overflows
<1>7. CASE Start
  <2>1. /\ \A e \in Engines : fed'[e] = <<>>
        /\ drainPc'["monpoly"] # "feed"
    BY <1>2, <1>7 DEF Start, LoopInv
  <2>2. ToSet(<<>>) = {} /\ DOMAIN <<>> = {}
    BY DEF ToSet
  <2>3. QED
    BY <1>2, <2>1, <2>2 DEF AgreeInv, Overflows
<1>8. QED
  BY <1>1, <1>3, <1>4, <1>5, <1>6, <1>7
  DEF Next, Deliveries, Work, Restart, DeliverNew, DeliverAgain, DeliverTwice, Deliver, Stall,
      vars, server, loop, Raise, Exit, Kill, Stop
-----------------------------------------------------------------------------
(* Every state of the backend has the types and the invariants above: one
   feed at a time, nothing seen but not handled, each engine given what its
   drain saw, the engines of the overflows in step. *)
THEOREM BackendInvariant ==
  Spec => [](TypeOK /\ LoopInv /\ HandledInv /\ FedInv /\ OncePerRun /\ AgreeInv)
<1> DEFINE Inv == TypeOK /\ LoopInv /\ HandledInv /\ FedInv /\ OncePerRun /\ AgreeInv
<1>1. Init => Inv
  <2> SUFFICES ASSUME Init PROVE Inv
    OBVIOUS
  <2>1. stream \in Seq(Kinds)
    BY ConsumersAssumption DEF Init
  <2>2. /\ \A d \in Drains : drainPc[d] = "wait" /\ seen[d] = {}
        /\ \A e \in Engines : fed[e] = <<>>
    BY DEF Init, None
  <2>3. TypeOK
    BY <2>1 DEF Init, TypeOK, None
  <2>4. LoopInv /\ HandledInv
    BY <2>2 DEF LoopInv, HandledInv, Init
  <2>5. ToSet(<<>>) = {} /\ IsInjective(<<>>) /\ DOMAIN <<>> = {}
    BY DEF ToSet, IsInjective
  <2>6. FedInv /\ OncePerRun
    BY <2>2, <2>5 DEF FedInv, OncePerRun
  <2>7. AgreeInv
    BY <2>2, <2>5 DEF AgreeInv, Overflows, Drains, Engines
  <2>8. QED
    BY <2>3, <2>4, <2>6, <2>7
<1>2. Inv /\ [Next]_vars => Inv'
  BY TypeStep, LoopStep, HandledStep, FedStep, AgreeStep
<1>3. QED
  BY <1>1, <1>2, PTL DEF Spec

(* No verdict is written twice to an engine of one run, however often
   JetStream delivers it and whatever the other drain saw (_dup). *)
THEOREM EachOncePerRun == Spec => []OncePerRun
  BY BackendInvariant, PTL

(* P3.6 and P3.1-P3.4 are given the same overflows in the same order
   (to_monpoly). *)
THEOREM EnginesInStep == Spec => []EnginesAgree
<1>1. LoopInv /\ AgreeInv => EnginesAgree
  BY DEF AgreeInv, EnginesAgree
<1>2. QED
  BY <1>1, BackendInvariant, PTL

(* A drain acknowledges what it has fed, in this run or an earlier one, or
   what it works off while main closes. *)
THEOREM AckedIsFed == Spec => []AckedWasFed
<1>1. Init => AckedWasFed
  BY DEF Init, None, AckedWasFed
<1>2. TypeOK /\ HandledInv /\ AckedWasFed /\ [Next]_vars => AckedWasFed'
  <2> SUFFICES ASSUME TypeOK, HandledInv, AckedWasFed, [Next]_vars PROVE AckedWasFed'
    OBVIOUS
  <2>1. CASE UNCHANGED <<acked, done, unfed>>
    BY <2>1 DEF AckedWasFed
  <2>2. ASSUME NEW d \in Drains, Take(d) \/ Write(d)
        PROVE  AckedWasFed'
    <3>1. PICK i, rest, new : Return(d, i, rest, new)
      BY <2>2 DEF Take, Write
    <3>2. \A c \in Drains : done[c] \subseteq done'[c] /\ unfed[c] \subseteq unfed'[c]
      BY <3>1 DEF Return, TypeOK
    <3>3. acked' = acked
      BY <2>2 DEF Take, Write, server
    <3>4. QED
      BY <3>2, <3>3 DEF AckedWasFed
  <2>3. ASSUME NEW d \in Drains, Ack(d)
        PROVE  AckedWasFed'
    <3>1. /\ current[d] \in done[d] \cup unfed[d]
          /\ acked' = [acked EXCEPT ![d] = @ \cup {current[d]}]
          /\ UNCHANGED <<done, unfed>>
      BY <2>3 DEF Ack, HandledInv, history
    <3>2. \A c \in Drains : acked'[c] \subseteq acked[c] \cup IF c = d THEN {current[d]} ELSE {}
      BY <3>1 DEF TypeOK
    <3>3. QED
      BY <3>1, <3>2 DEF AckedWasFed
  <2>4. QED
    BY <2>1, <2>2, <2>3
    DEF Next, Deliveries, Work, Restart, DeliverNew, DeliverAgain, DeliverTwice, Deliver, Stall,
        vars, server, history, Raise, Exit, Kill, Stop, Start
<1>3. QED
  BY <1>1, <1>2, BackendInvariant, PTL DEF Spec
=============================================================================
