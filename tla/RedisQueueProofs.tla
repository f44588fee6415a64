--------------------------- MODULE RedisQueueProofs --------------------------
(***************************************************************************)
(* Proofs about RedisQueue, for any number of subscribers, messages,       *)
(* failing commands and restarts, and any batch size.                      *)
(***************************************************************************)
EXTENDS RedisQueue, TLAPS

USE RedisQueueAssumption

-----------------------------------------------------------------------------
(* The inductive invariant.                                                 *)

(* Running subscribers have names of their own, each of them on record.     *)
NamesDiffer ==
    /\ \A s, t \in Subscribers : name[s] = name[t] => s = t
    /\ \A s \in Subscribers : name[s] \in used

(* Only what the group has read is pending.                                 *)
PendingRead == \A m \in Messages : pending[m] # None => m <= lastDelivered

(* What a subscriber has at hand is pending under its name.                 *)
AtHandPending ==
    \A s \in Subscribers : \A m \in batch[s] : pending[m] = name[s]

(* A subscriber acknowledges a message after the handler accepted it.       *)
AckAfterHandling ==
    \A s \in Subscribers : \A m \in batch[s] :
        pc[s] = "acking" /\ Current(s, m) => m \in handled

Inv ==
    /\ TypeOK
    /\ NamesDiffer
    /\ PendingRead
    /\ AtHandPending
    /\ AckAfterHandling
    /\ NothingLost

-----------------------------------------------------------------------------
(* There is at most one message a subscriber is at.                         *)
LEMMA CurrentUnique ==
    ASSUME TypeOK, NEW s \in Subscribers, NEW m \in batch[s], NEW k \in batch[s],
           Current(s, m), Current(s, k)
    PROVE  m = k
<1>1. m \in Int /\ k \in Int
  BY DEF TypeOK, Messages
<1> QED
  BY <1>1 DEF Current

LEMMA InitInv == Init => Inv
<1> SUFFICES ASSUME Init PROVE Inv
  OBVIOUS
<1>1. TypeOK
  BY DEF Init, TypeOK, Messages
<1>2. NamesDiffer
  BY DEF Init, NamesDiffer
<1>3. PendingRead /\ AtHandPending /\ AckAfterHandling /\ NothingLost
  BY DEF Init, PendingRead, AtHandPending, AckAfterHandling, NothingLost
<1> QED
  BY <1>1, <1>2, <1>3 DEF Inv

(* Where a step only moves a subscriber and takes messages from its batch   *)
(* (nothing new at hand, nothing to acknowledge), the stream unchanged.     *)
LEMMA MoveInv ==
    ASSUME Inv, NEW s \in Subscribers, NEW l \in {"loop", "reading", "handling", "exited"},
           NEW st \in {">", "0"}, NEW b \in SUBSET batch[s],
           Goto(s, l, st, b), UNCHANGED <<stream, handled>>,
           close' \in {"none", "sending", "sent", "done"},
           faults' \in 0 .. MaxFaults, restarts' \in 0 .. MaxRestarts
    PROVE  Inv'
<1> USE DEF Goto, stream
<1>1. TypeOK'
  BY DEF Inv, TypeOK
<1>2. NamesDiffer'
  BY DEF Inv, NamesDiffer
<1>3. PendingRead' /\ AtHandPending'
  BY DEF Inv, TypeOK, PendingRead, AtHandPending
<1>4. AckAfterHandling'
  BY DEF Inv, TypeOK, AckAfterHandling, Current
<1>5. NothingLost'
  BY DEF Inv, NothingLost
<1> QED
  BY <1>1, <1>2, <1>3, <1>4, <1>5 DEF Inv

(* A command that fails is counted, unless the client is closed.            *)
LEMMA FaultCounted ==
    ASSUME TypeOK, Fault
    PROVE  faults' \in 0 .. MaxFaults
BY DEF Fault, TypeOK

LEMMA PublishInv == ASSUME Inv, Publish PROVE Inv'
<1> USE DEF Publish, env
<1>1. TypeOK'
  BY DEF Inv, TypeOK
<1>2. NamesDiffer' /\ PendingRead' /\ AtHandPending' /\ AckAfterHandling' /\ NothingLost'
  BY DEF Inv, NamesDiffer, PendingRead, AtHandPending, AckAfterHandling, NothingLost, Current
<1> QED
  BY <1>1, <1>2 DEF Inv

(* Messages are delivered to s, and it gets to know of them or not.         *)
LEMMA DeliverInv ==
    ASSUME Inv, NEW s \in Subscribers, Deliver(s),
           NEW l \in {"loop", "handling"}, NEW b \in SUBSET NextMessages,
           Goto(s, l, ">", b), UNCHANGED <<published, acked, handled, close, restarts>>,
           faults' \in 0 .. MaxFaults
    PROVE  Inv'
<1> DEFINE last == IF lastDelivered + BatchSize < published
                   THEN lastDelivered + BatchSize ELSE published
           ms == (lastDelivered + 1) .. last
<1>1. /\ last \in 0 .. published
      /\ lastDelivered < last
      /\ lastDelivered \in Nat
      /\ ms \subseteq Messages
      /\ \A k \in ms : lastDelivered < k /\ k <= last
  BY RedisQueueAssumption DEF Inv, TypeOK, Deliver, Messages
<1>0. NextMessages = ms
  BY DEF NextMessages
<1>2. /\ lastDelivered' = last
      /\ pending' = [m \in Messages |-> IF m \in ms THEN name[s] ELSE pending[m]]
      /\ Goto(s, l, ">", b) /\ b \subseteq ms
      /\ UNCHANGED <<published, acked, handled, close, restarts>>
  <2>1. PICK k \in ms : lastDelivered' = k /\ \A m \in ms : m <= k
    BY <1>0, Zenon DEF Deliver
  <2>2. k = last
    BY <1>1, <2>1
  <2> QED
    BY <1>0, <2>1, <2>2 DEF Deliver
<1>3. \A k \in Messages : k \in ms <=> lastDelivered < k /\ k <= last
  BY <1>1 DEF Messages
<1> HIDE DEF last, ms
<1>4. TypeOK'
  BY <1>1, <1>2 DEF Inv, TypeOK, Goto
<1>5. NamesDiffer'
  BY <1>2 DEF Inv, NamesDiffer, Goto
<1>9. PendingRead'
  <2> SUFFICES ASSUME NEW m \in Messages, pending'[m] # None
               PROVE  m <= last
    BY <1>2 DEF PendingRead
  <2>1. m \in ms \/ m <= lastDelivered
    BY <1>2 DEF Inv, PendingRead
  <2> QED
    BY <2>1, <1>1 DEF Messages
<1>6. AtHandPending'
  <2> SUFFICES ASSUME NEW t \in Subscribers, NEW m \in batch'[t]
               PROVE  pending'[m] = name[t]
    BY <1>2 DEF AtHandPending, Goto
  <2>1. CASE t = s
    BY <2>1, <1>1, <1>2 DEF Inv, TypeOK, Goto
  <2>2. CASE t # s
    <3>1. m \in Messages /\ pending[m] = name[t] /\ name[t] # None
      BY <2>2, <1>2 DEF Inv, TypeOK, AtHandPending, Goto
    <3>2. m \notin ms
      BY <3>1, <1>1 DEF Inv, PendingRead, Messages
    <3> QED
      BY <3>1, <3>2, <1>2
  <2> QED
    BY <2>1, <2>2
<1>7. AckAfterHandling'
  BY <1>2 DEF Inv, TypeOK, AckAfterHandling, Current, Goto
<1>8. NothingLost'
  <2>1. ASSUME NEW m \in 1 .. last, m \notin acked
        PROVE  pending'[m] # None
    <3>1. m \in Messages
      BY <1>1 DEF Inv, TypeOK, Messages
    <3>2. name[s] # None
      BY DEF Inv, TypeOK
    <3>3. CASE m \in ms
      BY <3>1, <3>2, <3>3, <1>2
    <3>4. CASE m \notin ms
      <4>1. m \in 1 .. lastDelivered
        BY <3>1, <3>4, <1>1, <1>3
      <4> QED
        BY <4>1, <3>1, <3>4, <2>1, <1>2 DEF Inv, NothingLost
    <3> QED
      BY <3>3, <3>4
  <2> QED
    BY <2>1, <1>2 DEF Inv, NothingLost
<1> QED
  BY <1>4, <1>5, <1>6, <1>7, <1>8, <1>9 DEF Inv

LEMMA ReadPendingInv == ASSUME Inv, NEW s \in Subscribers, ReadPending(s) PROVE Inv'
<1> DEFINE b == FirstOf({m \in Messages : pending[m] = name[s]})
<1>1. /\ b \subseteq Messages
      /\ \A m \in b : pending[m] = name[s]
  BY DEF FirstOf
<1>2. Goto(s, "handling", "0", b) /\ UNCHANGED <<stream, handled, env>>
  BY DEF ReadPending
<1> HIDE DEF b
<1>3. TypeOK'
  BY <1>1, <1>2 DEF Inv, TypeOK, Goto, stream, env
<1>4. NamesDiffer'
  BY <1>2 DEF Inv, NamesDiffer, Goto
<1>5. PendingRead' /\ AtHandPending'
  BY <1>1, <1>2 DEF Inv, TypeOK, PendingRead, AtHandPending, Goto, stream
<1>6. AckAfterHandling'
  BY <1>2 DEF Inv, TypeOK, AckAfterHandling, Current, Goto
<1>7. NothingLost'
  BY <1>2 DEF Inv, NothingLost, stream
<1> QED
  BY <1>3, <1>4, <1>5, <1>6, <1>7 DEF Inv

LEMMA HandleOkInv == ASSUME Inv, NEW s \in Subscribers, HandleOk(s) PROVE Inv'
<1> PICK m \in batch[s] : Current(s, m) /\ handled' = handled \union {m}
  BY DEF HandleOk
<1>1. Goto(s, "acking", stage[s], batch[s]) /\ UNCHANGED <<stream, env>>
  BY DEF HandleOk
<1>2. TypeOK'
  BY <1>1 DEF Inv, TypeOK, Goto, stream, env
<1>3. NamesDiffer'
  BY <1>1 DEF Inv, NamesDiffer, Goto
<1>4. batch' = batch
  BY <1>1 DEF Inv, TypeOK, Goto
<1>5. PendingRead' /\ AtHandPending'
  BY <1>1, <1>4 DEF Inv, PendingRead, AtHandPending, Goto, stream
<1>6. AckAfterHandling'
  <2> SUFFICES ASSUME NEW t \in Subscribers, NEW k \in batch[t], pc'[t] = "acking",
                      Current(t, k)
               PROVE  k \in handled \union {m}
    BY <1>4 DEF AckAfterHandling, Current
  <2>1. CASE t = s
    BY <2>1, CurrentUnique DEF Inv
  <2>2. CASE t # s
    BY <2>2, <1>1 DEF Inv, TypeOK, AckAfterHandling, Goto
  <2> QED
    BY <2>1, <2>2
<1>7. NothingLost'
  BY <1>1 DEF Inv, NothingLost, stream
<1> QED
  BY <1>2, <1>3, <1>5, <1>6, <1>7 DEF Inv

LEMMA AckInv == ASSUME Inv, NEW s \in Subscribers, Ack(s) PROVE Inv'
<1> PICK m \in batch[s] :
        /\ Current(s, m)
        /\ acked' = acked \union {m}
        /\ pending' = [pending EXCEPT ![m] = None]
        /\ Goto(s, "handling", stage[s], batch[s] \ {m})
  BY DEF Ack
<1>1. /\ m \in Messages /\ pc[s] = "acking"
      /\ UNCHANGED <<published, lastDelivered, handled, env>>
  BY DEF Ack, Inv, TypeOK
<1>2. TypeOK'
  BY <1>1 DEF Inv, TypeOK, Goto, env
<1>3. NamesDiffer'
  BY DEF Inv, NamesDiffer, Goto
<1>4. PendingRead'
  BY <1>1 DEF Inv, TypeOK, PendingRead
<1>5. AtHandPending'
  <2> SUFFICES ASSUME NEW t \in Subscribers, NEW k \in batch'[t]
               PROVE  pending'[k] = name[t]
    BY DEF AtHandPending, Goto
  <2>1. k \in batch[t] /\ k \in Messages /\ pending[k] = name[t]
    BY DEF Inv, TypeOK, AtHandPending, Goto
  <2>2. k # m
    <3>1. CASE t = s
      BY <3>1 DEF Inv, TypeOK, Goto
    <3>2. CASE t # s
      <4>1. pending[m] = name[s] /\ name[s] # name[t]
        BY <3>2 DEF Inv, AtHandPending, NamesDiffer
      <4> QED
        BY <4>1, <2>1
    <3> QED
      BY <3>1, <3>2
  <2> QED
    BY <2>1, <2>2 DEF Inv, TypeOK
<1>6. AckAfterHandling'
  BY <1>1 DEF Inv, TypeOK, AckAfterHandling, Current, Goto
<1>7. NothingLost'
  <2>1. m \in handled
    BY <1>1 DEF Inv, AckAfterHandling
  <2> QED
    BY <2>1, <1>1 DEF Inv, TypeOK, NothingLost, Messages
<1> QED
  BY <1>2, <1>3, <1>4, <1>5, <1>6, <1>7 DEF Inv

(* A restarted process comes back with nothing at hand, under the name it   *)
(* had or one never used.                                                   *)
LEMMA RestartInv == ASSUME Inv, NEW s \in Subscribers, Restart(s) PROVE Inv'
<1> USE DEF Restart, stream
<1> PICK n \in Names :
        /\ IF KeepsName THEN n = name[s] ELSE n \notin used
        /\ name' = [name EXCEPT ![s] = n]
        /\ used' = used \union {n}
  OBVIOUS
<1>1. TypeOK'
  BY DEF Inv, TypeOK
<1>2. NamesDiffer'
  BY DEF Inv, TypeOK, NamesDiffer
<1>3. PendingRead'
  BY DEF Inv, PendingRead
<1>4. AtHandPending'
  BY DEF Inv, TypeOK, AtHandPending
<1>5. AckAfterHandling'
  BY DEF Inv, TypeOK, AckAfterHandling, Current
<1>6. NothingLost'
  BY DEF Inv, NothingLost
<1> QED
  BY <1>1, <1>2, <1>3, <1>4, <1>5, <1>6 DEF Inv

LEMMA CloseInv == ASSUME Inv, CloseBegin \/ CloseClient PROVE Inv'
<1> USE DEF CloseBegin, CloseClient, stream
<1>1. TypeOK'
  BY DEF Inv, TypeOK
<1>2. NamesDiffer' /\ PendingRead' /\ AtHandPending' /\ AckAfterHandling' /\ NothingLost'
  BY DEF Inv, NamesDiffer, PendingRead, AtHandPending, AckAfterHandling, NothingLost,
         Current
<1> QED
  BY <1>1, <1>2 DEF Inv

LEMMA NextInv == Inv /\ [Next]_vars => Inv'
<1> SUFFICES ASSUME Inv, [Next]_vars PROVE Inv'
  OBVIOUS
<1>1. CASE Publish
  BY <1>1, PublishInv
<1>2. CASE CloseBegin \/ CloseClient
  BY <1>2, CloseInv
<1>3. ASSUME NEW s \in Subscribers, Step(s)
      PROVE  Inv'
  <2> USE DEF Inv, TypeOK
  <2>1. CASE Poll(s)
    BY <2>1, MoveInv DEF Poll, env
  <2>2. CASE LoopTakesClose(s)
    BY <2>2, MoveInv DEF LoopTakesClose
  <2>3. CASE ReadNew(s)
    BY <2>3, DeliverInv DEF ReadNew, env
  <2>4. CASE ReadOther(s)
    BY <2>4, MoveInv DEF ReadOther, env
  <2>5. CASE ReadPending(s)
    BY <2>5, ReadPendingInv
  <2>6. CASE BatchDone(s)
    BY <2>6, MoveInv DEF BatchDone, Leave, env
  <2>7. CASE BatchTakesClose(s)
    BY <2>7, MoveInv DEF BatchTakesClose, Leave
  <2>8. CASE HandleOk(s)
    BY <2>8, HandleOkInv
  <2>9. CASE HandleErr(s)
    <3>1. PICK m \in batch[s] : Goto(s, "handling", stage[s], batch[s] \ {m})
      BY <2>9 DEF HandleErr, Skip
    <3> QED
      BY <3>1, <2>9, MoveInv DEF HandleErr, env
  <2>10. CASE Ack(s)
    BY <2>10, AckInv
  <2> QED
    BY <1>3, <2>1, <2>2, <2>3, <2>4, <2>5, <2>6, <2>7, <2>8, <2>9, <2>10 DEF Step
<1>4. ASSUME NEW s \in Subscribers, ReadFails(s)
      PROVE  Inv'
  <2>1. faults' \in 0 .. MaxFaults
    BY <1>4, FaultCounted DEF ReadFails, Inv
  <2>2. CASE Deliver(s)
    BY <1>4, <2>1, <2>2, DeliverInv DEF ReadFails
  <2>3. CASE UNCHANGED <<lastDelivered, pending>>
    BY <1>4, <2>1, <2>3, MoveInv DEF ReadFails, stream, Inv, TypeOK
  <2> QED
    BY <1>4, <2>2, <2>3 DEF ReadFails
<1>5. ASSUME NEW s \in Subscribers, AckFails(s)
      PROVE  Inv'
  <2>1. PICK m \in batch[s] : Goto(s, "handling", stage[s], batch[s] \ {m})
    BY <1>5 DEF AckFails, Skip
  <2> QED
    BY <2>1, <1>5, MoveInv, FaultCounted DEF AckFails, Inv, TypeOK
<1>6. ASSUME NEW s \in Subscribers, Panics(s)
      PROVE  Inv'
  BY <1>6, MoveInv DEF Panics, env, Inv, TypeOK
<1>7. ASSUME NEW s \in Subscribers, Restart(s)
      PROVE  Inv'
  BY <1>7, RestartInv
<1>8. CASE UNCHANGED vars
  BY <1>8 DEF vars, Inv, TypeOK, NamesDiffer, PendingRead, AtHandPending,
              AckAfterHandling, NothingLost, Current
<1> QED
  BY <1>1, <1>2, <1>3, <1>4, <1>5, <1>6, <1>7, <1>8 DEF Next

-----------------------------------------------------------------------------
LEMMA Invariance == Spec => []Inv
BY InitInv, NextInv, PTL DEF Spec

(* TypeOK is an invariant.                                                  *)
THEOREM QueueTypeCorrect == Spec => []TypeOK
<1>1. Inv => TypeOK
  BY DEF Inv
<1> QED
  BY Invariance, <1>1, PTL

(* A message that the group has read is acknowledged or pending, and only   *)
(* what the handler accepted is acknowledged, however many reads,           *)
(* acknowledgements and processes fail and whenever Close comes.            *)
THEOREM NoMessageLost == Spec => []NothingLost
<1>1. Inv => NothingLost
  BY DEF Inv
<1> QED
  BY Invariance, <1>1, PTL

(* No message is at hand at two subscribers, whether they come back under   *)
(* their old names or under new ones.                                       *)
THEOREM OneConsumerPerMessage == Spec => []OwnMessagesOnly
<1>1. Inv => OwnMessagesOnly
  BY DEF Inv, AtHandPending, NamesDiffer, OwnMessagesOnly
<1> QED
  BY Invariance, <1>1, PTL
=============================================================================
