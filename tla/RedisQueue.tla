----------------------------- MODULE RedisQueue ------------------------------
(***************************************************************************)
(* The message queue over Redis streams of pkg/distribute/queue.go:        *)
(* Publish, the subscriber goroutines of Subscribe, and Close.             *)
(*                                                                         *)
(* The stream is the messages 1 .. published; the consumer group has read  *)
(* those up to lastDelivered.  A message read and not yet acknowledged is  *)
(* pending under the name of the consumer that read it.  All subscribers   *)
(* belong to one group.  Trimming by xaddMaxLen is left out, and the       *)
(* context given to Subscribe does not end.                                *)
(***************************************************************************)
EXTENDS Integers, FiniteSets

CONSTANTS
    Subscribers,    \* goroutines of Subscribe, in one or several processes
    Names,          \* consumer names
    None,
    FirstName,      \* the name each subscriber starts with
    MaxMsgs,        \* bound: messages published
    BatchSize,      \* m.batchSize
    KeepsName,      \* does a restarted process use its name again?
    KeepsComing,    \* do other messages arrive for ever?
    MaxFaults,      \* bound: Redis commands that fail
    MaxRestarts,    \* bound: crashes of subscriber processes
    MayClose        \* is Close called?

ASSUME RedisQueueAssumption ==
    /\ FirstName \in [Subscribers -> Names]
    /\ \A s, t \in Subscribers : FirstName[s] = FirstName[t] => s = t
    /\ None \notin Names
    /\ MaxMsgs \in Nat
    /\ BatchSize \in Nat \ {0}
    /\ MaxFaults \in Nat
    /\ MaxRestarts \in Nat
    /\ {KeepsName, KeepsComing, MayClose} \subseteq BOOLEAN

VARIABLES
    published,
    lastDelivered,
    pending,    \* pending[m]: the consumer that has m pending, or None
    acked,      \* messages acknowledged
    handled,    \* history: messages the handler returned nil for
    name,       \* name[s]: the consumer name the subscriber goes by
    used,       \* names ever used
    pc,         \* where each subscriber is
    stage,      \* the id it reads with: ">" or "0"
    batch,      \* messages of the last read still to be handled, oldest first
    close,      \* Close: "none", "sending", "sent" or "done" (client closed)
    faults,
    restarts

vars == <<published, lastDelivered, pending, acked, handled, name, used, pc,
          stage, batch, close, faults, restarts>>

stream == <<published, lastDelivered, pending, acked>>
env    == <<close, faults, restarts>>

Messages == 1 .. MaxMsgs

-----------------------------------------------------------------------------
Init ==
    /\ published = 0
    /\ lastDelivered = 0
    /\ pending = [m \in Messages |-> None]
    /\ acked = {}
    /\ handled = {}
    /\ name = FirstName
    /\ used = {FirstName[s] : s \in Subscribers}
    /\ pc = [s \in Subscribers |-> "loop"]
    /\ stage = [s \in Subscribers |-> ">"]
    /\ batch = [s \in Subscribers |-> {}]
    /\ close = "none"
    /\ faults = 0
    /\ restarts = 0

(* The message of its batch that the subscriber is at.                      *)
Current(s, m) == m \in batch[s] /\ \A k \in batch[s] : m <= k

(* XADD.                                                                    *)
Publish ==
    /\ published < MaxMsgs /\ close # "done"
    /\ published' = published + 1
    /\ UNCHANGED <<lastDelivered, pending, acked, handled, name, used, pc,
                   stage, batch, env>>

Goto(s, l, st, b) ==
    /\ pc' = [pc EXCEPT ![s] = l]
    /\ stage' = [stage EXCEPT ![s] = st]
    /\ batch' = [batch EXCEPT ![s] = b]
    /\ UNCHANGED <<name, used>>

(* The head of the loop: no close request waits, so read with ">".          *)
Poll(s) ==
    /\ pc[s] = "loop" /\ close # "sending"
    /\ Goto(s, "reading", ">", {})
    /\ UNCHANGED <<stream, handled, env>>

(* Close sends on an unbuffered channel: a subscriber at the head of its    *)
(* loop takes the request and ends ...                                      *)
LoopTakesClose(s) ==
    /\ pc[s] = "loop" /\ close = "sending"
    /\ close' = "sent"
    /\ Goto(s, "exited", ">", {})
    /\ UNCHANGED <<stream, handled, faults, restarts>>

(* XREADGROUP with ">" and no timeout: the next messages of the stream, now *)
(* pending for this consumer.  It blocks while there is none.               *)
NextMessages ==
    LET last == IF lastDelivered + BatchSize < published
                THEN lastDelivered + BatchSize ELSE published
    IN  (lastDelivered + 1) .. last

Deliver(s) ==
    /\ stage[s] = ">" /\ close # "done" /\ lastDelivered < published
    /\ \E last \in NextMessages :
          lastDelivered' = last /\ \A m \in NextMessages : m <= last
    /\ pending' = [m \in Messages |-> IF m \in NextMessages THEN name[s] ELSE pending[m]]

ReadNew(s) ==
    /\ pc[s] = "reading" /\ Deliver(s)
    /\ Goto(s, "handling", ">", NextMessages)
    /\ UNCHANGED <<published, acked, handled, env>>

(* External: a message of no further interest ends the blocking read; it is *)
(* handled and acknowledged.                                                *)
ReadOther(s) ==
    /\ KeepsComing /\ close # "done"
    /\ pc[s] = "reading" /\ stage[s] = ">" /\ lastDelivered = published
    /\ Goto(s, "handling", ">", {})
    /\ UNCHANGED <<stream, handled, env>>

(* Of these messages the oldest, as many as one read returns.               *)
FirstOf(ms) == {m \in ms : Cardinality({k \in ms : k <= m}) <= BatchSize}

(* Mutant: the messages pending for any consumer are read again.            *)
ReadPendingAnyone(s) ==
    /\ pc[s] = "reading" /\ stage[s] = "0" /\ close # "done"
    /\ Goto(s, "handling", "0", FirstOf({m \in Messages : pending[m] # None}))
    /\ UNCHANGED <<stream, handled, env>>

(* XREADGROUP with "0": the first pending messages of this consumer.        *)
ReadPending(s) ==
    /\ pc[s] = "reading" /\ stage[s] = "0" /\ close # "done"
    /\ Goto(s, "handling", "0", FirstOf({m \in Messages : pending[m] = name[s]}))
    /\ UNCHANGED <<stream, handled, env>>

(* A read fails, or is executed and its answer is lost: back to the head of *)
(* the loop.                                                                *)
Fault ==
    IF close = "done" THEN UNCHANGED faults
    ELSE faults < MaxFaults /\ faults' = faults + 1

ReadFails(s) ==
    /\ pc[s] = "reading"
    /\ Fault
    /\ Goto(s, "loop", ">", {})
    /\ Deliver(s) \/ UNCHANGED <<lastDelivered, pending>>
    /\ UNCHANGED <<published, acked, handled, close, restarts>>

(* After consume with ">" comes consume with "0", and then the loop.        *)
Leave(s) ==
    IF stage[s] = ">" THEN Goto(s, "reading", "0", {}) ELSE Goto(s, "loop", ">", {})

BatchDone(s) ==
    /\ pc[s] = "handling" /\ batch[s] = {}
    /\ Leave(s)
    /\ UNCHANGED <<stream, handled, env>>

(* ... and one in the middle of a batch takes it too, but only leaves the   *)
(* batch.                                                                   *)
BatchTakesClose(s) ==
    /\ pc[s] = "handling" /\ batch[s] # {} /\ close = "sending"
    /\ close' = "sent"
    /\ Leave(s)
    /\ UNCHANGED <<stream, handled, faults, restarts>>

(* The handler returns nil: acknowledge.                                    *)
HandleOk(s) ==
    /\ pc[s] = "handling" /\ close # "sending"
    /\ \E m \in batch[s] : Current(s, m) /\ handled' = handled \union {m}
    /\ Goto(s, "acking", stage[s], batch[s])
    /\ UNCHANGED <<stream, env>>

(* Mutant: a failed message is acknowledged like any other.                 *)
HandleErrAcks(s) ==
    /\ pc[s] = "handling" /\ batch[s] # {} /\ close # "sending"
    /\ Goto(s, "acking", stage[s], batch[s])
    /\ UNCHANGED <<stream, handled, env>>

(* On to the next message.                                                  *)
Skip(s) ==
    \E m \in batch[s] :
        Current(s, m) /\ Goto(s, "handling", stage[s], batch[s] \ {m})

(* The handler fails.                                                       *)
HandleErr(s) ==
    /\ pc[s] = "handling" /\ close # "sending"
    /\ Skip(s)
    /\ UNCHANGED <<stream, handled, env>>

(* Mutant: the handler's success is not acknowledged.                       *)
AckForgotten(s) ==
    /\ pc[s] = "acking"
    /\ Skip(s)
    /\ UNCHANGED <<stream, handled, env>>

(* XACK.  If only its answer is lost, the effect and the next step of the   *)
(* subscriber are the same; it may also fail.                               *)
Ack(s) ==
    /\ pc[s] = "acking" /\ close # "done"
    /\ \E m \in batch[s] :
          /\ Current(s, m)
          /\ acked' = acked \union {m}
          /\ pending' = [pending EXCEPT ![m] = None]
          /\ Goto(s, "handling", stage[s], batch[s] \ {m})
    /\ UNCHANGED <<published, lastDelivered, handled, env>>

AckFails(s) ==
    /\ pc[s] = "acking"
    /\ Fault
    /\ Skip(s)
    /\ UNCHANGED <<stream, handled, close, restarts>>

(* A subscriber that Close did not stop uses m.client, by now nil.          *)
Panics(s) ==
    /\ close = "done" /\ pc[s] \in {"reading", "acking"}
    /\ Goto(s, "exited", ">", {})
    /\ UNCHANGED <<stream, handled, env>>

(* Close: send the request, wait half a second, close the client.           *)
CloseBegin ==
    /\ MayClose /\ close = "none"
    /\ close' = "sending"
    /\ UNCHANGED <<stream, handled, name, used, pc, stage, batch, faults, restarts>>

CloseClient ==
    /\ close = "sent"
    /\ close' = "done"
    /\ UNCHANGED <<stream, handled, name, used, pc, stage, batch, faults, restarts>>

(* External: a process crashes and subscribes again, under its old name or, *)
(* with a fresh uuid, under a new one.                                      *)
Restart(s) ==
    /\ restarts < MaxRestarts /\ pc[s] # "exited" /\ close # "done"
    /\ restarts' = restarts + 1
    /\ pc' = [pc EXCEPT ![s] = "loop"]
    /\ stage' = [stage EXCEPT ![s] = ">"]
    /\ batch' = [batch EXCEPT ![s] = {}]
    /\ \E n \in Names :
          /\ IF KeepsName THEN n = name[s] ELSE n \notin used
          /\ name' = [name EXCEPT ![s] = n]
          /\ used' = used \union {n}
    /\ UNCHANGED <<stream, handled, close, faults>>

-----------------------------------------------------------------------------
Step(s) ==
    \/ Poll(s) \/ LoopTakesClose(s) \/ ReadNew(s) \/ ReadOther(s) \/ ReadPending(s)
    \/ BatchDone(s) \/ BatchTakesClose(s) \/ HandleOk(s) \/ HandleErr(s) \/ Ack(s)

Next ==
    \/ Publish \/ CloseBegin \/ CloseClient
    \/ \E s \in Subscribers :
          Step(s) \/ ReadFails(s) \/ AckFails(s) \/ Panics(s) \/ Restart(s)

Spec == Init /\ [][Next]_vars

(* Subscribers run, and the handler, called again and again with a message, *)
(* succeeds in the end.  Nobody is obliged to publish or to close.          *)
Fairness ==
    /\ \A s \in Subscribers : WF_vars(Step(s))
    /\ \A m \in Messages :
          SF_vars(\E s \in Subscribers : HandleOk(s) /\ Current(s, m))

FairSpec == Spec /\ Fairness

-----------------------------------------------------------------------------
TypeOK ==
    /\ published \in 0 .. MaxMsgs
    /\ lastDelivered \in 0 .. published
    /\ pending \in [Messages -> Names \union {None}]
    /\ acked \subseteq Messages
    /\ handled \subseteq Messages
    /\ name \in [Subscribers -> Names]
    /\ used \subseteq Names
    /\ pc \in [Subscribers -> {"loop", "reading", "handling", "acking", "exited"}]
    /\ stage \in [Subscribers -> {">", "0"}]
    /\ batch \in [Subscribers -> SUBSET Messages]
    /\ close \in {"none", "sending", "sent", "done"}
    /\ faults \in 0 .. MaxFaults
    /\ restarts \in 0 .. MaxRestarts

(* No message is lost: what the group has read is acknowledged or pending,  *)
(* and only what the handler accepted is acknowledged, whichever reads,     *)
(* acknowledgements and processes fail and whenever Close comes.            *)
NothingLost ==
    /\ \A m \in 1 .. lastDelivered : m \in acked \/ pending[m] # None
    /\ acked \subseteq handled

(* Two subscribers never have the same message at hand: a consumer reads    *)
(* only new messages and those pending under its own name, which no other   *)
(* running subscriber has.                                                  *)
OwnMessagesOnly ==
    \A s, t \in Subscribers : s # t => batch[s] \cap batch[t] = {}

(* "保证消息至少被成功消费1次": every published message is handled           *)
(* successfully and acknowledged in the end, unless the queue is closed.    *)
EveryMessageAcked ==
    \A m \in Messages : m <= published ~> m \in acked \/ close # "none"

=============================================================================
