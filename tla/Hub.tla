--------------------------------- MODULE Hub ---------------------------------
(***************************************************************************)
(* The WebSocket hub of pkg/hub: the registration, unregistration and      *)
(* live-check loops of NewHub (hub.go), the read and write goroutines of a *)
(* Line (line.go), and the operations of UserLines (user_lines.go) that    *)
(* push messages and close commands to lines under its RWMutex.            *)
(*                                                                         *)
(* UserLines objects live in a heap of numbered objects, because the code  *)
(* can still hold one that the map `connections` no longer names.          *)
(* Payloads are abstract: a write channel is the number of its messages.   *)
(* Hub.Close is not modelled here; the channels to the application         *)
(* (messageChan, errorChan, registeredChan, unregisteredChan) are taken to *)
(* be drained.                                                             *)
(***************************************************************************)
EXTENDS Integers, Sequences, FiniteSets

CONSTANTS
    Lines,          \* connections ever made
    Users,
    UserOf,         \* Line.userId
    IdOf,           \* Line.id, the id of the client device
    Senders,        \* goroutines that push or send close commands
    Kinds,          \* what they do: subset of {"push", "close"}
    WriteCap,       \* capacity of writeChan
    (* What the surroundings may do.                                        *)
    EarlyClose,     \* may a line fail before it is registered?
    WritesFail,     \* do writes fail, on a peer that left or is slow?
    Overlap,        \* may a user open a line before the last one has left?
    Ticking         \* does the live-check ticker fire?

ASSUME HubAssumption ==
    /\ IsFiniteSet(Lines)
    /\ UserOf \in [Lines -> Users]
    /\ DOMAIN IdOf = Lines
    /\ Kinds \subseteq {"push", "close"}
    /\ WriteCap \in Nat \ {0}
    /\ {EarlyClose, WritesFail, Overlap, Ticking} \subseteq BOOLEAN

VARIABLES
    phase,      \* "new", "started" or "queued": how far Line.start is
    reader,     \* the read goroutine of each line
    writer,     \* the write goroutine of each line
    isClosed,   \* Line.isClosed
    gone,       \* the connection is closed, by the peer or by closeInternal
    chans,      \* closeChan and writeChan: "nil", "open" or "closed"
    buf,        \* number of messages in writeChan
    registeredChanInternal,
    unregisteredChanInternal,
    connections,    \* sync.Map: the object of each user, 0 for none
    heap,           \* UserLines objects: lines and lineCount, and whose it is (history)
    connCount,
    registering,    \* the registration loop, between its two steps
    unregistering,  \* the unregistration loop
    delArr,         \* the live-check loop: users it is about to delete
    snd,            \* the senders
    added,          \* history: lines that have been registered
    left,           \* history: lines the unregistration loop is done with
    disturbed       \* history: users whose lines did not come and go one by one,
                    \* see the actions that add to it

lineVars == <<phase, reader, writer, isClosed, gone>>
chanVars == <<chans, buf>>
queues   == <<registeredChanInternal, unregisteredChanInternal>>
mapVars  == <<connections, heap, connCount>>
loopVars == <<registering, unregistering, delArr>>
history  == <<added, left, disturbed>>
vars     == <<lineVars, chanVars, queues, mapVars, loopVars, snd, history>>

Objects == 1 .. Cardinality(Lines)

Idle == [pc |-> "idle", line |-> "none", obj |-> 0]

NoPush == [pc |-> "idle", kind |-> "none", obj |-> 0, todo |-> {}, line |-> "none"]

-----------------------------------------------------------------------------
Init ==
    /\ phase = [l \in Lines |-> "new"]
    /\ reader = [l \in Lines |-> "none"]
    /\ writer = [l \in Lines |-> "none"]
    /\ isClosed = [l \in Lines |-> FALSE]
    /\ gone = [l \in Lines |-> FALSE]
    /\ chans = [l \in Lines |-> "nil"]
    /\ buf = [l \in Lines |-> 0]
    /\ registeredChanInternal = <<>>
    /\ unregisteredChanInternal = <<>>
    /\ connections = [u \in Users |-> 0]
    /\ heap = <<>>
    /\ connCount = 0
    /\ registering = Idle
    /\ unregistering = Idle
    /\ delArr = {}
    /\ snd = [s \in Senders |-> NoPush]
    /\ added = {}
    /\ left = {}
    /\ disturbed = {}

-----------------------------------------------------------------------------
(* Line.start, line.go.                                                     *)

(* The user of l has another line that has not left.                        *)
Overlaps(l) ==
    \E k \in Lines \ {l} : UserOf[k] = UserOf[l] /\ phase[k] # "new" /\ k \notin left

DisturbedIf(cond, u) == disturbed' = IF cond THEN disturbed \union {u} ELSE disturbed

(* UpgradeWebSocket makes the line and start submits its two goroutines.    *)
Upgrade(l) ==
    /\ phase[l] = "new"
    /\ Overlap \/ ~Overlaps(l)
    /\ phase' = [phase EXCEPT ![l] = "started"]
    /\ reader' = [reader EXCEPT ![l] = "loop"]
    /\ writer' = [writer EXCEPT ![l] = "loop"]
    /\ DisturbedIf(Overlaps(l), UserOf[l])
    /\ UNCHANGED <<isClosed, gone, chanVars, queues, mapVars, loopVars, snd, added, left>>

(* Then, both running, it queues the line for registration.                 *)
QueueLine(l) ==
    /\ phase[l] = "started"
    /\ phase' = [phase EXCEPT ![l] = "queued"]
    /\ registeredChanInternal' = Append(registeredChanInternal, l)
    /\ UNCHANGED <<reader, writer, isClosed, gone, chanVars,
                   unregisteredChanInternal, mapVars, loopVars, snd, history>>

(* External: the peer hangs up.                                             *)
MayLeave(l) == phase[l] # "new" /\ (EarlyClose \/ l \in added)

PeerLeaves(l) ==
    /\ ~gone[l] /\ MayLeave(l)
    /\ gone' = [gone EXCEPT ![l] = TRUE]
    /\ UNCHANGED <<phase, reader, writer, isClosed, chanVars, queues, mapVars,
                   loopVars, snd, history>>

SetReader(l, to) ==
    /\ reader' = [reader EXCEPT ![l] = to]
    /\ UNCHANGED <<phase, writer, isClosed, gone, chanVars, queues, mapVars,
                   loopVars, history>>

(* The head of the read loop, no close command taken: block in NextReader.  *)
ReaderLoop(l) ==
    /\ reader[l] = "loop"
    /\ SetReader(l, IF isClosed[l] THEN "exited" ELSE "reading")
    /\ UNCHANGED snd

(* A binary message arrives and goes to messageChan.                        *)
ReadMessage(l) ==
    /\ reader[l] = "reading" /\ ~gone[l]
    /\ SetReader(l, "loop") /\ UNCHANGED snd

(* An error or a close frame ends the loop with Line.close, and so does a   *)
(* text message, which is not allowed.                                      *)
ReadEnds(l) ==
    /\ reader[l] = "reading" /\ gone[l]
    /\ SetReader(l, "load") /\ UNCHANGED snd

ReadText(l) ==
    /\ reader[l] = "reading" /\ ~gone[l] /\ MayLeave(l)
    /\ SetReader(l, "load") /\ UNCHANGED snd

(* Line.close, called by either goroutine, tests isClosed ...               *)
ReaderCloseLoad(l) ==
    /\ reader[l] = "load"
    /\ SetReader(l, IF isClosed[l] THEN "exited" ELSE "store") /\ UNCHANGED snd

SetWriter(l, to) ==
    /\ writer' = [writer EXCEPT ![l] = to]
    /\ UNCHANGED <<phase, reader, isClosed, gone, chans, queues, mapVars,
                   loopVars, history>>

WriterCloseLoad(l) ==
    /\ writer[l] = "load"
    /\ SetWriter(l, IF isClosed[l] THEN "exited" ELSE "store")
    /\ UNCHANGED <<buf, snd>>

(* ... then sets it ...                                                     *)
CloseStore(l) ==
    /\ isClosed' = [isClosed EXCEPT ![l] = TRUE]
    /\ UNCHANGED <<phase, gone, chanVars, queues, mapVars, loopVars, snd, history>>

ReaderCloseStore(l) ==
    /\ reader[l] = "store"
    /\ CloseStore(l)
    /\ reader' = [reader EXCEPT ![l] = "closing"] /\ UNCHANGED writer

WriterCloseStore(l) ==
    /\ writer[l] = "store"
    /\ CloseStore(l)
    /\ writer' = [writer EXCEPT ![l] = "closing"] /\ UNCHANGED reader

(* Mutant: the connection is left open.                                     *)
CloseConnNot(l) ==
    /\ unregisteredChanInternal' = Append(unregisteredChanInternal, l)
    /\ UNCHANGED <<phase, isClosed, gone, chanVars, registeredChanInternal,
                   mapVars, loopVars, snd, history>>

Queued(l) ==
    \E i \in 1 .. Len(unregisteredChanInternal) : unregisteredChanInternal[i] = l

Unregistering(l) == unregistering.pc # "idle" /\ unregistering.line = l

(* ... and closes the connection and queues the line: before it was         *)
(* registered, or a second time if both goroutines passed the test.         *)
CloseConn(l) ==
    /\ gone' = [gone EXCEPT ![l] = TRUE]
    /\ unregisteredChanInternal' = Append(unregisteredChanInternal, l)
    /\ DisturbedIf(l \notin added \/ Queued(l) \/ Unregistering(l) \/ l \in left, UserOf[l])
    /\ UNCHANGED <<phase, isClosed, chanVars, registeredChanInternal, mapVars,
                   loopVars, snd, added, left>>

ReaderCloseConn(l) ==
    /\ reader[l] = "closing"
    /\ CloseConn(l)
    /\ reader' = [reader EXCEPT ![l] = "exited"] /\ UNCHANGED writer

WriterCloseConn(l) ==
    /\ writer[l] = "closing"
    /\ CloseConn(l)
    /\ writer' = [writer EXCEPT ![l] = "exited"] /\ UNCHANGED reader

(* The head of the write loop, which spins while there is nothing to do.    *)
WriterLoop(l) ==
    /\ writer[l] = "loop" /\ isClosed[l]
    /\ SetWriter(l, "exited") /\ UNCHANGED <<buf, snd>>

(* A message is written; the write may fail, or time out on a slow peer.    *)
WriteMessage(l) ==
    /\ writer[l] = "loop" /\ ~isClosed[l] /\ chans[l] = "open" /\ buf[l] > 0
    /\ buf' = [buf EXCEPT ![l] = @ - 1]
    /\ \E to \in {"loop"} \union (IF WritesFail THEN {"load"} ELSE {}) :
          SetWriter(l, to)
    /\ UNCHANGED snd

-----------------------------------------------------------------------------
(* The operations of UserLines that push (PushMessage and its variants) or  *)
(* close (CloseAll, CloseLines, ClosePlatforms and their Except variants):  *)
(* take the read lock, go through the lines, and send to those selected     *)
(* that are not closed.  The selection by line id or platform is any set of *)
(* the lines here, and they are gone through in any order.                  *)

Locked(o) == \E s \in Senders : snd[s].pc \in {"iterate", "sending", "stuck"} /\ snd[s].obj = o

(* RWMutex: a waiting Lock keeps new readers out.                           *)
WriterWaits(o) ==
    \/ registering.pc = "add" /\ registering.obj = o
    \/ unregistering.pc = "remove" /\ unregistering.obj = o

SetSnd(s, r) == snd' = [snd EXCEPT ![s] = r]

(* GetUserLines.                                                            *)
Load(s) ==
    /\ snd[s].pc = "idle"
    /\ \E u \in Users, k \in Kinds :
          /\ connections[u] # 0
          /\ SetSnd(s, [NoPush EXCEPT !.pc = "lock", !.kind = k, !.obj = connections[u]])
    /\ UNCHANGED <<lineVars, chanVars, queues, mapVars, loopVars, history>>

RLock(s) ==
    /\ snd[s].pc = "lock" /\ ~WriterWaits(snd[s].obj)
    /\ \E sel \in SUBSET heap[snd[s].obj].lines :
          SetSnd(s, [snd[s] EXCEPT !.pc = "iterate", !.todo = sel])
    /\ UNCHANGED <<lineVars, chanVars, queues, mapVars, loopVars, history>>

(* Not closed, and with a channel to send on.                               *)
Wanted(l) == ~isClosed[l] /\ chans[l] = "open"

(* One turn of the loop: past the last line the read lock is released.      *)
Iterate(s) ==
    /\ snd[s].pc = "iterate"
    /\ \/ snd[s].todo = {} /\ SetSnd(s, NoPush)
       \/ \E l \in snd[s].todo :
             SetSnd(s, [snd[s] EXCEPT !.todo = @ \ {l}, !.line = l,
                                      !.pc = IF Wanted(l) THEN "sending" ELSE "iterate"])
    /\ UNCHANGED <<lineVars, chanVars, queues, mapVars, loopVars, history>>

Sent(s) == SetSnd(s, [snd[s] EXCEPT !.pc = "iterate"])

(* writeChan <- data, which blocks while the channel is full.               *)
SendMessage(s) ==
    LET l == snd[s].line IN
    /\ snd[s].pc = "sending" /\ snd[s].kind = "push"
    /\ chans[l] = "open" /\ buf[l] < WriteCap
    /\ buf' = [buf EXCEPT ![l] = @ + 1]
    /\ Sent(s)
    /\ UNCHANGED <<lineVars, chans, queues, mapVars, loopVars, history>>

(* A send on a channel that was closed panics, and the deferred RUnlock     *)
(* runs: the panic is recovered further up, or ends the process and with it *)
(* the behaviour.  A sender that reads the field of the line only after     *)
(* closeLineChans has set it to nil blocks for ever, holding the lock.      *)
SendPanics(s) ==
    /\ snd[s].pc = "sending" /\ chans[snd[s].line] = "closed"
    /\ SetSnd(s, NoPush) \/ SetSnd(s, [snd[s] EXCEPT !.pc = "stuck"])
    /\ UNCHANGED <<lineVars, chanVars, queues, mapVars, loopVars, history>>

(* closeChan is unbuffered: the command goes to whichever goroutine of the  *)
(* line receives it.  The reader just returns ...                           *)
Offered(s, l) ==
    /\ snd[s].pc = "sending" /\ snd[s].kind = "close" /\ snd[s].line = l
    /\ chans[l] = "open"

ReaderTakesClose(s, l) ==
    /\ Offered(s, l) /\ reader[l] = "loop"
    /\ SetReader(l, "exited") /\ Sent(s)

(* ... and the writer closes the line.                                      *)
WriterTakesClose(s, l) ==
    /\ Offered(s, l) /\ writer[l] = "loop"
    /\ SetWriter(l, "load") /\ Sent(s) /\ UNCHANGED buf

-----------------------------------------------------------------------------
(* The loops of NewHub.                                                     *)

(* Mutant: a new object is not stored in the map.                           *)
RegisterTakeUnstored ==
    /\ registering.pc = "idle" /\ registeredChanInternal # <<>>
    /\ LET l == Head(registeredChanInternal)
           fresh == connections[UserOf[l]] = 0
           o == IF fresh THEN Len(heap) + 1 ELSE connections[UserOf[l]]
       IN /\ registeredChanInternal' = Tail(registeredChanInternal)
          /\ chans' = [chans EXCEPT ![l] = "open"]
          /\ heap' = IF fresh THEN Append(heap, [lines |-> {}, count |-> 0, user |-> UserOf[l]])
                     ELSE heap
          /\ registering' = [pc |-> "add", line |-> l, obj |-> o]
    /\ UNCHANGED <<lineVars, buf, unregisteredChanInternal, connections, connCount,
                   unregistering, delArr, snd, history>>

(* Registration: make the channels and find or store the user's object ...  *)
RegisterTake ==
    /\ registering.pc = "idle" /\ registeredChanInternal # <<>>
    /\ LET l == Head(registeredChanInternal)
           u == UserOf[l]
           fresh == connections[u] = 0
           o == IF fresh THEN Len(heap) + 1 ELSE connections[u]
       IN /\ registeredChanInternal' = Tail(registeredChanInternal)
          /\ chans' = [chans EXCEPT ![l] = "open"]
          /\ heap' = IF fresh THEN Append(heap, [lines |-> {}, count |-> 0, user |-> u]) ELSE heap
          /\ connections' = [connections EXCEPT ![u] = o]
          /\ registering' = [pc |-> "add", line |-> l, obj |-> o]
    /\ UNCHANGED <<lineVars, buf, unregisteredChanInternal, connCount,
                   unregistering, delArr, snd, history>>

(* ... and add the line to it under its lock.                               *)
RegisterAdd ==
    /\ registering.pc = "add" /\ ~Locked(registering.obj)
    /\ heap' = [heap EXCEPT ![registering.obj].lines = @ \union {registering.line},
                            ![registering.obj].count = @ + 1]
    /\ connCount' = connCount + 1
    /\ added' = added \union {registering.line}
    /\ registering' = Idle
    /\ UNCHANGED <<lineVars, chanVars, queues, connections, unregistering,
                   delArr, snd, left, disturbed>>

(* Unregistration: a user that is not in the map is skipped.                *)
UnregisterTake ==
    /\ unregistering.pc = "idle" /\ unregisteredChanInternal # <<>>
    /\ LET l == Head(unregisteredChanInternal)
           o == connections[UserOf[l]]
       IN /\ unregisteredChanInternal' = Tail(unregisteredChanInternal)
          /\ IF o = 0
             THEN left' = left \union {l} /\ UNCHANGED unregistering
             ELSE /\ unregistering' = [pc |-> "remove", line |-> l, obj |-> o]
                  /\ UNCHANGED left
    /\ UNCHANGED <<lineVars, chanVars, registeredChanInternal, mapVars,
                   registering, delArr, snd, added, disturbed>>

(* The lines with another id.                                               *)
Without(ls, id) == {k \in ls : IdOf[k] # id}

(* Mutant: the channels are closed first, and then the line is removed.     *)
UnregisterCloseFirst ==
    /\ unregistering.pc = "remove"
    /\ \/ /\ chans[unregistering.line] = "open"
          /\ chans' = [chans EXCEPT ![unregistering.line] = "closed"]
          /\ UNCHANGED <<heap, connCount, unregistering>>
       \/ /\ chans[unregistering.line] # "open" /\ ~Locked(unregistering.obj)
          /\ heap' = [heap EXCEPT ![unregistering.obj].lines = Without(@, IdOf[unregistering.line]),
                                  ![unregistering.obj].count = @ - 1]
          /\ connCount' = connCount - 1
          /\ unregistering' = [unregistering EXCEPT !.pc = "close"]
          /\ UNCHANGED chans
    /\ UNCHANGED <<lineVars, buf, queues, connections, registering, delArr, snd,
                   history>>

(* remove, under the lock, every line with this id; count one down.         *)
UnregisterRemove ==
    /\ unregistering.pc = "remove" /\ ~Locked(unregistering.obj)
    /\ heap' = [heap EXCEPT ![unregistering.obj].lines = Without(@, IdOf[unregistering.line]),
                            ![unregistering.obj].count = @ - 1]
    /\ connCount' = connCount - 1
    /\ unregistering' = [unregistering EXCEPT !.pc = "close"]
    /\ UNCHANGED <<lineVars, chanVars, queues, connections, registering,
                   delArr, snd, history>>

(* closeLineChans, which also sets the fields to nil (see SendPanics), then *)
(* the test whether the user has a line left.                               *)
UnregisterClose ==
    /\ unregistering.pc = "close"
    /\ chans' = [chans EXCEPT ![unregistering.line] =
                    IF @ = "open" THEN "closed" ELSE @]
    /\ IF heap[unregistering.obj].count = 0
       THEN unregistering' = [unregistering EXCEPT !.pc = "delete"] /\ UNCHANGED left
       ELSE unregistering' = Idle /\ left' = left \union {unregistering.line}
    /\ UNCHANGED <<lineVars, buf, queues, mapVars, registering, delArr, snd, added, disturbed>>

(* A user without lines leaves the map.                                     *)
UnregisterDelete ==
    /\ unregistering.pc = "delete"
    /\ connections' = [connections EXCEPT ![UserOf[unregistering.line]] = 0]
    /\ unregistering' = Idle
    /\ left' = left \union {unregistering.line}
    /\ UNCHANGED <<lineVars, chanVars, queues, heap, connCount, registering,
                   delArr, snd, added, disturbed>>

(* The live check first collects the users without lines, then deletes      *)
(* them.  It never finds a line idle: connMaxIdleSeconds holds nanoseconds. *)
LiveCheckCollect ==
    /\ Ticking /\ delArr = {}
    /\ delArr' = {u \in Users : connections[u] # 0 /\ heap[connections[u]].count = 0}
    /\ UNCHANGED <<lineVars, chanVars, queues, mapVars, registering,
                   unregistering, snd, history>>

(* The user has got a line in the meantime, or is about to.                 *)
InUse(u) ==
    /\ connections[u] # 0
    /\ \/ heap[connections[u]].lines # {}
       \/ registering.pc = "add" /\ registering.obj = connections[u]

LiveCheckDelete ==
    \E u \in delArr :
        /\ connections' = [connections EXCEPT ![u] = 0]
        /\ delArr' = delArr \ {u}
        /\ DisturbedIf(InUse(u), u)
        /\ UNCHANGED <<lineVars, chanVars, queues, heap, connCount, registering,
                       unregistering, snd, added, left>>

-----------------------------------------------------------------------------
ReaderStep(l) ==
    \/ ReaderLoop(l) \/ ReadEnds(l)
    \/ ReaderCloseLoad(l) \/ ReaderCloseStore(l) \/ ReaderCloseConn(l)
    \/ \E s \in Senders : ReaderTakesClose(s, l)

WriterStep(l) ==
    \/ WriterLoop(l) \/ WriteMessage(l)
    \/ WriterCloseLoad(l) \/ WriterCloseStore(l) \/ WriterCloseConn(l)
    \/ \E s \in Senders : WriterTakesClose(s, l)

(* An operation of UserLines, whichever of them: its loop under the lock,    *)
(* and its sends.                                                           *)
SenderStep(s) == RLock(s) \/ Iterate(s) \/ SendMessage(s) \/ SendPanics(s)

RegisterLoop == RegisterTake \/ RegisterAdd

UnregisterLoop ==
    UnregisterTake \/ UnregisterRemove \/ UnregisterClose \/ UnregisterDelete

LiveCheckLoop == LiveCheckCollect \/ LiveCheckDelete

Next ==
    \/ \E l \in Lines :
          \/ Upgrade(l) \/ QueueLine(l) \/ PeerLeaves(l) \/ ReadMessage(l) \/ ReadText(l)
          \/ ReaderStep(l) \/ WriterStep(l)
    \/ \E s \in Senders : Load(s) \/ SenderStep(s)
    \/ RegisterLoop \/ UnregisterLoop \/ LiveCheckLoop

Spec == Init /\ [][Next]_vars

(* Goroutines and loops run.  Peers need not connect, send or leave, the    *)
(* application need not push or close anything, and a blocked sender stays  *)
(* blocked.                                                                 *)
Fairness ==
    /\ \A l \in Lines :
          WF_vars(QueueLine(l)) /\ WF_vars(ReaderStep(l)) /\ WF_vars(WriterStep(l))
    /\ \A s \in Senders : WF_vars(SenderStep(s))
    /\ WF_vars(RegisterLoop) /\ WF_vars(UnregisterLoop) /\ WF_vars(LiveCheckLoop)

FairSpec == Spec /\ Fairness

-----------------------------------------------------------------------------
TypeOK ==
    /\ phase \in [Lines -> {"new", "started", "queued"}]
    /\ reader \in [Lines -> {"none", "loop", "reading", "load", "store", "closing",
                           "exited"}]
    /\ writer \in [Lines -> {"none", "loop", "load", "store", "closing", "exited"}]
    /\ isClosed \in [Lines -> BOOLEAN]
    /\ gone \in [Lines -> BOOLEAN]
    /\ chans \in [Lines -> {"nil", "open", "closed"}]
    /\ buf \in [Lines -> 0 .. WriteCap]
    /\ registeredChanInternal \in Seq(Lines)
    /\ unregisteredChanInternal \in Seq(Lines)
    /\ \A o \in 1 .. Len(heap) : heap[o] \in [lines : SUBSET Lines, count : Int, user : Users]
    /\ connections \in [Users -> 0 .. Len(heap)]
    /\ Len(heap) <= Cardinality(Lines)
    /\ connCount \in Int
    /\ delArr \subseteq Users

LinesOf(o) == IF o = 0 THEN {} ELSE heap[o].lines

Live(l) == l \in added /\ ~isClosed[l]

(* Every loop is between two turns and has nothing queued, and no line is   *)
(* on its way to the queue.                                                 *)
Quiet ==
    /\ \A l \in Lines : reader[l] # "closing" /\ writer[l] # "closing"
    /\ registeredChanInternal = <<>> /\ registering.pc = "idle"
    /\ unregisteredChanInternal = <<>> /\ unregistering.pc = "idle"
    /\ delArr = {}

(* "先删后关": no sender is about to send on a channel that is closed, which  *)
(* would be a panic: lines leave the UserLines before their channels close, *)
(* as long as the lines of the user come and go one by one.                 *)
NoSendOnClosed ==
    \A s \in Senders :
        snd[s].pc = "sending" /\ UserOf[snd[s].line] \notin disturbed =>
            chans[snd[s].line] # "closed"

(* A registered line that is not closed can be reached through the map, so  *)
(* that pushes and close commands for its user find it.                     *)
LiveLinesReachable ==
    \A l \in Lines :
        Live(l) /\ UserOf[l] \notin disturbed => l \in LinesOf(connections[UserOf[l]])

(* With the loops at rest, no closed line is left in the map, and no user   *)
(* without a line.                                                          *)
NothingLeftBehind ==
    Quiet => \A u \in Users \ disturbed :
        /\ \A l \in LinesOf(connections[u]) : ~isClosed[l]
        /\ connections[u] # 0 => LinesOf(connections[u]) # {}

(* "所有仍在连接状态的数量": with the loops at rest, LiveCount is the number *)
(* of registered lines that are not closed.                                 *)
ConnCountExact ==
    Quiet /\ disturbed = {} => connCount = Cardinality({l \in Lines : Live(l)})

(* The map of users is exact: it leads to every live line, keeps nothing of *)
(* those that are gone, and LiveCount counts what it holds: for users whose *)
(* lines come and go one by one, each registered before it ends and closed  *)
(* by one of its goroutines, and not deleted by the live check meanwhile.   *)
MapIsExact == LiveLinesReachable /\ NothingLeftBehind /\ ConnCountExact

(* Once a line is closed, by whichever of its goroutines, both end: closing *)
(* the connection wakes the reader out of NextReader.                       *)
GoroutinesEnd ==
    \A l \in Lines :
        isClosed[l] ~> (reader[l] = "exited" /\ writer[l] = "exited")

(* "关闭指定连接": a line that took a close command is closed.               *)
CloseCommandCloses ==
    \A l \in Lines :
        (\E s \in Senders : snd[s].pc = "sending" /\ snd[s].kind = "close" /\ snd[s].line = l)
            ~> isClosed[l]

=============================================================================
