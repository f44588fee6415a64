-------------------------------- MODULE SseHub --------------------------------
(***************************************************************************)
(* The server-sent events hub of pkg/sse, and AIHub.Serve that uses it.    *)
(* A line is served by the goroutine of its HTTP request; two loops of the *)
(* hub register and unregister lines; other goroutines push messages and   *)
(* send close commands under the RWMutex of a UserLines; Hub.Close ends    *)
(* everything.  A send on a closed channel panics, which ends the          *)
(* goroutine: gin and the pool recover.                                    *)
(*                                                                         *)
(* The channels between the goroutines and to the application are bounded: *)
(* a send on a full one waits.  AIHub reads none of those it is given.     *)
(***************************************************************************)
EXTENDS Integers, Sequences, FiniteSets

CONSTANTS
    Lines,      \* connections ever made, numbered in the order they are made
    Users,
    UserOf,     \* Line.userId
    IdOf,       \* Line.id, chosen by the client
    Senders,    \* goroutines that push or close
    WriteCap,   \* capacity of writeChan
    QueueCap,   \* capacity of the channels of the hub
    ReadChans,  \* which channels for it the application reads
    MaxOps      \* bound: operations of the senders

ASSUME SseHubAssumption ==
    /\ IsFiniteSet(Lines) /\ Lines \subseteq Nat \ {0}
    /\ UserOf \in [Lines -> Users]
    /\ DOMAIN IdOf = Lines
    /\ WriteCap \in Nat \ {0} /\ QueueCap \in Nat \ {0}
    /\ ReadChans \subseteq {"registered", "unregistered", "error"}
    /\ MaxOps \in Nat

VARIABLES
    line,       \* the goroutine of each line
    isClosed,   \* Line.isClosed
    chans,      \* writeChan and closeChan: "nil", "open", or "closed" (and nil again)
    buf,        \* number of messages in writeChan
    sees,       \* were the channels there when the goroutine entered its select?
    registeredChanInternal, unregisteredChanInternal,
    unread,         \* how many items registeredChan, unregisteredChan and
                    \* errorChan hold for the application
    connections,    \* sync.Map: the UserLines of each user, 0 for none
    heap,           \* UserLines objects: lines and lineCount, and whose it is (history)
    connCount,
    reg, unreg,     \* the two loops of NewHub
    closing,        \* Hub.Close
    op,             \* pushes and close commands in progress
    ops,            \* how many were begun
    added, left,    \* history: lines registered, lines unregistered
    hasty           \* history: users with a line that began before the last one
                    \* left, or that ended before it was registered

lineVars == <<line, isClosed>>
chanVars == <<chans, buf, sees>>
queues   == <<registeredChanInternal, unregisteredChanInternal, unread>>
mapVars  == <<connections, heap, connCount>>
history  == <<added, left, hasty>>
vars     == <<lineVars, chanVars, queues, mapVars, reg, unreg, closing, op, ops, history>>

Idle == [at |-> "idle", o |-> 0, l |-> 0, todo |-> {}, kind |-> "none", ids |-> {}]

Actors == Lines \union Senders

(* Hub.isClosed, and what Close does last.                                  *)
HubClosed == closing.at # "open"
ChansClosed == closing.at = "done"

(* A channel of the hub with n items takes another one.  A goroutine that   *)
(* sends on a closed one panics, also if it waits there.                    *)
Room(n) == ~ChansClosed /\ n < QueueCap

Tell(chan) == Room(unread[chan]) /\ unread' = [unread EXCEPT ![chan] = @ + 1]

Init ==
    /\ line = [l \in Lines |-> "new"]
    /\ isClosed = [l \in Lines |-> FALSE]
    /\ chans = [l \in Lines |-> "nil"]
    /\ buf = [l \in Lines |-> 0]
    /\ sees = [l \in Lines |-> FALSE]
    /\ registeredChanInternal = <<>> /\ unregisteredChanInternal = <<>>
    /\ unread = [registered |-> 0, unregistered |-> 0, error |-> 0]
    /\ connections = [u \in Users |-> 0]
    /\ heap = <<>>
    /\ connCount = 0
    /\ reg = Idle /\ unreg = Idle
    /\ closing = [at |-> "open", todo |-> {}, held |-> {}]
    /\ op = [a \in Actors |-> Idle]
    /\ ops = 0
    /\ added = {} /\ left = {} /\ hasty = {}

-----------------------------------------------------------------------------
(* AIHub.Serve: an old line with this id is told to close first.            *)
Serve(l) ==
    LET o == connections[UserOf[l]] IN
    /\ line[l] = "new" /\ \A k \in Lines : k < l => line[k] # "new"
    /\ line' = [line EXCEPT ![l] = "start"]
    /\ op' = IF o = 0 THEN op
             ELSE [op EXCEPT ![l] = [Idle EXCEPT !.at = "rlock", !.o = o,
                                                !.kind = "close", !.ids = {IdOf[l]}]]
    /\ hasty' = IF \E k \in Lines \ {l} : /\ UserOf[k] = UserOf[l]
                                          /\ line[k] # "new" /\ k \notin left
                THEN hasty \union {UserOf[l]} ELSE hasty
    /\ UNCHANGED <<isClosed, chanVars, queues, mapVars, reg, unreg, closing,
                   ops, added, left>>

Goes(l, at) == line' = [line EXCEPT ![l] = at]

(* Line.start, once CloseLines has returned: the test of Hub.isClosed.      *)
Start(l) ==
    /\ line[l] = "start" /\ op[l].at = "idle"
    /\ Goes(l, IF HubClosed THEN "ended" ELSE "register")
    /\ UNCHANGED <<isClosed, chanVars, queues, mapVars, reg, unreg, closing, op, ops,
                   history>>

(* The send that follows.                                                   *)
Register(l) ==
    /\ line[l] = "register"
    /\ \/ /\ Room(Len(registeredChanInternal))
          /\ Goes(l, "loop")
          /\ registeredChanInternal' = Append(registeredChanInternal, l)
       \/ /\ ChansClosed
          /\ Goes(l, "ended")
          /\ UNCHANGED registeredChanInternal
    /\ UNCHANGED <<isClosed, chanVars, unregisteredChanInternal, unread, mapVars, reg,
                   unreg, closing, op, ops, history>>

(* Mutant: the loop does not look at the hub.                               *)
LoopHubIgnored(l) ==
    /\ line[l] = "loop"
    /\ IF isClosed[l] THEN Goes(l, "ended") /\ UNCHANGED sees
       ELSE Goes(l, "select") /\ sees' = [sees EXCEPT ![l] = chans[l] = "open"]
    /\ UNCHANGED <<isClosed, chans, buf, queues, mapVars, reg, unreg, closing,
                   op, ops, history>>

(* The head of the loop.  The select waits on the channels there are now.   *)
Loop(l) ==
    /\ line[l] = "loop"
    /\ IF isClosed[l] \/ HubClosed THEN Goes(l, "ended") /\ UNCHANGED sees
       ELSE Goes(l, "select") /\ sees' = [sees EXCEPT ![l] = chans[l] = "open"]
    /\ UNCHANGED <<isClosed, chans, buf, queues, mapVars, reg, unreg, closing,
                   op, ops, history>>

(* A select that returns has seen its channels.                             *)
Leaves(l, at) == Goes(l, at) /\ sees' = [sees EXCEPT ![l] = FALSE]

(* A message; an empty one if the channel was closed.  A failing push is    *)
(* ignored.                                                                 *)
TakeMessage(l) ==
    /\ line[l] = "select" /\ sees[l]
    /\ buf[l] > 0 \/ chans[l] = "closed"
    /\ Leaves(l, "loop")
    /\ buf' = [buf EXCEPT ![l] = IF @ > 0 THEN @ - 1 ELSE 0]
    /\ UNCHANGED <<isClosed, chans, queues, mapVars, reg, unreg, closing,
                   op, ops, history>>

TakeTick(l) ==
    /\ line[l] = "select"
    /\ Leaves(l, "loop")
    /\ UNCHANGED <<isClosed, chans, buf, queues, mapVars, reg, unreg, closing,
                   op, ops, history>>

(* closeChan: closed by Hub.Close, or a command of a, which goes on to the  *)
(* next line.                                                               *)
TakeClose(l) ==
    /\ line[l] = "select" /\ sees[l]
    /\ \/ chans[l] = "closed" /\ UNCHANGED op
       \/ \E a \in Actors : /\ op[a].at = "send" /\ op[a].kind = "close" /\ op[a].l = l
                            /\ op' = [op EXCEPT ![a].at = "iterate"]
    /\ isClosed' = [isClosed EXCEPT ![l] = TRUE]
    /\ Leaves(l, "notify")
    /\ UNCHANGED <<chans, buf, queues, mapVars, reg, unreg, closing, ops, history>>

(* External: the client hangs up; c.Request.Context().Done(), Line.close.   *)
TakeDone(l) ==
    /\ line[l] = "select"
    /\ isClosed' = [isClosed EXCEPT ![l] = TRUE]
    /\ Leaves(l, "error")
    /\ UNCHANGED <<chans, buf, queues, mapVars, reg, unreg, closing, op, ops, history>>

(* Line.close goes on: the test of Hub.isClosed, the send on errorChan.     *)
closeTest(l) ==
    /\ line[l] = "error"
    /\ Goes(l, IF HubClosed THEN "notify" ELSE "report")
    /\ UNCHANGED <<isClosed, chanVars, queues, mapVars, reg, unreg, closing, op, ops,
                   history>>

closeReport(l) ==
    /\ line[l] = "report"
    /\ \/ Tell("error") /\ Goes(l, "notify")
       \/ ChansClosed /\ Goes(l, "ended") /\ UNCHANGED unread
    /\ UNCHANGED <<isClosed, chanVars, registeredChanInternal, unregisteredChanInternal,
                   mapVars, reg, unreg, closing, op, ops, history>>

(* Mutant: a closed line is not unregistered.                               *)
notifyCloseNot(l) ==
    /\ line[l] = "notify"
    /\ Goes(l, "ended")
    /\ UNCHANGED <<isClosed, chanVars, queues, mapVars, reg, unreg, closing, op, ops,
                   history>>

(* The test of Hub.isClosed, then the send.                                 *)
notifyClose(l) ==
    /\ line[l] = "notify"
    /\ Goes(l, IF HubClosed THEN "ended" ELSE "unregister")
    /\ UNCHANGED <<isClosed, chanVars, queues, mapVars, reg, unreg, closing, op, ops,
                   history>>

Unregister(l) ==
    /\ line[l] = "unregister"
    /\ Goes(l, "ended")
    /\ \/ /\ Room(Len(unregisteredChanInternal))
          /\ unregisteredChanInternal' = Append(unregisteredChanInternal, l)
          /\ hasty' = IF l \in added THEN hasty ELSE hasty \union {UserOf[l]}
       \/ /\ ChansClosed
          /\ UNCHANGED <<unregisteredChanInternal, hasty>>
    /\ UNCHANGED <<isClosed, chanVars, registeredChanInternal, unread, mapVars, reg,
                   unreg, closing, op, ops, added, left>>

-----------------------------------------------------------------------------
(* RWMutex of object o.                                                     *)
Locked(o) == o \in closing.held
Read(o) == \E a \in Actors : op[a].o = o /\ op[a].at \in {"iterate", "send"}

(* The registration loop: the channels are made and the object is found or  *)
(* stored; then UserLines.add.                                              *)
RegisterTake ==
    LET l == Head(registeredChanInternal)
        u == UserOf[l]
        o == IF connections[u] = 0 THEN Len(heap) + 1 ELSE connections[u]
    IN
    /\ reg.at = "idle" /\ registeredChanInternal # <<>>
    /\ registeredChanInternal' = Tail(registeredChanInternal)
    /\ chans' = [chans EXCEPT ![l] = "open"]
    /\ connections' = [connections EXCEPT ![u] = o]
    /\ heap' = IF o > Len(heap) THEN Append(heap, [lines |-> {}, count |-> 0, user |-> u])
             ELSE heap
    /\ reg' = [Idle EXCEPT !.at = "add", !.o = o, !.l = l]
    /\ UNCHANGED <<lineVars, buf, sees, unregisteredChanInternal, unread, connCount,
                   unreg, closing, op, ops, history>>

add ==
    /\ reg.at = "add" /\ ~Locked(reg.o) /\ ~Read(reg.o)
    /\ heap' = [heap EXCEPT ![reg.o].lines = @ \union {reg.l}, ![reg.o].count = @ + 1]
    /\ connCount' = connCount + 1
    /\ added' = added \union {reg.l}
    /\ reg' = [Idle EXCEPT !.at = "tell"]
    /\ UNCHANGED <<lineVars, chanVars, queues, connections, unreg, closing, op, ops,
                   left, hasty>>

(* The application is told.  A loop that panics does not come back.         *)
RegisterTell ==
    /\ reg.at = "tell"
    /\ \/ Tell("registered") /\ reg' = Idle
       \/ ChansClosed /\ reg' = [Idle EXCEPT !.at = "dead"] /\ UNCHANGED unread
    /\ UNCHANGED <<lineVars, chanVars, registeredChanInternal, unregisteredChanInternal,
                   mapVars, unreg, closing, op, ops, history>>

(* The unregistration loop.                                                 *)
UnregisterTake ==
    LET l == Head(unregisteredChanInternal)
        o == connections[UserOf[l]]
    IN
    /\ unreg.at = "idle" /\ unregisteredChanInternal # <<>>
    /\ unregisteredChanInternal' = Tail(unregisteredChanInternal)
    /\ unreg' = IF o = 0 THEN Idle ELSE [Idle EXCEPT !.at = "remove", !.o = o, !.l = l]
    /\ UNCHANGED <<lineVars, chanVars, registeredChanInternal, unread, mapVars, reg,
                   closing, op, ops, history>>

(* Mutant: the channels are closed before the line is removed.              *)
removeLast ==
    /\ unreg.at = "remove"
    /\ chans' = [chans EXCEPT ![unreg.l] = "closed"]
    /\ ~Locked(unreg.o)
    /\ heap' = [heap EXCEPT ![unreg.o].lines = {k \in @ : IdOf[k] # IdOf[unreg.l]},
                            ![unreg.o].count = @ - 1]
    /\ connCount' = connCount - 1
    /\ unreg' = [unreg EXCEPT !.at = "close"]
    /\ UNCHANGED <<lineVars, buf, sees, queues, connections, reg, closing, op, ops, history>>

(* UserLines.remove drops every line with this id.                          *)
remove ==
    /\ unreg.at = "remove" /\ ~Locked(unreg.o) /\ ~Read(unreg.o)
    /\ heap' = [heap EXCEPT ![unreg.o].lines = {k \in @ : IdOf[k] # IdOf[unreg.l]},
                            ![unreg.o].count = @ - 1]
    /\ connCount' = connCount - 1
    /\ unreg' = [unreg EXCEPT !.at = "close"]
    /\ UNCHANGED <<lineVars, chanVars, queues, connections, reg, closing, op, ops, history>>

closeLineChans(set) ==
    chans' = [l \in Lines |-> IF l \in set /\ chans[l] = "open" THEN "closed" ELSE chans[l]]

(* After the removal, so that no push finds a closed channel.               *)
UnregisterClose ==
    /\ unreg.at = "close"
    /\ closeLineChans({unreg.l})
    /\ IF heap[unreg.o].count = 0
       THEN unreg' = [unreg EXCEPT !.at = "delete"] /\ UNCHANGED left
       ELSE unreg' = [Idle EXCEPT !.at = "tell"] /\ left' = left \union {unreg.l}
    /\ UNCHANGED <<lineVars, buf, sees, queues, mapVars, reg, closing, op, ops, added, hasty>>

UnregisterDelete ==
    /\ unreg.at = "delete"
    /\ connections' = [connections EXCEPT ![UserOf[unreg.l]] = 0]
    /\ left' = left \union {unreg.l}
    /\ unreg' = [Idle EXCEPT !.at = "tell"]
    /\ UNCHANGED <<lineVars, chanVars, queues, heap, connCount, reg, closing, op, ops,
                   added, hasty>>

UnregisterTell ==
    /\ unreg.at = "tell"
    /\ \/ Tell("unregistered") /\ unreg' = Idle
       \/ ChansClosed /\ unreg' = [Idle EXCEPT !.at = "dead"] /\ UNCHANGED unread
    /\ UNCHANGED <<lineVars, chanVars, registeredChanInternal, unregisteredChanInternal,
                   mapVars, reg, closing, op, ops, history>>

(* External: an application that reads RegisteredChan, UnegisteredChan or   *)
(* ErrorChan.                                                               *)
AppReads ==
    /\ \E chan \in ReadChans :
          unread[chan] > 0 /\ unread' = [unread EXCEPT ![chan] = @ - 1]
    /\ UNCHANGED <<lineVars, chanVars, registeredChanInternal, unregisteredChanInternal,
                   mapVars, reg, unreg, closing, op, ops, history>>

-----------------------------------------------------------------------------
(* Hub.Close: the flag, the objects of the map, then object by object with  *)
(* its lock kept until the end, then the channels of the hub.               *)
Close ==
    /\ closing.at = "open"
    /\ closing' = [closing EXCEPT !.at = "range"]
    /\ UNCHANGED <<lineVars, chanVars, queues, mapVars, reg, unreg, op, ops, history>>

CloseRange ==
    /\ closing.at = "range"
    /\ closing' = [closing EXCEPT !.at = "clear",
                                  !.todo = {connections[u] : u \in Users} \ {0}]
    /\ UNCHANGED <<lineVars, chanVars, queues, mapVars, reg, unreg, op, ops, history>>

CloseClear ==
    /\ closing.at = "clear"
    /\ connections' = [u \in Users |-> 0]
    /\ closing' = [closing EXCEPT !.at = "lines"]
    /\ UNCHANGED <<lineVars, chanVars, queues, heap, connCount, reg, unreg, op, ops, history>>

CloseLock ==
    /\ closing.at = "lines"
    /\ \E o \in closing.todo :
          /\ ~Read(o)
          /\ closeLineChans(heap[o].lines)
          /\ heap' = [heap EXCEPT ![o].count = 0]
          /\ closing' = [closing EXCEPT !.todo = @ \ {o}, !.held = @ \union {o}]
    /\ UNCHANGED <<lineVars, buf, sees, queues, connections, connCount, reg, unreg, op,
                   ops, history>>

CloseChans ==
    /\ closing.at = "lines" /\ closing.todo = {}
    /\ closing' = [at |-> "done", todo |-> {}, held |-> {}]
    /\ UNCHANGED <<lineVars, chanVars, queues, mapVars, reg, unreg, op, ops, history>>

-----------------------------------------------------------------------------
(* Pushes and close commands, to all lines of a user or to some ids.        *)
Begin(s) ==
    /\ op[s].at = "idle" /\ ops < MaxOps
    /\ ops' = ops + 1
    /\ \E u \in Users, kind \in {"push", "close"}, ids \in SUBSET {IdOf[l] : l \in Lines} \ {{}} :
          /\ connections[u] # 0
          /\ op' = [op EXCEPT ![s] = [Idle EXCEPT !.at = "rlock", !.o = connections[u],
                                                  !.kind = kind, !.ids = ids]]
    /\ UNCHANGED <<lineVars, chanVars, queues, mapVars, reg, unreg, closing, history>>

RLock(a) ==
    /\ op[a].at = "rlock" /\ ~Locked(op[a].o)
    /\ op' = [op EXCEPT ![a].at = "iterate",
                        ![a].todo = {l \in heap[op[a].o].lines : IdOf[l] \in op[a].ids}]
    /\ UNCHANGED <<lineVars, chanVars, queues, mapVars, reg, unreg, closing, ops, history>>

(* The tests before a send.                                                 *)
Skipped(a, l) == isClosed[l] \/ chans[l] # "open" \/ (op[a].kind = "push" /\ HubClosed)

Iterate(a) ==
    /\ op[a].at = "iterate"
    /\ \/ /\ op[a].todo = {}
          /\ op' = [op EXCEPT ![a] = Idle]
       \/ \E l \in op[a].todo :
             op' = [op EXCEPT ![a].todo = @ \ {l}, ![a].l = l,
                              ![a].at = IF Skipped(a, l) THEN "iterate" ELSE "send"]
    /\ UNCHANGED <<lineVars, chanVars, queues, mapVars, reg, unreg, closing, ops, history>>

(* A close command is received in TakeClose.                                *)
PushMessage(a) ==
    /\ op[a].at = "send" /\ op[a].kind = "push"
    /\ chans[op[a].l] = "open" /\ buf[op[a].l] < WriteCap
    /\ buf' = [buf EXCEPT ![op[a].l] = @ + 1]
    /\ op' = [op EXCEPT ![a].at = "iterate"]
    /\ UNCHANGED <<lineVars, chans, sees, queues, mapVars, reg, unreg, closing, ops, history>>

-----------------------------------------------------------------------------
Wakes(l) == TakeMessage(l) \/ TakeTick(l) \/ TakeClose(l)

Runs(l) ==
    \/ Start(l) \/ Register(l) \/ Loop(l)
    \/ closeTest(l) \/ closeReport(l) \/ notifyClose(l) \/ Unregister(l)

(* An operation of UserLines, whichever of them.                            *)
Operates(a) == RLock(a) \/ Iterate(a) \/ PushMessage(a)

RegisterLoop == RegisterTake \/ add \/ RegisterTell

UnregisterLoop ==
    \/ UnregisterTake \/ remove \/ UnregisterClose \/ UnregisterDelete \/ UnregisterTell

Closes == CloseRange \/ CloseClear \/ CloseLock \/ CloseChans

Next ==
    \/ \E l \in Lines : Serve(l) \/ Runs(l) \/ Wakes(l) \/ TakeDone(l)
    \/ RegisterLoop \/ UnregisterLoop \/ AppReads
    \/ Close \/ Closes
    \/ \E s \in Senders : Begin(s)
    \/ \E a \in Actors : Operates(a)

Spec == Init /\ [][Next]_vars

(* The goroutine of a line runs and its ticker fires.  Nothing else is      *)
(* needed: no client hangs up, no loop, push or Close need get on, and the  *)
(* application need not read its channels.                                  *)
Fairness == \A l \in Lines : WF_vars(Runs(l)) /\ WF_vars(Wakes(l))

FairSpec == Spec /\ Fairness

-----------------------------------------------------------------------------
Serving(l) == line[l] \in {"loop", "select"}

TypeOK ==
    /\ line \in [Lines -> {"new", "start", "register", "loop", "select", "error", "report",
                       "notify", "unregister", "ended"}]
    /\ chans \in [Lines -> {"nil", "open", "closed"}]
    /\ buf \in [Lines -> 0 .. WriteCap]
    /\ \A chan \in DOMAIN unread : unread[chan] \in 0 .. QueueCap
    /\ connections \in [Users -> 0 .. Len(heap)]
    /\ connCount \in Int
    /\ \A o \in 1 .. Len(heap) : heap[o].lines \subseteq Lines /\ heap[o].count \in Int

(* "先删后关，防止在关闭之后，出现向通道意外发送的情况": no push or close      *)
(* command is about to send on a closed channel, even while Hub.Close runs, *)
(* as long as the lines of its user came and left one after another.        *)
NoSendOnClosed ==
    \A a \in Actors : op[a].at = "send" /\ UserOf[op[a].l] \notin hasty =>
        chans[op[a].l] # "closed"

(* The loops have nothing to do but tell the application.                   *)
AtRest ==
    /\ ~HubClosed
    /\ reg.at \in {"idle", "tell"} /\ unreg.at \in {"idle", "tell"}
    /\ registeredChanInternal = <<>> /\ unregisteredChanInternal = <<>>

(* At rest, a served line is in the object the map has for its user, so a   *)
(* push to the user reaches it, and the hub counts just the served lines    *)
(* (of users whose lines came and left one after another).                  *)
MapIsExact ==
    AtRest =>
      /\ \A l \in Lines : Serving(l) /\ UserOf[l] \notin hasty =>
            /\ connections[UserOf[l]] # 0
            /\ l \in heap[connections[UserOf[l]]].lines
      /\ hasty = {} =>
            connCount = Cardinality({l \in Lines : l \in added /\ line[l] # "ended"})

(* The goroutine of l waits to send on a channel of the hub that is full.   *)
Stuck(l) ==
    /\ ~ChansClosed
    /\ \/ line[l] = "report" /\ unread.error = QueueCap
       \/ line[l] = "unregister" /\ Len(unregisteredChanInternal) = QueueCap

(* "服务端主动关闭连接": when its line was closed or the hub is, the goroutine *)
(* that serves it ends, whatever pushes, close commands and loops do, or it *)
(* finds a channel of the hub full, which nobody need read; then it ends    *)
(* when Hub.Close is through.                                               *)
LinesEnd ==
    \A l \in Lines :
        (Serving(l) /\ HubClosed) \/ isClosed[l] ~> line[l] = "ended" \/ Stuck(l)

=============================================================================
