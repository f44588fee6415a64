------------------------------- MODULE HubProofs -------------------------------
(***************************************************************************)
(* The WebSocket hub of pkg/hub, for any number of lines, users and        *)
(* senders: no push and no close command is about to send on a closed      *)
(* channel, and the map of users and the count are exact, for the users    *)
(* whose lines come and go one by one.                                     *)
(***************************************************************************)
EXTENDS Hub, FiniteSetTheorems, TLAPS

LoopSet == [pc : {"idle", "add", "remove", "close", "delete"}, line : Lines \union {"none"},
            obj : Nat]
ObjectSet == [lines : SUBSET Lines, count : Int, user : Users]
SndSet == [pc : {"idle", "lock", "iterate", "sending", "stuck"}, kind : {"none", "push", "close"},
           obj : Nat, todo : SUBSET Lines, line : Lines \union {"none"}]

Typed ==
    /\ reader \in [Lines -> {"none", "loop", "reading", "load", "store", "closing",
                             "exited"}]
    /\ writer \in [Lines -> {"none", "loop", "load", "store", "closing", "exited"}]
    /\ phase \in [Lines -> {"new", "started", "queued"}]
    /\ isClosed \in [Lines -> BOOLEAN]
    /\ chans \in [Lines -> {"nil", "open", "closed"}]
    /\ registeredChanInternal \in Seq(Lines) /\ unregisteredChanInternal \in Seq(Lines)
    /\ heap \in Seq(ObjectSet)
    /\ connections \in [Users -> 0 .. Len(heap)]
    /\ connCount \in Int
    /\ registering \in LoopSet /\ unregistering \in LoopSet
    /\ snd \in [Senders -> SndSet]
    /\ delArr \subseteq Users

(* Line l waits in registeredChanInternal, or is with the loop behind it.   *)
Waits(l) == \E i \in 1 .. Len(registeredChanInternal) : registeredChanInternal[i] = l
Registering(l) == registering.pc = "add" /\ registering.line = l

In(l, o) == o \in 1 .. Len(heap) /\ l \in heap[o].lines

(* The unregistration loop has removed line l.                              *)
Removed(l) == Unregistering(l) /\ unregistering.pc # "remove"

(* A line is registered once.                                               *)
Once(l) ==
    /\ phase[l] \in {"new", "started"} => ~Waits(l) /\ ~Registering(l) /\ l \notin added
    /\ Waits(l) => ~Registering(l) /\ l \notin added
    /\ Registering(l) => l \notin added
    /\ \A o : In(l, o) => l \in added

WaitOnce ==
    \A i, j \in 1 .. Len(registeredChanInternal) :
        registeredChanInternal[i] = registeredChanInternal[j] => i = j

Unborn(l) == phase[l] = "new" => reader[l] = "none" /\ writer[l] = "none"

(* A line that is closed is on its way to the end, and only such a line.    *)
Leaving(l) ==
    \/ reader[l] = "closing" \/ writer[l] = "closing"
    \/ Queued(l) \/ Unregistering(l) \/ l \in left

(* Objects are not shared: the map, the loops and the lines of an object    *)
(* agree whose it is.                                                       *)
Owned ==
    /\ \A u \in Users : connections[u] # 0 => heap[connections[u]].user = u
    /\ \A o \in 1 .. Len(heap) : \A l \in heap[o].lines : UserOf[l] = heap[o].user
    /\ registering.pc \in {"idle", "add"}
    /\ registering.pc = "add" =>
          /\ registering.line \in Lines /\ registering.obj \in 1 .. Len(heap)
          /\ heap[registering.obj].user = UserOf[registering.line]
    /\ unregistering.pc \in {"idle", "remove", "close", "delete"}
    /\ unregistering.pc # "idle" =>
          /\ unregistering.line \in Lines /\ unregistering.obj \in 1 .. Len(heap)
          /\ heap[unregistering.obj].user = UserOf[unregistering.line]

(* Line l is in unregisteredChanInternal, with the loop, or done, once.     *)
LeavesOnce(l) ==
    /\ Queued(l) => ~Unregistering(l) /\ l \notin left
    /\ Unregistering(l) => l \notin left
    /\ \A i, j \in 1 .. Len(unregisteredChanInternal) :
          unregisteredChanInternal[i] = l /\ unregisteredChanInternal[j] = l => i = j

(* What holds of a line whose user is not disturbed: from its registration  *)
(* to its removal it is in the object that the map has.                     *)
Calm(l) ==
    /\ LeavesOnce(l)
    /\ Queued(l) \/ Unregistering(l) \/ l \in left => l \in added
    /\ l \in added /\ l \notin left /\ ~Removed(l) => In(l, connections[UserOf[l]])
    /\ \A o : In(l, o) => l \notin left /\ ~Removed(l) /\ connections[UserOf[l]] = o
    /\ Registering(l) => connections[UserOf[l]] = registering.obj
    /\ Unregistering(l) => connections[UserOf[l]] \in {0, unregistering.obj}
    /\ chans[l] = "closed" => l \in left \/ (Unregistering(l) /\ unregistering.pc = "delete")
    /\ \A k \in Lines \ {l} :
          UserOf[k] = UserOf[l] /\ phase[k] # "new" /\ phase[l] # "new" =>
              k \in left \/ l \in left

(* The object of such a user counts its line, if there is one, and is in    *)
(* the map only while it has one, is about to or has just lost it.          *)
Counts(o) == heap[o].count = IF heap[o].lines = {} THEN 0 ELSE 1

Busy(o) ==
    \/ heap[o].lines # {}
    \/ registering.pc = "add" /\ registering.obj = o
    \/ unregistering.pc \in {"close", "delete"} /\ unregistering.obj = o

(* Who holds the read lock of an object works on lines that are in it.      *)
Reads(s) ==
    /\ snd[s].pc # "idle" => snd[s].obj \in 1 .. Len(heap)
    /\ snd[s].pc \in {"iterate", "sending"} => \A l \in snd[s].todo : In(l, snd[s].obj)
    /\ snd[s].pc = "sending" => In(snd[s].line, snd[s].obj)

Held == {l \in Lines : \E o \in 1 .. Len(heap) : l \in heap[o].lines}

Inv ==
    /\ Typed /\ WaitOnce /\ Owned
    /\ \A l \in Lines : Once(l) /\ Unborn(l) /\ (isClosed[l] <=> Leaving(l))
    /\ \A l \in Lines : UserOf[l] \notin disturbed => Calm(l)
    /\ \A o \in 1 .. Len(heap) : heap[o].user \notin disturbed => Counts(o)
    /\ \A u \in Users \ disturbed : connections[u] # 0 => Busy(connections[u])
    /\ \A s \in Senders : Reads(s)
    /\ disturbed = {} => connCount = Cardinality(Held)

LEMMA IdleTyped ==
    /\ Idle \in LoopSet /\ Idle.pc = "idle"
    /\ NoPush \in SndSet /\ NoPush.pc = "idle" /\ NoPush.todo = {}
BY DEF Idle, NoPush, LoopSet, SndSet

LEMMA InitInv == Init => Inv
<1> SUFFICES ASSUME Init PROVE Inv
  OBVIOUS
<1>1. /\ heap = <<>> /\ Len(heap) = 0
      /\ registeredChanInternal = <<>> /\ Len(registeredChanInternal) = 0
      /\ unregisteredChanInternal = <<>> /\ Len(unregisteredChanInternal) = 0
      /\ registering = Idle /\ unregistering = Idle
      /\ snd = [s \in Senders |-> NoPush] /\ added = {} /\ left = {} /\ connCount = 0
      /\ phase = [l \in Lines |-> "new"] /\ chans = [l \in Lines |-> "nil"]
      /\ reader = [l \in Lines |-> "none"] /\ writer = [l \in Lines |-> "none"]
      /\ isClosed = [l \in Lines |-> FALSE]
      /\ connections = [u \in Users |-> 0] /\ delArr = {}
  BY DEF Init
<1>2. \A s \in Senders : snd[s].pc = "idle"
  BY <1>1, IdleTyped
<1>3. registeredChanInternal \in Seq(Lines) /\ unregisteredChanInternal \in Seq(Lines)
      /\ heap \in Seq(ObjectSet)
  BY <1>1
<1>4. Typed
  BY <1>1, <1>3, IdleTyped DEF Typed
<1>5. registering.pc = "idle" /\ unregistering.pc = "idle"
  BY <1>1, IdleTyped
<1>6. ASSUME NEW l \in Lines PROVE Once(l) /\ Unborn(l) /\ ~Leaving(l) /\ Calm(l)
  <2>1. ~Waits(l) /\ ~Registering(l) /\ ~Queued(l) /\ ~Unregistering(l) /\ \A o : ~In(l, o)
    BY <1>1, <1>5 DEF Waits, Registering, Queued, Unregistering, In
  <2>2. Once(l) /\ Unborn(l) /\ ~Leaving(l)
    BY <1>1, <2>1 DEF Once, Unborn, Leaving
  <2>3. LeavesOnce(l)
    BY <1>1, <2>1 DEF LeavesOnce
  <2> QED
    BY <1>1, <2>1, <2>2, <2>3 DEF Calm
<1>7. \A s \in Senders : Reads(s)
  BY <1>2 DEF Reads
<1>8. WaitOnce /\ Owned
  BY <1>1, <1>5 DEF WaitOnce, Owned
<1>9. connCount = Cardinality(Held)
  <2>1. Held = {}
    BY <1>1 DEF Held
  <2> QED
    BY <1>1, <2>1, FS_EmptySet
<1> QED
  BY <1>1, <1>4, <1>6, <1>7, <1>8, <1>9 DEF Inv

-----------------------------------------------------------------------------
(* What a step leaves alone.                                                *)

(* A step that moves no line, in the map or on its way.                     *)
LEMMA Frame ==
    ASSUME Inv, Typed',
           UNCHANGED <<phase, chans, queues, mapVars, registering, unregistering, history>>,
           \A l \in Lines : (isClosed'[l] <=> Leaving(l)') /\ Unborn(l)',
           \A s \in Senders : Reads(s)'
    PROVE  Inv'
<1> USE DEF queues, mapVars, history
<1>1. /\ \A l, o : In(l, o)' <=> In(l, o)
      /\ \A l : /\ (Waits(l)' <=> Waits(l)) /\ (Registering(l)' <=> Registering(l))
                /\ (Queued(l)' <=> Queued(l)) /\ (Unregistering(l)' <=> Unregistering(l))
                /\ (Removed(l)' <=> Removed(l)) /\ (LeavesOnce(l)' <=> LeavesOnce(l))
  BY DEF In, Waits, Registering, Queued, Unregistering, Removed, LeavesOnce
<1>2. WaitOnce' /\ Owned' /\ Held' = Held
  BY DEF Inv, WaitOnce, Owned, Held
<1>3. \A l \in Lines : Once(l)'
  BY <1>1 DEF Inv, Once
<1>4. ASSUME NEW l \in Lines, UserOf[l] \notin disturbed' PROVE Calm(l)'
  <2>1. Calm(l)
    BY <1>4 DEF Inv
  <2> QED
    BY <1>1, <2>1 DEF Calm
<1>5. \A o \in 1 .. Len(heap') : heap'[o].user \notin disturbed' => Counts(o)'
  BY DEF Inv, Counts
<1>6. \A u \in Users \ disturbed' : connections'[u] # 0 => Busy(connections[u])'
  BY DEF Inv, Busy
<1> QED
  BY <1>2, <1>3, <1>4, <1>5, <1>6 DEF Inv

(* So for a step of the goroutines of a line.                               *)
LEMMA LineStep ==
    ASSUME Inv, NEW l \in Lines,
           UNCHANGED <<phase, chans, queues, mapVars, loopVars, snd, history>>,
           NEW r \in {"none", "loop", "reading", "load", "store", "closing", "exited"},
           NEW w \in {"none", "loop", "load", "store", "closing", "exited"},
           NEW c \in BOOLEAN,
           reader' = [reader EXCEPT ![l] = r], writer' = [writer EXCEPT ![l] = w],
           isClosed' = [isClosed EXCEPT ![l] = c],
           reader[l] = "none" => r = "none", writer[l] = "none" => w = "none",
           reader[l] = "closing" => r = "closing", writer[l] = "closing" => w = "closing",
           c <=> isClosed[l] \/ r = "closing" \/ w = "closing"
    PROVE  Inv'
<1>1. /\ \A k \in Lines : /\ reader'[k] = (IF k = l THEN r ELSE reader[k])
                          /\ writer'[k] = (IF k = l THEN w ELSE writer[k])
                          /\ isClosed'[k] = (IF k = l THEN c ELSE isClosed[k])
      /\ reader' \in [Lines -> {"none", "loop", "reading", "load", "store", "closing", "exited"}]
      /\ writer' \in [Lines -> {"none", "loop", "load", "store", "closing", "exited"}]
      /\ isClosed' \in [Lines -> BOOLEAN]
  BY DEF Inv, Typed
<1>2. Typed'
  BY <1>1 DEF Inv, Typed, queues, mapVars, loopVars
<1>3. \A k : (Queued(k)' <=> Queued(k)) /\ (Unregistering(k)' <=> Unregistering(k))
  BY DEF Queued, Unregistering, queues, loopVars
<1>4. \A k \in Lines : isClosed[k] <=> Leaving(k)
  BY DEF Inv
<1>5. \A k \in Lines : (isClosed'[k] <=> Leaving(k)') /\ Unborn(k)'
  BY <1>1, <1>3, <1>4 DEF Inv, Unborn, Leaving, history
<1>6. \A s \in Senders : Reads(s)'
  BY DEF Inv, Reads, In, mapVars
<1> QED
  BY <1>2, <1>5, <1>6, Frame DEF loopVars

LEMMA LineTyped ==
    ASSUME Inv, NEW l \in Lines
    PROVE  /\ reader[l] \in {"none", "loop", "reading", "load", "store", "closing", "exited"}
           /\ writer[l] \in {"none", "loop", "load", "store", "closing", "exited"}
           /\ isClosed[l] \in BOOLEAN
           /\ reader = [reader EXCEPT ![l] = reader[l]]
           /\ writer = [writer EXCEPT ![l] = writer[l]]
           /\ isClosed = [isClosed EXCEPT ![l] = isClosed[l]]
           /\ reader[l] = "closing" \/ writer[l] = "closing" => isClosed[l]
BY DEF Inv, Typed, Leaving

LEMMA ReaderInv ==
    ASSUME Inv, NEW l \in Lines,
           ReaderLoop(l) \/ ReadMessage(l) \/ ReadEnds(l) \/ ReadText(l) \/ ReaderCloseLoad(l)
    PROVE  Inv'
<1>1. PICK r \in {"loop", "reading", "load", "store", "exited"} :
         SetReader(l, r) /\ reader[l] \notin {"none", "closing"} /\ UNCHANGED snd
  BY DEF ReaderLoop, ReadMessage, ReadEnds, ReadText, ReaderCloseLoad
<1>2. /\ reader' = [reader EXCEPT ![l] = r]
      /\ UNCHANGED <<phase, writer, isClosed, chans, queues, mapVars, loopVars, snd, history>>
  BY <1>1 DEF SetReader, chanVars
<1>3. PICK w, c : w = writer[l] /\ c = isClosed[l]
  OBVIOUS
<1> QED
  BY <1>1, <1>2, <1>3, LineTyped, LineStep

LEMMA WriterInv ==
    ASSUME Inv, NEW l \in Lines, WriterLoop(l) \/ WriteMessage(l) \/ WriterCloseLoad(l)
    PROVE  Inv'
<1>1. PICK w \in {"loop", "load", "store", "exited"} :
         SetWriter(l, w) /\ writer[l] \notin {"none", "closing"} /\ UNCHANGED snd
  BY DEF WriterLoop, WriteMessage, WriterCloseLoad
<1>2. /\ writer' = [writer EXCEPT ![l] = w]
      /\ UNCHANGED <<phase, reader, isClosed, chans, queues, mapVars, loopVars, snd, history>>
  BY <1>1 DEF SetWriter
<1>3. PICK r, c : r = reader[l] /\ c = isClosed[l]
  OBVIOUS
<1> QED
  BY <1>1, <1>2, <1>3, LineTyped, LineStep

LEMMA CloseStoreInv ==
    ASSUME Inv, NEW l \in Lines, ReaderCloseStore(l) \/ WriterCloseStore(l)
    PROVE  Inv'
<1>1. /\ isClosed' = [isClosed EXCEPT ![l] = TRUE]
      /\ UNCHANGED <<phase, chans, queues, mapVars, loopVars, snd, history>>
  BY DEF ReaderCloseStore, WriterCloseStore, CloseStore, chanVars
<1>2. CASE ReaderCloseStore(l)
  <2>1. /\ reader' = [reader EXCEPT ![l] = "closing"] /\ UNCHANGED writer
        /\ reader[l] = "store"
    BY <1>2 DEF ReaderCloseStore
  <2>2. PICK w : w = writer[l]
    OBVIOUS
  <2> QED
    BY <1>1, <2>1, <2>2, LineTyped, LineStep
<1>3. CASE WriterCloseStore(l)
  <2>1. /\ writer' = [writer EXCEPT ![l] = "closing"] /\ UNCHANGED reader
        /\ writer[l] = "store"
    BY <1>3 DEF WriterCloseStore
  <2>2. PICK r : r = reader[l]
    OBVIOUS
  <2> QED
    BY <1>1, <2>1, <2>2, LineTyped, LineStep
<1> QED
  BY <1>2, <1>3

LEMMA PeerLeavesInv == ASSUME Inv, NEW l \in Lines, PeerLeaves(l) PROVE Inv'
<1>1. UNCHANGED <<phase, reader, writer, isClosed, chans, queues, mapVars, loopVars, snd,
                  history>>
  BY DEF PeerLeaves, chanVars
<1>2. PICK r, w, c : r = reader[l] /\ w = writer[l] /\ c = isClosed[l]
  OBVIOUS
<1> QED
  BY <1>1, <1>2, LineTyped, LineStep

-----------------------------------------------------------------------------
(* The senders.                                                             *)

LEMMA SndTyped ==
    ASSUME Inv, NEW s \in Senders
    PROVE  /\ snd[s] \in SndSet /\ Reads(s)
           /\ heap \in Seq(ObjectSet) /\ Len(heap) \in Nat
BY DEF Inv, Typed

(* A step of a sender that leaves the lines where they are.                 *)
LEMMA SndStep ==
    ASSUME Inv, NEW s \in Senders,
           UNCHANGED <<phase, isClosed, chans, queues, mapVars, loopVars, history>>,
           NEW r \in SndSet, snd' = [snd EXCEPT ![s] = r],
           r.pc # "idle" => r.obj \in 1 .. Len(heap),
           r.pc \in {"iterate", "sending"} => \A l \in r.todo : In(l, r.obj),
           r.pc = "sending" => In(r.line, r.obj),
           reader' \in [Lines -> {"none", "loop", "reading", "load", "store", "closing",
                                  "exited"}],
           writer' \in [Lines -> {"none", "loop", "load", "store", "closing", "exited"}],
           \A l \in Lines : reader'[l] = reader[l] \/ (/\ reader[l] \notin {"none", "closing"}
                                                      /\ reader'[l] # "closing"),
           \A l \in Lines : writer'[l] = writer[l] \/ (/\ writer[l] \notin {"none", "closing"}
                                                      /\ writer'[l] # "closing")
    PROVE  Inv'
<1>1. /\ snd' \in [Senders -> SndSet] /\ snd'[s] = r
      /\ \A t \in Senders : t # s => snd'[t] = snd[t]
  BY DEF Inv, Typed
<1>2. Typed'
  BY <1>1 DEF Inv, Typed, queues, mapVars, loopVars
<1>3. \A l \in Lines : (isClosed'[l] <=> Leaving(l)') /\ Unborn(l)'
  BY DEF Inv, Unborn, Leaving, Queued, Unregistering, queues, loopVars, history
<1>4. \A l, o : In(l, o)' <=> In(l, o)
  BY DEF In, mapVars
<1>5. ASSUME NEW t \in Senders PROVE Reads(t)'
  <2>1. CASE t = s
    <3>1. PICK todo, o, l : todo = r.todo /\ o = r.obj /\ l = r.line
      OBVIOUS
    <3>2. \A k \in todo : r.pc \in {"iterate", "sending"} => In(k, o)'
      BY <1>4, <3>1
    <3>3. r.pc = "sending" => In(l, o)'
      BY <1>4, <3>1
    <3> QED
      BY <1>1, <2>1, <3>1, <3>2, <3>3 DEF Reads, mapVars, In
  <2>2. CASE t # s
    <3>1. Reads(t)
      BY DEF Inv
    <3> QED
      BY <1>1, <2>2, <3>1 DEF Reads, In, mapVars
  <2> QED
    BY <2>1, <2>2
<1> QED
  BY <1>2, <1>3, <1>5, Frame DEF loopVars

LEMMA SenderInv ==
    ASSUME Inv, NEW s \in Senders,
           Load(s) \/ RLock(s) \/ Iterate(s) \/ SendMessage(s) \/ SendPanics(s)
    PROVE  Inv'
<1>1. UNCHANGED <<phase, reader, writer, isClosed, chans, queues, mapVars, loopVars, history>>
  BY DEF Load, RLock, Iterate, SendMessage, SendPanics, lineVars, chanVars
<1>2. /\ reader \in [Lines -> {"none", "loop", "reading", "load", "store", "closing",
                               "exited"}]
      /\ writer \in [Lines -> {"none", "loop", "load", "store", "closing", "exited"}]
  BY DEF Inv, Typed
<1>3. snd[s] \in SndSet /\ Reads(s)
  BY SndTyped
<1>4. CASE Load(s)
  <2>0. PICK u \in Users, k \in Kinds :
           /\ connections[u] # 0
           /\ snd' = [snd EXCEPT ![s] = [NoPush EXCEPT !.pc = "lock", !.kind = k,
                                                       !.obj = connections[u]]]
    BY <1>4 DEF Load, SetSnd
  <2>1. PICK o :
           /\ o = connections[u] /\ o # 0
           /\ snd' = [snd EXCEPT ![s] = [NoPush EXCEPT !.pc = "lock", !.kind = k, !.obj = o]]
    BY <2>0
  <2>2. o \in 1 .. Len(heap) /\ o \in Nat
    BY <2>1 DEF Inv, Typed
  <2>3. k \in {"none", "push", "close"}
    BY HubAssumption
  <2>4. PICK r : r = [NoPush EXCEPT !.pc = "lock", !.kind = k, !.obj = o]
    OBVIOUS
  <2>5. r \in SndSet /\ r.pc = "lock" /\ r.obj = o
    BY <2>2, <2>3, <2>4, IdleTyped DEF SndSet
  <2> QED
    BY <1>1, <1>2, <2>1, <2>2, <2>4, <2>5, SndStep
<1>5. CASE RLock(s)
  <2>1. PICK sel \in SUBSET heap[snd[s].obj].lines :
           snd[s].pc = "lock"
           /\ snd' = [snd EXCEPT ![s] = [snd[s] EXCEPT !.pc = "iterate", !.todo = sel]]
    BY <1>5 DEF RLock, SetSnd
  <2>2. snd[s].obj \in 1 .. Len(heap) /\ \A l \in sel : In(l, snd[s].obj)
    BY <1>3, <2>1 DEF Reads, In
  <2>3. sel \in SUBSET Lines
    <3>1. heap[snd[s].obj] \in ObjectSet
      BY <2>2, SndTyped
    <3> QED
      BY <2>1, <3>1 DEF ObjectSet
  <2>4. PICK r : r = [snd[s] EXCEPT !.pc = "iterate", !.todo = sel]
    OBVIOUS
  <2>5. r \in SndSet /\ r.pc = "iterate" /\ r.obj = snd[s].obj /\ r.todo = sel
    BY <1>3, <2>3, <2>4 DEF SndSet
  <2> QED
    BY <1>1, <1>2, <2>1, <2>2, <2>4, <2>5, SndStep
<1>6. CASE Iterate(s)
  <2>1. CASE snd' = [snd EXCEPT ![s] = NoPush]
    BY <1>1, <1>2, <2>1, IdleTyped, SndStep
  <2>2. ASSUME NEW l \in snd[s].todo, NEW pc \in {"sending", "iterate"},
               snd' = [snd EXCEPT ![s] =
                          [snd[s] EXCEPT !.todo = @ \ {l}, !.line = l, !.pc = pc]]
        PROVE  Inv'
    <3>1. snd[s].pc = "iterate"
      BY <1>6 DEF Iterate
    <3>2. snd[s].obj \in 1 .. Len(heap) /\ \A k \in snd[s].todo : In(k, snd[s].obj)
      BY <1>3, <3>1 DEF Reads
    <3>3. PICK todo : todo = snd[s].todo \ {l}
      OBVIOUS
    <3>4. PICK r : r = [snd[s] EXCEPT !.todo = todo, !.line = l, !.pc = pc]
      OBVIOUS
    <3>5. l \in Lines /\ todo \in SUBSET Lines /\ todo \subseteq snd[s].todo
      BY <1>3, <3>3 DEF SndSet
    <3>6. r \in SndSet /\ r.pc = pc /\ r.obj = snd[s].obj /\ r.todo = todo /\ r.line = l
      BY <1>3, <3>4, <3>5 DEF SndSet
    <3>7. snd' = [snd EXCEPT ![s] = r]
      BY <2>2, <3>3, <3>4
    <3>8. \A k \in r.todo : In(k, r.obj)
      BY <3>2, <3>5, <3>6
    <3>9. In(r.line, r.obj)
      BY <3>2, <3>6
    <3> QED
      BY <1>1, <1>2, <3>2, <3>6, <3>7, <3>8, <3>9, SndStep
  <2>3. \/ snd' = [snd EXCEPT ![s] = NoPush]
        \/ \E l \in snd[s].todo, pc \in {"sending", "iterate"} :
              snd' = [snd EXCEPT ![s] =
                         [snd[s] EXCEPT !.todo = @ \ {l}, !.line = l, !.pc = pc]]
    BY <1>6 DEF Iterate, SetSnd
  <2> QED
    BY <2>1, <2>2, <2>3
<1>7. CASE SendMessage(s)
  <2>1. snd[s].pc = "sending" /\ snd' = [snd EXCEPT ![s] = [snd[s] EXCEPT !.pc = "iterate"]]
    BY <1>7 DEF SendMessage, Sent, SetSnd
  <2>2. PICK r : r = [snd[s] EXCEPT !.pc = "iterate"]
    OBVIOUS
  <2>3. r \in SndSet /\ r.pc = "iterate" /\ r.obj = snd[s].obj /\ r.todo = snd[s].todo
    BY <1>3, <2>2 DEF SndSet
  <2>4. r.obj \in 1 .. Len(heap) /\ \A l \in r.todo : In(l, r.obj)
    BY <1>3, <2>1, <2>3 DEF Reads
  <2> QED
    BY <1>1, <1>2, <2>1, <2>2, <2>3, <2>4, SndStep
<1>8. CASE SendPanics(s)
  <2>1. snd[s].pc = "sending"
    BY <1>8 DEF SendPanics
  <2>2. CASE snd' = [snd EXCEPT ![s] = NoPush]
    BY <1>1, <1>2, <2>2, IdleTyped, SndStep
  <2>3. CASE snd' = [snd EXCEPT ![s] = [snd[s] EXCEPT !.pc = "stuck"]]
    <3>1. PICK r : r = [snd[s] EXCEPT !.pc = "stuck"]
      OBVIOUS
    <3>2. r \in SndSet /\ r.pc = "stuck" /\ r.obj = snd[s].obj
      BY <1>3, <3>1 DEF SndSet
    <3>3. r.obj \in 1 .. Len(heap)
      BY <1>3, <2>1, <3>2 DEF Reads
    <3> QED
      BY <1>1, <1>2, <2>3, <3>1, <3>2, <3>3, SndStep
  <2> QED
    BY <1>8, <2>2, <2>3 DEF SendPanics, SetSnd
<1> QED
  BY <1>4, <1>5, <1>6, <1>7, <1>8

LEMMA TakesCloseInv ==
    ASSUME Inv, NEW l \in Lines, NEW s \in Senders,
           ReaderTakesClose(s, l) \/ WriterTakesClose(s, l)
    PROVE  Inv'
<1>1. /\ UNCHANGED <<phase, isClosed, chans, queues, mapVars, loopVars, history>>
      /\ snd[s].pc = "sending" /\ snd' = [snd EXCEPT ![s] = [snd[s] EXCEPT !.pc = "iterate"]]
      /\ \/ reader[l] = "loop" /\ reader' = [reader EXCEPT ![l] = "exited"] /\ UNCHANGED writer
         \/ writer[l] = "loop" /\ writer' = [writer EXCEPT ![l] = "load"] /\ UNCHANGED reader
  BY DEF ReaderTakesClose, WriterTakesClose, Offered, SetReader, SetWriter, Sent, SetSnd,
         chanVars
<1>2. /\ reader \in [Lines -> {"none", "loop", "reading", "load", "store", "closing",
                               "exited"}]
      /\ writer \in [Lines -> {"none", "loop", "load", "store", "closing", "exited"}]
  BY DEF Inv, Typed
<1>3. snd[s] \in SndSet /\ Reads(s)
  BY SndTyped
<1>4. PICK r : r = [snd[s] EXCEPT !.pc = "iterate"]
  OBVIOUS
<1>5. r \in SndSet /\ r.pc = "iterate" /\ r.obj = snd[s].obj /\ r.todo = snd[s].todo
  BY <1>3, <1>4 DEF SndSet
<1>6. r.obj \in 1 .. Len(heap) /\ \A k \in r.todo : In(k, r.obj)
  BY <1>1, <1>3, <1>5 DEF Reads
<1>7. /\ reader' \in [Lines -> {"none", "loop", "reading", "load", "store", "closing",
                                "exited"}]
      /\ writer' \in [Lines -> {"none", "loop", "load", "store", "closing", "exited"}]
      /\ \A k \in Lines : reader'[k] = reader[k] \/ (/\ reader[k] \notin {"none", "closing"}
                                                     /\ reader'[k] # "closing")
      /\ \A k \in Lines : writer'[k] = writer[k] \/ (/\ writer[k] \notin {"none", "closing"}
                                                     /\ writer'[k] # "closing")
  BY <1>1, <1>2
<1> QED
  BY <1>1, <1>4, <1>5, <1>6, <1>7, SndStep

LEMMA LiveCheckCollectInv == ASSUME Inv, LiveCheckCollect PROVE Inv'
<1>1. /\ UNCHANGED <<phase, reader, writer, isClosed, chans, queues, mapVars, registering,
                     unregistering, snd, history>>
      /\ delArr' \subseteq Users
  BY DEF LiveCheckCollect, lineVars, chanVars
<1>2. Typed'
  BY <1>1 DEF Inv, Typed, queues, mapVars
<1>3. \A l \in Lines : (isClosed'[l] <=> Leaving(l)') /\ Unborn(l)'
  BY <1>1 DEF Inv, Unborn, Leaving, Queued, Unregistering, queues, history
<1>4. \A s \in Senders : Reads(s)'
  BY <1>1 DEF Inv, Reads, In, mapVars
<1> QED
  BY <1>1, <1>2, <1>3, <1>4, Frame

-----------------------------------------------------------------------------
(* Lines that come.                                                         *)

LEMMA Appended ==
    ASSUME NEW q \in Seq(Lines), NEW l \in Lines, NEW r, r = Append(q, l)
    PROVE  /\ r \in Seq(Lines) /\ Len(r) = Len(q) + 1 /\ r[Len(r)] = l
           /\ \A i \in 1 .. Len(q) : r[i] = q[i]
           /\ \A i \in 1 .. Len(r) : i \in 1 .. Len(q) \/ i = Len(r)
OBVIOUS

LEMMA Taken ==
    ASSUME NEW q \in Seq(Lines), q # <<>>, NEW r, r = Tail(q)
    PROVE  /\ Head(q) = q[1] /\ q[1] \in Lines /\ r \in Seq(Lines)
           /\ Len(q) \in Nat /\ Len(q) # 0 /\ Len(r) = Len(q) - 1
           /\ \A i \in 1 .. Len(r) : r[i] = q[i + 1]
OBVIOUS

(* What a line keeps in a step that leaves the objects, the map and the     *)
(* loops alone.                                                             *)
LEMMA Kept ==
    ASSUME Inv, UNCHANGED <<connections, heap, connCount, registering, unregistering, snd>>,
           disturbed \subseteq disturbed'
    PROVE  /\ \A l, o : In(l, o)' <=> In(l, o)
           /\ \A l : /\ (Registering(l)' <=> Registering(l)) /\ (Removed(l)' <=> Removed(l))
                     /\ (Unregistering(l)' <=> Unregistering(l))
           /\ Owned' /\ Held' = Held
           /\ \A o \in 1 .. Len(heap') : heap'[o].user \notin disturbed' => Counts(o)'
           /\ \A u \in Users \ disturbed' : connections'[u] # 0 => Busy(connections[u])'
           /\ \A s \in Senders : Reads(s)'
           /\ disturbed' = {} => connCount' = Cardinality(Held')
<1>1. /\ \A l, o : In(l, o)' <=> In(l, o)
      /\ \A l : /\ (Registering(l)' <=> Registering(l)) /\ (Removed(l)' <=> Removed(l))
                /\ (Unregistering(l)' <=> Unregistering(l))
  BY DEF In, Registering, Unregistering, Removed
<1>2. Owned' /\ Held' = Held
  BY DEF Inv, Owned, Held
<1>3. \A o \in 1 .. Len(heap') : heap'[o].user \notin disturbed' => Counts(o)'
  BY DEF Inv, Counts
<1>4. \A u \in Users \ disturbed' : connections'[u] # 0 => Busy(connections[u])'
  BY DEF Inv, Busy
<1>5. \A s \in Senders : Reads(s)'
  BY DEF Inv, Reads, In
<1> QED
  BY <1>1, <1>2, <1>3, <1>4, <1>5 DEF Inv

(* UpgradeWebSocket: the last line of the user has left.                    *)
LEMMA UpgradeInv == ASSUME Inv, NEW l \in Lines, Upgrade(l) PROVE Inv'
<1>1. /\ phase[l] = "new" /\ phase' = [phase EXCEPT ![l] = "started"]
      /\ reader' = [reader EXCEPT ![l] = "loop"] /\ writer' = [writer EXCEPT ![l] = "loop"]
      /\ disturbed' = IF Overlaps(l) THEN disturbed \union {UserOf[l]} ELSE disturbed
      /\ UNCHANGED <<isClosed, chans, registeredChanInternal, unregisteredChanInternal,
                     connections, heap, connCount, registering, unregistering, delArr, snd,
                     added, left>>
  BY DEF Upgrade, DisturbedIf, chanVars, queues, mapVars, loopVars
<1>2. /\ phase' \in [Lines -> {"new", "started", "queued"}] /\ phase'[l] = "started"
      /\ \A k \in Lines : k # l => phase'[k] = phase[k]
      /\ reader' \in [Lines -> {"none", "loop", "reading", "load", "store", "closing", "exited"}]
      /\ writer' \in [Lines -> {"none", "loop", "load", "store", "closing", "exited"}]
      /\ \A k \in Lines : k # l => reader'[k] = reader[k] /\ writer'[k] = writer[k]
      /\ reader'[l] = "loop" /\ writer'[l] = "loop"
  BY <1>1 DEF Inv, Typed
<1>3. Typed'
  BY <1>1, <1>2 DEF Inv, Typed
<1>4. disturbed \subseteq disturbed'
  BY <1>1
<1>5. \A k : (Waits(k)' <=> Waits(k)) /\ (Queued(k)' <=> Queued(k))
  BY <1>1 DEF Waits, Queued
<1>6. WaitOnce'
  BY <1>1 DEF Inv, WaitOnce
<1>7. ASSUME NEW k \in Lines PROVE Once(k)' /\ Unborn(k)' /\ (isClosed'[k] <=> Leaving(k)')
  <2>1. Once(k) /\ Unborn(k) /\ (isClosed[k] <=> Leaving(k))
    BY DEF Inv
  <2>2. Once(k)'
    BY <1>1, <1>2, <1>4, <1>5, <2>1, Kept DEF Once
  <2>3. Unborn(k)'
    BY <1>2, <2>1 DEF Unborn
  <2>4. k = l => reader[k] = "none" /\ writer[k] = "none"
    BY <1>1, <2>1 DEF Unborn
  <2>5. isClosed'[k] <=> Leaving(k)'
    BY <1>1, <1>2, <1>4, <1>5, <2>1, <2>4, Kept DEF Leaving
  <2> QED
    BY <2>2, <2>3, <2>5
<1>8. ASSUME NEW k \in Lines, UserOf[k] \notin disturbed' PROVE Calm(k)'
  <2>1. Calm(k)
    BY <1>4, <1>8 DEF Inv
  <2>2. LeavesOnce(k)'
    BY <1>1, <1>4, <1>5, <2>1, Kept DEF Calm, LeavesOnce
  <2>3. ASSUME NEW i \in Lines \ {k}, UserOf[i] = UserOf[k], phase'[i] # "new",
               phase'[k] # "new"
        PROVE  i \in left' \/ k \in left'
    <3>1. i = l \/ k = l => ~Overlaps(l)
      BY <1>1, <1>8, <2>3
    <3> QED
      BY <1>1, <1>2, <2>1, <2>3, <3>1 DEF Calm, Overlaps
  <2> QED
    BY <1>1, <1>4, <1>5, <2>1, <2>2, <2>3, Kept DEF Calm
<1> QED
  BY <1>1, <1>3, <1>4, <1>6, <1>7, <1>8, Kept DEF Inv

(* Line.start: the line waits, for the first time.                          *)
LEMMA QueueLineInv == ASSUME Inv, NEW l \in Lines, QueueLine(l) PROVE Inv'
<1>1. /\ phase[l] = "started" /\ phase' = [phase EXCEPT ![l] = "queued"]
      /\ registeredChanInternal' = Append(registeredChanInternal, l)
      /\ UNCHANGED <<reader, writer, isClosed, chans, unregisteredChanInternal, connections,
                     heap, connCount, registering, unregistering, delArr, snd,
                     added, left, disturbed>>
  BY DEF QueueLine, chanVars, mapVars, loopVars, history
<1>2. /\ phase' \in [Lines -> {"new", "started", "queued"}] /\ phase'[l] = "queued"
      /\ \A k \in Lines : k # l => phase'[k] = phase[k]
  BY <1>1 DEF Inv, Typed
<1>3. PICK q, r : q = registeredChanInternal /\ r = registeredChanInternal'
  OBVIOUS
<1>4. /\ r \in Seq(Lines) /\ Len(r) = Len(q) + 1 /\ r[Len(r)] = l
      /\ \A i \in 1 .. Len(q) : r[i] = q[i]
      /\ \A i \in 1 .. Len(r) : i \in 1 .. Len(q) \/ i = Len(r)
  <2>1. q \in Seq(Lines) /\ r = Append(q, l)
    BY <1>1, <1>3 DEF Inv, Typed
  <2> QED
    BY <2>1, Appended
<1>5. Typed'
  BY <1>1, <1>2, <1>3, <1>4 DEF Inv, Typed
<1>6. ~Waits(l) /\ ~Registering(l) /\ l \notin added
  BY <1>1 DEF Inv, Once
<1>7. WaitOnce'
  <2> SUFFICES ASSUME NEW i \in 1 .. Len(r), NEW j \in 1 .. Len(r), r[i] = r[j]
               PROVE  i = j
    BY <1>3 DEF WaitOnce
  <2>1. WaitOnce /\ \A k \in 1 .. Len(q) : q[k] # l
    BY <1>3, <1>6 DEF Inv, Waits
  <2> QED
    BY <1>3, <1>4, <2>1 DEF WaitOnce
<1>8. /\ \A k : Waits(k)' => Waits(k) \/ k = l
      /\ \A k : Queued(k)' <=> Queued(k)
  BY <1>1, <1>3, <1>4 DEF Waits, Queued
<1>9. ASSUME NEW k \in Lines PROVE Once(k)' /\ Unborn(k)' /\ (isClosed'[k] <=> Leaving(k)')
  <2>1. Once(k) /\ Unborn(k) /\ (isClosed[k] <=> Leaving(k))
    BY DEF Inv
  <2>2. Once(k)'
    BY <1>1, <1>2, <1>6, <1>8, <2>1, Kept DEF Once
  <2>3. Unborn(k)'
    BY <1>1, <1>2, <2>1 DEF Unborn
  <2>4. isClosed'[k] <=> Leaving(k)'
    BY <1>1, <1>8, <2>1, Kept DEF Leaving
  <2> QED
    BY <2>2, <2>3, <2>4
<1>10. ASSUME NEW k \in Lines, UserOf[k] \notin disturbed' PROVE Calm(k)'
  <2>1. Calm(k)
    BY <1>1, <1>10 DEF Inv
  <2>2. LeavesOnce(k)'
    BY <1>1, <1>8, <2>1, Kept DEF Calm, LeavesOnce
  <2>3. \A i \in Lines : phase'[i] # "new" <=> phase[i] # "new"
    BY <1>1, <1>2
  <2> QED
    BY <1>1, <1>8, <2>1, <2>2, <2>3, Kept DEF Calm
<1> QED
  BY <1>1, <1>5, <1>7, <1>9, <1>10, Kept DEF Inv

-----------------------------------------------------------------------------
(* Lines that go.                                                           *)

(* closeInternal and the send on unregisteredChanInternal.                  *)
LEMMA CloseConnInv ==
    ASSUME Inv, NEW l \in Lines, ReaderCloseConn(l) \/ WriterCloseConn(l)
    PROVE  Inv'
<1>1. /\ unregisteredChanInternal' = Append(unregisteredChanInternal, l)
      /\ disturbed' = IF l \notin added \/ Queued(l) \/ Unregistering(l) \/ l \in left
                      THEN disturbed \union {UserOf[l]} ELSE disturbed
      /\ UNCHANGED <<phase, isClosed, chans, registeredChanInternal, connections, heap,
                     connCount, registering, unregistering, delArr, snd, added, left>>
      /\ \/ /\ reader[l] = "closing" /\ reader' = [reader EXCEPT ![l] = "exited"]
            /\ UNCHANGED writer
         \/ /\ writer[l] = "closing" /\ writer' = [writer EXCEPT ![l] = "exited"]
            /\ UNCHANGED reader
  BY DEF ReaderCloseConn, WriterCloseConn, CloseConn, DisturbedIf, chanVars, mapVars, loopVars
<1>2. /\ reader' \in [Lines -> {"none", "loop", "reading", "load", "store", "closing", "exited"}]
      /\ writer' \in [Lines -> {"none", "loop", "load", "store", "closing", "exited"}]
      /\ \A k \in Lines : k # l => reader'[k] = reader[k] /\ writer'[k] = writer[k]
      /\ reader[l] = "closing" \/ writer[l] = "closing"
      /\ reader[l] = "none" => reader'[l] = "none"
      /\ writer[l] = "none" => writer'[l] = "none"
  BY <1>1 DEF Inv, Typed
<1>3. PICK q, r : q = unregisteredChanInternal /\ r = unregisteredChanInternal'
  OBVIOUS
<1>4. /\ r \in Seq(Lines) /\ Len(r) = Len(q) + 1 /\ r[Len(r)] = l
      /\ \A i \in 1 .. Len(q) : r[i] = q[i]
      /\ \A i \in 1 .. Len(r) : i \in 1 .. Len(q) \/ i = Len(r)
      /\ Len(q) \in Nat
  <2>1. q \in Seq(Lines) /\ r = Append(q, l)
    BY <1>1, <1>3 DEF Inv, Typed
  <2> QED
    BY <2>1, Appended
<1>5. Typed'
  BY <1>1, <1>2, <1>3, <1>4 DEF Inv, Typed
<1>6. disturbed \subseteq disturbed'
  BY <1>1
<1>7. /\ \A k : Queued(k)' <=> Queued(k) \/ k = l
      /\ \A k : Waits(k)' <=> Waits(k)
  <2>1. Len(r) \in 1 .. Len(r) /\ \A i \in 1 .. Len(q) : i \in 1 .. Len(r)
    BY <1>4
  <2> QED
    BY <1>1, <1>3, <1>4, <2>1 DEF Waits, Queued
<1>8. WaitOnce'
  BY <1>1 DEF Inv, WaitOnce
<1>9. ASSUME NEW k \in Lines PROVE Once(k)' /\ Unborn(k)' /\ (isClosed'[k] <=> Leaving(k)')
  <2>1. Once(k) /\ Unborn(k) /\ (isClosed[k] <=> Leaving(k))
    BY DEF Inv
  <2>2. Once(k)'
    BY <1>1, <1>6, <1>7, <2>1, Kept DEF Once
  <2>3. Unborn(k)'
    BY <1>1, <1>2, <2>1 DEF Unborn
  <2>4. isClosed'[k] <=> Leaving(k)'
    BY <1>1, <1>2, <1>6, <1>7, <2>1, Kept DEF Leaving
  <2> QED
    BY <2>2, <2>3, <2>4
<1>10. ASSUME NEW k \in Lines, UserOf[k] \notin disturbed' PROVE Calm(k)'
  <2>1. Calm(k)
    BY <1>6, <1>10 DEF Inv
  <2>2. k = l => l \in added /\ ~Queued(l) /\ ~Unregistering(l) /\ l \notin left
    BY <1>1, <1>10
  <2>3. LeavesOnce(k)'
    <3>1. LeavesOnce(k)
      BY <2>1 DEF Calm
    <3>2. ASSUME NEW i \in 1 .. Len(r), NEW j \in 1 .. Len(r), r[i] = k, r[j] = k
          PROVE  i = j
      <4>1. CASE k = l
        BY <1>3, <1>4, <2>2, <3>2, <4>1 DEF Queued
      <4>2. CASE k # l
        BY <1>3, <1>4, <3>1, <3>2, <4>2 DEF LeavesOnce
      <4> QED
        BY <4>1, <4>2
    <3>3. Queued(k)' => ~Unregistering(k)' /\ k \notin left'
      BY <1>1, <1>6, <1>7, <2>2, <3>1, Kept DEF LeavesOnce
    <3>4. Unregistering(k)' => k \notin left'
      BY <1>1, <1>6, <3>1, Kept DEF LeavesOnce
    <3> QED
      BY <1>3, <3>2, <3>3, <3>4 DEF LeavesOnce
  <2>4. Queued(k)' \/ Unregistering(k)' \/ k \in left' => k \in added'
    BY <1>1, <1>6, <1>7, <2>1, <2>2, Kept DEF Calm
  <2> QED
    BY <1>1, <1>6, <2>1, <2>3, <2>4, Kept DEF Calm
<1> QED
  BY <1>5, <1>6, <1>8, <1>9, <1>10, Kept, <1>1 DEF Inv

-----------------------------------------------------------------------------
(* The registration loop.                                                   *)

(* A calm user has one line that has started and not left.                  *)
LEMMA OnlyLine ==
    ASSUME Inv, NEW l \in Lines, NEW k \in Lines \ {l}, UserOf[k] = UserOf[l],
           UserOf[l] \notin disturbed, phase[l] # "new", l \notin left
    PROVE  /\ ~Registering(k) /\ ~Queued(k) /\ ~Unregistering(k)
           /\ k \in left \/ k \notin added
           /\ \A o : ~In(k, o)
<1>1. Calm(k) /\ Once(k) /\ (k \in left \/ phase[k] = "new")
  BY DEF Inv, Calm
<1> QED
  BY <1>1 DEF Calm, Once, LeavesOnce

LEMMA Started ==
    ASSUME Inv, NEW l \in Lines
    PROVE  /\ l \in added \/ Waits(l) \/ Registering(l) => phase[l] # "new"
           /\ ~Registering(l) \/ l \notin added
           /\ Waits(l) => l \notin added /\ ~Registering(l)
BY DEF Inv, Once

LEMMA HeapTyped ==
    ASSUME Inv
    PROVE  /\ heap \in Seq(ObjectSet) /\ Len(heap) \in Nat
           /\ \A o \in 1 .. Len(heap) : heap[o] \in ObjectSet
           /\ connections \in [Users -> 0 .. Len(heap)]
           /\ registering \in LoopSet /\ unregistering \in LoopSet
           /\ Owned
           /\ \A l \in Lines : UserOf[l] \in Users
BY HubAssumption DEF Inv, Typed

LEMMA RegisterTakeInv == ASSUME Inv, RegisterTake PROVE Inv'
<1>1. PICK q, r, l, u, o :
         /\ q = registeredChanInternal /\ r = registeredChanInternal'
         /\ l = Head(q) /\ u = UserOf[l] /\ q # <<>> /\ r = Tail(q)
         /\ o = IF connections[u] = 0 THEN Len(heap) + 1 ELSE connections[u]
         /\ chans' = [chans EXCEPT ![l] = "open"]
         /\ heap' = IF connections[u] = 0
                    THEN Append(heap, [lines |-> {}, count |-> 0, user |-> u]) ELSE heap
         /\ connections' = [connections EXCEPT ![u] = o]
         /\ registering' = [pc |-> "add", line |-> l, obj |-> o]
  BY DEF RegisterTake
<1>2. /\ registering.pc = "idle"
      /\ UNCHANGED <<phase, reader, writer, isClosed, unregisteredChanInternal, connCount,
                     unregistering, delArr, snd, added, left, disturbed>>
  BY DEF RegisterTake, lineVars, history
<1>3. /\ l = q[1] /\ l \in Lines /\ r \in Seq(Lines)
      /\ Len(q) \in Nat /\ Len(q) # 0 /\ Len(r) = Len(q) - 1
      /\ \A i \in 1 .. Len(r) : r[i] = q[i + 1]
  <2>1. q \in Seq(Lines)
    BY <1>1 DEF Inv, Typed
  <2> QED
    BY <1>1, <2>1, Taken
<1>4. u \in Users /\ u = UserOf[l]
  BY <1>1, <1>3, HeapTyped
<1>5. /\ heap' \in Seq(ObjectSet) /\ Len(heap') \in Nat /\ Len(heap) <= Len(heap')
      /\ \A p \in 1 .. Len(heap) : heap'[p] = heap[p]
      /\ \A p \in 1 .. Len(heap') : p \in 1 .. Len(heap) \/ (p = o /\ connections[u] = 0)
      /\ o \in 1 .. Len(heap') /\ heap'[o].user = u
      /\ connections[u] = 0 => heap'[o].lines = {} /\ heap'[o].count = 0 /\ o \notin 1 .. Len(heap)
  <2>1. CASE connections[u] = 0
    <3>1. PICK j : j = [lines |-> {}, count |-> 0, user |-> u]
      OBVIOUS
    <3>2. j \in ObjectSet /\ j.lines = {} /\ j.count = 0 /\ j.user = u
      BY <1>4, <3>1 DEF ObjectSet
    <3>3. heap' = Append(heap, j) /\ o = Len(heap) + 1
      BY <1>1, <2>1, <3>1
    <3> QED
      BY <2>1, <3>2, <3>3, HeapTyped
  <2>2. CASE connections[u] # 0
    <3>1. heap' = heap /\ o = connections[u]
      BY <1>1, <2>2
    <3> QED
      BY <1>4, <2>2, <3>1, HeapTyped DEF Owned
  <2> QED
    BY <2>1, <2>2
<1>6. /\ connections' \in [Users -> 0 .. Len(heap')] /\ connections'[u] = o
      /\ \A v \in Users : v # u => connections'[v] = connections[v]
  BY <1>1, <1>4, <1>5, HeapTyped
<1>7. /\ registering' \in LoopSet /\ registering'.pc = "add" /\ registering'.line = l
      /\ registering'.obj = o
  BY <1>1, <1>3, <1>5 DEF LoopSet
<1>8. /\ chans' \in [Lines -> {"nil", "open", "closed"}]
      /\ \A k \in Lines : chans'[k] = "closed" => chans[k] = "closed"
  BY <1>1 DEF Inv, Typed
<1>9. Typed'
  BY <1>1, <1>2, <1>3, <1>5, <1>6, <1>7, <1>8 DEF Inv, Typed
<1>10. \A k, p : In(k, p)' <=> In(k, p)
  BY <1>5 DEF In
<1>11. WaitOnce' /\ \A k : Waits(k)' => Waits(k) /\ k # l
  <2>1. WaitOnce
    BY DEF Inv
  <2>2. \A i \in 1 .. Len(r) : i + 1 \in 1 .. Len(q) /\ i + 1 # 1 /\ 1 \in 1 .. Len(q)
    BY <1>3
  <2>3. \A i, j \in 1 .. Len(r) : i + 1 = j + 1 => i = j
    OBVIOUS
  <2> QED
    BY <1>1, <1>3, <2>1, <2>2, <2>3 DEF WaitOnce, Waits
<1>12. Waits(l) /\ l \notin added /\ phase[l] # "new"
  <2>1. Waits(l)
    BY <1>1, <1>3 DEF Waits
  <2> QED
    BY <1>3, <2>1, Started
<1>13. /\ \A k : (Unregistering(k)' <=> Unregistering(k)) /\ (Removed(k)' <=> Removed(k))
                 /\ (Queued(k)' <=> Queued(k))
       /\ \A k : ~Registering(k) /\ (Registering(k)' <=> k = l)
  BY <1>2, <1>7 DEF Unregistering, Removed, Queued, Registering
<1>14. ASSUME NEW k \in Lines PROVE Once(k)' /\ Unborn(k)' /\ (isClosed'[k] <=> Leaving(k)')
  <2>1. Once(k) /\ Unborn(k) /\ (isClosed[k] <=> Leaving(k))
    BY DEF Inv
  <2>2. Once(k)'
    BY <1>2, <1>10, <1>11, <1>12, <1>13, <2>1 DEF Once
  <2>3. Unborn(k)' /\ (isClosed'[k] <=> Leaving(k)')
    BY <1>2, <1>13, <2>1 DEF Unborn, Leaving
  <2> QED
    BY <2>2, <2>3
<1>15. Owned'
  <2>1. Owned
    BY HeapTyped
  <2>2. \A v \in Users : connections'[v] # 0 => heap'[connections'[v]].user = v
    BY <1>5, <1>6, <2>1, HeapTyped DEF Owned
  <2>3. \A p \in 1 .. Len(heap') : \A k \in heap'[p].lines : UserOf[k] = heap'[p].user
    BY <1>5, <2>1 DEF Owned
  <2>4. unregistering'.pc # "idle" =>
          /\ unregistering'.line \in Lines /\ unregistering'.obj \in 1 .. Len(heap')
          /\ heap'[unregistering'.obj].user = UserOf[unregistering'.line]
    BY <1>2, <1>5, <2>1 DEF Owned
  <2> QED
    BY <1>2, <1>3, <1>4, <1>5, <1>7, <2>1, <2>2, <2>3, <2>4 DEF Owned
<1>16. ASSUME NEW k \in Lines, UserOf[k] \notin disturbed' PROVE Calm(k)'
  <2>1. Calm(k)
    BY <1>2, <1>16 DEF Inv
  <2>2. LeavesOnce(k)'
    BY <1>2, <1>13, <2>1 DEF Calm, LeavesOnce
  <2>3. chans'[l] # "closed" /\ UserOf[k] \in Users
    BY <1>1, <1>3, HeapTyped DEF Inv, Typed
  <2>4. CASE UserOf[k] # u
    <3>1. connections'[UserOf[k]] = connections[UserOf[k]] /\ k # l
      BY <1>1, <1>6, <2>3, <2>4
    <3> QED
      BY <1>2, <1>8, <1>10, <1>13, <2>1, <2>2, <3>1 DEF Calm
  <2>5. CASE k = l
    <3>1. l \notin added /\ l \notin left /\ ~Queued(l) /\ ~Unregistering(l) /\ \A p : ~In(l, p)
      BY <1>12, <2>1, <2>5 DEF Inv, Calm, Once
    <3>2. connections'[UserOf[l]] = registering'.obj
      BY <1>1, <1>6, <1>7
    <3> QED
      BY <1>2, <1>10, <1>13, <2>1, <2>2, <2>3, <2>5, <3>1, <3>2 DEF Calm
  <2>6. CASE UserOf[k] = u /\ k # l
    <3>1. l \notin left /\ u \notin disturbed
      BY <1>1, <1>2, <1>3, <1>12, <1>16, <2>6 DEF Inv, Calm
    <3>2. /\ ~Queued(k) /\ ~Unregistering(k) /\ (k \in left \/ k \notin added)
          /\ \A p : ~In(k, p)
      BY <1>1, <1>3, <1>12, <2>6, <3>1, OnlyLine
    <3> QED
      BY <1>2, <1>8, <1>10, <1>13, <2>1, <2>2, <2>6, <3>2 DEF Calm
  <2> QED
    BY <2>4, <2>5, <2>6
<1>17. \A p \in 1 .. Len(heap') : heap'[p].user \notin disturbed' => Counts(p)'
  BY <1>2, <1>5 DEF Inv, Counts
<1>18. ASSUME NEW v \in Users \ disturbed', connections'[v] # 0 PROVE Busy(connections[v])'
  <2>1. CASE v = u
    BY <1>6, <1>7, <2>1 DEF Busy
  <2>2. CASE v # u
    <3>1. PICK p : p = connections[v]
      OBVIOUS
    <3>2. p \in 1 .. Len(heap) /\ connections'[v] = p /\ Busy(p)
      BY <1>2, <1>6, <1>18, <2>2, <3>1, HeapTyped DEF Inv
    <3> QED
      BY <1>2, <1>5, <3>2 DEF Busy
  <2> QED
    BY <2>1, <2>2
<1>19. ASSUME NEW s \in Senders PROVE Reads(s)'
  <2>1. Reads(s)
    BY DEF Inv
  <2>2. \A p \in 1 .. Len(heap) : p \in 1 .. Len(heap')
    BY <1>5, HeapTyped
  <2> QED
    BY <1>2, <1>10, <2>1, <2>2 DEF Reads
<1>20. Held' = Held
  <2>1. \A k \in Lines : (\E p \in 1 .. Len(heap) : k \in heap[p].lines) <=> \E p : In(k, p)
    BY DEF In
  <2>2. \A k \in Lines : (\E p \in 1 .. Len(heap') : k \in heap'[p].lines) <=> \E p : In(k, p)'
    BY DEF In
  <2> QED
    BY <1>10, <2>1, <2>2 DEF Held
<1> QED
  BY <1>2, <1>9, <1>11, <1>14, <1>15, <1>16, <1>17, <1>18, <1>19, <1>20 DEF Inv

LEMMA Edited ==
    ASSUME NEW S, NEW q \in Seq(S), NEW o \in 1 .. Len(q), NEW j \in S,
           NEW r, r = [q EXCEPT ![o] = j]
    PROVE  /\ r \in Seq(S) /\ Len(r) = Len(q) /\ r[o] = j
           /\ \A p \in 1 .. Len(q) \ {o} : r[p] = q[p]
OBVIOUS

(* The object o is written.                                                 *)
LEMMA Written ==
    ASSUME Inv, NEW o \in 1 .. Len(heap), NEW lines \in SUBSET Lines, NEW count \in Int,
           heap' = [heap EXCEPT ![o].lines = lines, ![o].count = count]
    PROVE  /\ heap' \in Seq(ObjectSet) /\ Len(heap') = Len(heap)
           /\ heap'[o].lines = lines /\ heap'[o].count = count
           /\ \A p \in 1 .. Len(heap) : heap'[p].user = heap[p].user
           /\ \A p \in 1 .. Len(heap) \ {o} : heap'[p] = heap[p]
           /\ \A l, p : In(l, p)' <=> (p = o /\ l \in lines) \/ (p # o /\ In(l, p))
<1>1. heap \in Seq(ObjectSet) /\ heap[o] \in ObjectSet
  BY HeapTyped
<1>2. PICK j : j = [heap[o] EXCEPT !.lines = lines, !.count = count]
  OBVIOUS
<1>3. j \in ObjectSet /\ j.lines = lines /\ j.count = count /\ j.user = heap[o].user
  BY <1>1, <1>2 DEF ObjectSet
<1>4. PICK r : r = heap'
  OBVIOUS
<1>5. r = [heap EXCEPT ![o] = j]
  BY <1>1, <1>2, <1>4 DEF ObjectSet
<1>6. /\ r \in Seq(ObjectSet) /\ Len(r) = Len(heap) /\ r[o] = j
      /\ \A p \in 1 .. Len(heap) \ {o} : r[p] = heap[p]
  BY <1>1, <1>3, <1>5, Edited
<1>7. ASSUME NEW l, NEW p PROVE In(l, p)' <=> (p = o /\ l \in lines) \/ (p # o /\ In(l, p))
  <2>1. In(l, p)' <=> p \in 1 .. Len(r) /\ l \in r[p].lines
    BY <1>4 DEF In
  <2> QED
    BY <1>3, <1>6, <2>1 DEF In
<1> QED
  BY <1>3, <1>4, <1>6, <1>7

(* UserLines.add: the line is in its object, and connCount counts it.       *)
LEMMA RegisterAddInv == ASSUME Inv, RegisterAdd PROVE Inv'
<1>1. PICK l, o : l = registering.line /\ o = registering.obj
  OBVIOUS
<1>2. /\ registering.pc = "add" /\ ~Locked(o) /\ connCount' = connCount + 1
      /\ added' = added \union {l} /\ registering' = Idle
      /\ UNCHANGED <<phase, reader, writer, isClosed, chans, registeredChanInternal,
                     unregisteredChanInternal, connections, unregistering, delArr, snd,
                     left, disturbed>>
  BY <1>1 DEF RegisterAdd, lineVars, chanVars, queues
<1>3. l \in Lines /\ o \in 1 .. Len(heap) /\ heap[o].user = UserOf[l] /\ heap[o] \in ObjectSet
  BY <1>1, <1>2, HeapTyped DEF Owned
<1>4. PICK lines, count : lines = heap[o].lines \union {l} /\ count = heap[o].count + 1
  OBVIOUS
<1>5. lines \in SUBSET Lines /\ count \in Int
  BY <1>3, <1>4 DEF ObjectSet
<1>6. heap' = [heap EXCEPT ![o].lines = lines, ![o].count = count]
  BY <1>1, <1>3, <1>4, HeapTyped DEF RegisterAdd, ObjectSet
<1>7. /\ heap' \in Seq(ObjectSet) /\ Len(heap') = Len(heap)
      /\ heap'[o].lines = lines /\ heap'[o].count = count
      /\ \A p \in 1 .. Len(heap) : heap'[p].user = heap[p].user
      /\ \A p \in 1 .. Len(heap) \ {o} : heap'[p] = heap[p]
      /\ \A k, p : In(k, p)' <=> (p = o /\ k \in lines) \/ (p # o /\ In(k, p))
  BY <1>3, <1>5, <1>6, Written
<1>8. \A k, p : In(k, p)' <=> In(k, p) \/ (k = l /\ p = o)
  BY <1>3, <1>4, <1>7 DEF In
<1>9. Typed'
  BY <1>2, <1>7, IdleTyped DEF Inv, Typed
<1>10. /\ WaitOnce' /\ \A k : (Waits(k)' <=> Waits(k)) /\ (Queued(k)' <=> Queued(k))
       /\ \A k : (Unregistering(k)' <=> Unregistering(k)) /\ (Removed(k)' <=> Removed(k))
       /\ \A k : ~Registering(k)' /\ (Registering(k) <=> k = l)
  BY <1>1, <1>2, IdleTyped
     DEF Inv, WaitOnce, Waits, Queued, Unregistering, Removed, Registering
<1>11. l \notin added /\ phase[l] # "new" /\ ~Waits(l) /\ \A p : ~In(l, p)
  <2>1. Registering(l)
    BY <1>10
  <2>2. Once(l)
    BY <1>3 DEF Inv
  <2> QED
    BY <1>3, <2>1, <2>2, Started DEF Once
<1>12. ASSUME NEW k \in Lines PROVE Once(k)' /\ Unborn(k)' /\ (isClosed'[k] <=> Leaving(k)')
  <2>1. Once(k) /\ Unborn(k) /\ (isClosed[k] <=> Leaving(k))
    BY DEF Inv
  <2>2. Once(k)'
    <3>1. CASE k = l
      <4>1. phase'[l] = "queued"
        BY <1>2, <1>3, <1>10, <2>1, <3>1 DEF Inv, Typed, Once
      <4> QED
        BY <1>2, <1>10, <1>11, <3>1, <4>1 DEF Once
    <3>2. CASE k # l
      BY <1>2, <1>8, <1>10, <2>1, <3>2 DEF Once
    <3> QED
      BY <3>1, <3>2
  <2>3. Unborn(k)' /\ (isClosed'[k] <=> Leaving(k)')
    BY <1>2, <1>10, <2>1 DEF Unborn, Leaving
  <2> QED
    BY <2>2, <2>3
<1>13. Owned'
  <2>1. Owned
    BY HeapTyped
  <2>2. \A v \in Users : connections'[v] # 0 => heap'[connections'[v]].user = v
    BY <1>2, <1>7, <2>1, HeapTyped DEF Owned
  <2>3. \A p \in 1 .. Len(heap') : \A k \in heap'[p].lines : UserOf[k] = heap'[p].user
    BY <1>3, <1>4, <1>7, <2>1 DEF Owned
  <2>4. unregistering'.pc # "idle" =>
          /\ unregistering'.line \in Lines /\ unregistering'.obj \in 1 .. Len(heap')
          /\ heap'[unregistering'.obj].user = UserOf[unregistering'.line]
    BY <1>2, <1>7, <2>1 DEF Owned
  <2> QED
    BY <1>2, <2>1, <2>2, <2>3, <2>4, IdleTyped DEF Owned
<1>14. UserOf[l] \notin disturbed =>
          connections[UserOf[l]] = o /\ l \notin left /\ ~Queued(l) /\ ~Unregistering(l)
  BY <1>1, <1>3, <1>10, <1>11 DEF Inv, Calm
<1>15. ASSUME NEW k \in Lines, UserOf[k] \notin disturbed' PROVE Calm(k)'
  <2>1. Calm(k)
    BY <1>2, <1>15 DEF Inv
  <2>2. LeavesOnce(k)'
    BY <1>2, <1>10, <2>1 DEF Calm, LeavesOnce
  <2>3. CASE k = l
    <3>1. /\ connections'[UserOf[l]] = o /\ l \notin left' /\ ~Queued(l)' /\ ~Unregistering(l)'
          /\ ~Removed(l)' /\ ~Registering(l)' /\ l \in added'
          /\ \A p : In(l, p)' <=> p = o
      BY <1>2, <1>8, <1>10, <1>11, <1>14, <1>15, <2>3 DEF Removed
    <3>2. /\ chans'[l] # "closed"
          /\ \A i \in Lines \ {l} :
                UserOf[i] = UserOf[l] /\ phase'[i] # "new" /\ phase'[l] # "new" =>
                    i \in left' \/ l \in left'
      BY <1>2, <1>14, <1>15, <2>1, <2>3 DEF Calm
    <3> QED
      BY <2>2, <2>3, <3>1, <3>2 DEF Calm
  <2>4. CASE k # l
    BY <1>2, <1>8, <1>10, <2>1, <2>2, <2>4 DEF Calm
  <2> QED
    BY <2>3, <2>4
<1>16. ASSUME NEW p \in 1 .. Len(heap'), heap'[p].user \notin disturbed' PROVE Counts(p)'
  <2>1. CASE p = o
    <3>1. heap[o].lines = {}
      <4> SUFFICES ASSUME NEW k \in heap[o].lines PROVE FALSE
        OBVIOUS
      <4>1. k \in Lines /\ UserOf[k] = UserOf[l] /\ In(k, o) /\ k # l
        BY <1>3, <1>11, HeapTyped DEF ObjectSet, Owned, In
      <4>2. UserOf[l] \notin disturbed
        BY <1>2, <1>3, <1>7, <1>16, <2>1
      <4> QED
        BY <1>3, <1>11, <1>14, <4>1, <4>2, OnlyLine
    <3>2. heap[o].count = 0
      BY <1>2, <1>3, <1>7, <1>16, <2>1, <3>1 DEF Inv, Counts
    <3>3. lines # {} /\ count = 1
      BY <1>4, <3>2
    <3> QED
      BY <1>7, <2>1, <3>3 DEF Counts
  <2>2. CASE p # o
    BY <1>2, <1>7, <1>16, <2>2 DEF Inv, Counts
  <2> QED
    BY <2>1, <2>2
<1>17. ASSUME NEW v \in Users \ disturbed', connections'[v] # 0 PROVE Busy(connections[v])'
  <2>1. PICK p : p = connections[v]
    OBVIOUS
  <2>2. p \in 1 .. Len(heap) /\ connections'[v] = p /\ Busy(p)
    BY <1>2, <1>17, <2>1, HeapTyped DEF Inv
  <2>3. CASE p = o
    BY <1>4, <1>7, <2>2, <2>3 DEF Busy
  <2>4. CASE p # o
    BY <1>1, <1>2, <1>7, <2>2, <2>4 DEF Busy
  <2> QED
    BY <2>3, <2>4
<1>18. ASSUME NEW s \in Senders PROVE Reads(s)'
  <2>1. Reads(s)
    BY DEF Inv
  <2> QED
    BY <1>2, <1>7, <1>8, <2>1 DEF Reads
<1>19. disturbed' = {} => connCount' = Cardinality(Held')
  <2>1. Held' = Held \union {l} /\ l \notin Held
    <3>1. \A k \in Lines : k \in Held' <=> k \in Held \/ k = l
      <4> SUFFICES ASSUME NEW k \in Lines PROVE k \in Held' <=> k \in Held \/ k = l
        OBVIOUS
      <4>1. /\ k \in Held' <=> \E p : In(k, p)'
            /\ k \in Held <=> \E p : In(k, p)
        BY DEF Held, In
      <4> QED
        BY <1>8, <4>1
    <3>2. l \notin Held
      BY <1>11 DEF Held, In
    <3> QED
      BY <1>3, <3>1, <3>2 DEF Held
  <2>2. IsFiniteSet(Held)
    <3>1. Held \subseteq Lines
      BY DEF Held
    <3> QED
      BY <3>1, HubAssumption, FS_Subset
  <2>3. Cardinality(Held') = Cardinality(Held) + 1
    BY <2>1, <2>2, FS_AddElement
  <2> QED
    BY <1>2, <2>3 DEF Inv
<1> QED
  BY <1>9, <1>10, <1>12, <1>13, <1>15, <1>16, <1>17, <1>18, <1>19 DEF Inv

-----------------------------------------------------------------------------
(* The unregistration loop.                                                 *)

(* A user that is not in the map is skipped: a disturbed one.               *)
LEMMA UnregisterTakeInv == ASSUME Inv, UnregisterTake PROVE Inv'
<1>1. PICK q, r, l, o :
         /\ q = unregisteredChanInternal /\ r = unregisteredChanInternal'
         /\ l = Head(q) /\ q # <<>> /\ r = Tail(q) /\ o = connections[UserOf[l]]
         /\ \/ o = 0 /\ left' = left \union {l} /\ unregistering' = unregistering
            \/ /\ o # 0 /\ left' = left
               /\ unregistering' = [pc |-> "remove", line |-> l, obj |-> o]
  BY DEF UnregisterTake
<1>2. /\ unregistering.pc = "idle"
      /\ UNCHANGED <<phase, reader, writer, isClosed, chans, registeredChanInternal,
                     connections, heap, connCount, registering, delArr, snd, added,
                     disturbed>>
  BY DEF UnregisterTake, lineVars, chanVars, mapVars
<1>3. /\ l = q[1] /\ l \in Lines /\ r \in Seq(Lines)
      /\ Len(q) \in Nat /\ Len(q) # 0 /\ Len(r) = Len(q) - 1
      /\ \A i \in 1 .. Len(r) : r[i] = q[i + 1]
  <2>1. q \in Seq(Lines)
    BY <1>1 DEF Inv, Typed
  <2> QED
    BY <1>1, <2>1, Taken
<1>4. o \in 0 .. Len(heap) /\ (o # 0 => heap[o].user = UserOf[l])
  BY <1>1, <1>3, HeapTyped DEF Owned
<1>5. unregistering' \in LoopSet
  BY <1>1, <1>3, <1>4, HeapTyped DEF LoopSet
<1>6. Typed'
  BY <1>1, <1>2, <1>3, <1>5 DEF Inv, Typed
<1>7. /\ \A k, p : In(k, p)' <=> In(k, p)
      /\ \A k : (Waits(k)' <=> Waits(k)) /\ (Registering(k)' <=> Registering(k))
      /\ WaitOnce' /\ Held' = Held
  BY <1>2 DEF Inv, In, Waits, Registering, WaitOnce, Held
<1>8. /\ Queued(l) /\ \A k : Queued(k)' => Queued(k)
      /\ \A k : Queued(k) => Queued(k)' \/ k = l
      /\ LeavesOnce(l) => ~Queued(l)'
  <2>1. \A i \in 1 .. Len(r) : i + 1 \in 1 .. Len(q) /\ i + 1 # 1 /\ 1 \in 1 .. Len(q)
    BY <1>3
  <2>2. 1 \in 1 .. Len(q) /\ \A i \in 1 .. Len(q) : i = 1 \/ (i - 1 \in 1 .. Len(r) /\ r[i - 1] = q[i])
    BY <1>3
  <2>3. Queued(l) /\ \A k : Queued(k)' => Queued(k)
    BY <1>1, <1>3, <2>1, <2>2 DEF Queued
  <2>4. \A k : Queued(k) => Queued(k)' \/ k = l
    BY <1>1, <1>3, <2>2 DEF Queued
  <2>5. LeavesOnce(l) => ~Queued(l)'
    BY <1>1, <1>3, <2>1, <2>2 DEF Queued, LeavesOnce
  <2> QED
    BY <2>3, <2>4, <2>5
<1>9. /\ \A k : ~Unregistering(k) /\ ~Removed(k) /\ ~Removed(k)'
      /\ \A k : Unregistering(k)' <=> k = l /\ o # 0
      /\ o # 0 => unregistering'.pc = "remove" /\ unregistering'.obj = o /\ unregistering'.line = l
  BY <1>1, <1>2 DEF Unregistering, Removed
<1>10. ASSUME NEW k \in Lines PROVE Once(k)' /\ Unborn(k)' /\ (isClosed'[k] <=> Leaving(k)')
  <2>1. Once(k) /\ Unborn(k) /\ (isClosed[k] <=> Leaving(k))
    BY DEF Inv
  <2>2. Once(k)' /\ Unborn(k)'
    BY <1>2, <1>7, <2>1 DEF Once, Unborn
  <2>3. isClosed'[k] <=> Leaving(k)'
    <3>1. Queued(k)' \/ Unregistering(k)' \/ k \in left' <=> Queued(k) \/ k \in left
      BY <1>1, <1>8, <1>9
    <3> QED
      BY <1>2, <1>9, <2>1, <3>1 DEF Leaving
  <2> QED
    BY <2>2, <2>3
<1>11. Owned'
  BY <1>1, <1>2, <1>3, <1>4, <1>9, HeapTyped DEF Owned
<1>12. ASSUME UserOf[l] \notin disturbed
       PROVE  /\ o # 0 /\ l \in added /\ ~Queued(l)' /\ l \notin left
  <2>1. Calm(l)
    BY <1>3, <1>12 DEF Inv
  <2>2. l \in added /\ l \notin left /\ ~Queued(l)'
    BY <1>8, <2>1 DEF Calm, LeavesOnce
  <2>3. In(l, o)
    BY <1>1, <1>9, <2>1, <2>2 DEF Calm
  <2> QED
    BY <2>2, <2>3 DEF In
<1>13. ASSUME NEW k \in Lines, UserOf[k] \notin disturbed' PROVE Calm(k)'
  <2>1. Calm(k)
    BY <1>2, <1>13 DEF Inv
  <2>2. LeavesOnce(k)'
    <3>1. \A i, j \in 1 .. Len(r) : r[i] = k /\ r[j] = k => i = j
      <4>1. \A i \in 1 .. Len(r) : i + 1 \in 1 .. Len(q)
        BY <1>3
      <4>2. \A i, j \in 1 .. Len(r) : i + 1 = j + 1 => i = j
        OBVIOUS
      <4> QED
        BY <1>1, <1>3, <2>1, <4>1, <4>2 DEF Calm, LeavesOnce
    <3>2. k = l => left' = left /\ l \notin left /\ ~Queued(l)'
      BY <1>1, <1>2, <1>12, <1>13
    <3>3. k # l => (Queued(k)' => k \notin left') /\ ~Unregistering(k)'
      BY <1>1, <1>8, <1>9, <2>1 DEF Calm, LeavesOnce
    <3> QED
      BY <1>1, <3>1, <3>2, <3>3 DEF LeavesOnce
  <2>3. k = l => o # 0 /\ l \in added /\ left' = left
    BY <1>1, <1>2, <1>12, <1>13
  <2>4. k \in left' <=> k \in left
    BY <1>1, <2>3
  <2>5. Queued(k)' \/ Unregistering(k)' \/ k \in left' => k \in added'
    BY <1>2, <1>8, <1>9, <2>1, <2>3, <2>4 DEF Calm
  <2>6. Unregistering(k)' => connections'[UserOf[k]] \in {0, unregistering'.obj}
    BY <1>1, <1>2, <1>9
  <2>7. \A i \in Lines \ {k} :
           UserOf[i] = UserOf[k] /\ phase'[i] # "new" /\ phase'[k] # "new" =>
               i \in left' \/ k \in left'
    BY <1>1, <1>2, <2>1 DEF Calm
  <2> QED
    BY <1>2, <1>7, <1>9, <2>1, <2>2, <2>4, <2>5, <2>6, <2>7 DEF Calm
<1>14. /\ \A p \in 1 .. Len(heap') : heap'[p].user \notin disturbed' => Counts(p)'
       /\ \A v \in Users \ disturbed' : connections'[v] # 0 => Busy(connections[v])'
       /\ \A s \in Senders : Reads(s)'
       /\ disturbed' = {} => connCount' = Cardinality(Held')
  <2>1. \A p \in 1 .. Len(heap') : heap'[p].user \notin disturbed' => Counts(p)'
    BY <1>2 DEF Inv, Counts
  <2>2. \A v \in Users \ disturbed' : connections'[v] # 0 => Busy(connections[v])'
    BY <1>2 DEF Inv, Busy
  <2>3. \A s \in Senders : Reads(s)'
    BY <1>2 DEF Inv, Reads, In
  <2>4. disturbed' = {} => connCount' = Cardinality(Held')
    BY <1>2, <1>7 DEF Inv
  <2> QED
    BY <2>1, <2>2, <2>3, <2>4
<1> QED
  BY <1>6, <1>7, <1>10, <1>11, <1>13, <1>14 DEF Inv

(* UserLines.remove: a calm line is the only one of its object.             *)
LEMMA UnregisterRemoveInv == ASSUME Inv, UnregisterRemove PROVE Inv'
<1>1. PICK l, o : l = unregistering.line /\ o = unregistering.obj
  OBVIOUS
<1>2. /\ unregistering.pc = "remove" /\ ~Locked(o) /\ connCount' = connCount - 1
      /\ unregistering' = [unregistering EXCEPT !.pc = "close"]
      /\ UNCHANGED <<phase, reader, writer, isClosed, chans, registeredChanInternal,
                     unregisteredChanInternal, connections, registering, delArr, snd,
                     added, left, disturbed>>
  BY <1>1 DEF UnregisterRemove, lineVars, chanVars, queues, history
<1>3. l \in Lines /\ o \in 1 .. Len(heap) /\ heap[o].user = UserOf[l] /\ heap[o] \in ObjectSet
  BY <1>1, <1>2, HeapTyped DEF Owned
<1>4. PICK lines, count :
         lines = Without(heap[o].lines, IdOf[l]) /\ count = heap[o].count - 1
  OBVIOUS
<1>5. lines \in SUBSET Lines /\ count \in Int /\ lines \subseteq heap[o].lines \ {l}
  BY <1>3, <1>4 DEF ObjectSet, Without
<1>6. heap' = [heap EXCEPT ![o].lines = lines, ![o].count = count]
  BY <1>1, <1>3, <1>4, HeapTyped DEF UnregisterRemove, ObjectSet
<1>7. /\ heap' \in Seq(ObjectSet) /\ Len(heap') = Len(heap)
      /\ heap'[o].lines = lines /\ heap'[o].count = count
      /\ \A p \in 1 .. Len(heap) : heap'[p].user = heap[p].user
      /\ \A p \in 1 .. Len(heap) \ {o} : heap'[p] = heap[p]
      /\ \A k, p : In(k, p)' <=> (p = o /\ k \in lines) \/ (p # o /\ In(k, p))
  BY <1>3, <1>5, <1>6, Written
<1>8. /\ \A k, p : In(k, p)' => In(k, p)
      /\ ~In(l, o)' /\ \A k, p : p # o => (In(k, p)' <=> In(k, p))
  BY <1>3, <1>5, <1>7 DEF In
<1>9. /\ unregistering' \in LoopSet /\ unregistering'.pc = "close"
      /\ unregistering'.line = l /\ unregistering'.obj = o
  BY <1>1, <1>2, HeapTyped DEF LoopSet
<1>10. Typed'
  BY <1>2, <1>7, <1>9 DEF Inv, Typed
<1>11. /\ WaitOnce' /\ \A k : (Waits(k)' <=> Waits(k)) /\ (Queued(k)' <=> Queued(k))
       /\ \A k : (Unregistering(k)' <=> k = l) /\ (Unregistering(k) <=> k = l)
       /\ \A k : (Removed(k)' <=> k = l) /\ ~Removed(k)
       /\ \A k : Registering(k)' <=> Registering(k)
  BY <1>1, <1>2, <1>9
     DEF Inv, WaitOnce, Waits, Queued, Unregistering, Removed, Registering
<1>12. ASSUME NEW k \in Lines PROVE Once(k)' /\ Unborn(k)' /\ (isClosed'[k] <=> Leaving(k)')
  <2>1. Once(k) /\ Unborn(k) /\ (isClosed[k] <=> Leaving(k))
    BY DEF Inv
  <2>2. Once(k)'
    BY <1>2, <1>8, <1>11, <2>1 DEF Once
  <2>3. Unborn(k)' /\ (isClosed'[k] <=> Leaving(k)')
    BY <1>2, <1>11, <2>1 DEF Unborn, Leaving
  <2> QED
    BY <2>2, <2>3
<1>13. Owned'
  <2>1. Owned
    BY HeapTyped
  <2>2. \A v \in Users : connections'[v] # 0 => heap'[connections'[v]].user = v
    BY <1>2, <1>7, <2>1, HeapTyped DEF Owned
  <2>3. \A p \in 1 .. Len(heap') : \A k \in heap'[p].lines : UserOf[k] = heap'[p].user
    BY <1>3, <1>5, <1>7, <2>1 DEF Owned
  <2>4. registering'.pc = "add" =>
          /\ registering'.line \in Lines /\ registering'.obj \in 1 .. Len(heap')
          /\ heap'[registering'.obj].user = UserOf[registering'.line]
    BY <1>2, <1>7, <2>1 DEF Owned
  <2> QED
    BY <1>2, <1>3, <1>7, <1>9, <2>1, <2>2, <2>3, <2>4 DEF Owned
<1>14. ASSUME UserOf[l] \notin disturbed
       PROVE  /\ connections[UserOf[l]] = o /\ l \notin left /\ l \in added /\ In(l, o)
              /\ heap[o].lines = {l} /\ heap[o].count = 1
              /\ \A p : In(l, p) => p = o
  <2>1. Calm(l)
    BY <1>3, <1>14 DEF Inv
  <2>2. l \in added /\ l \notin left
    BY <1>11, <2>1 DEF Calm, LeavesOnce
  <2>3. In(l, connections[UserOf[l]]) /\ connections[UserOf[l]] \in {0, o}
    BY <1>1, <1>11, <2>1, <2>2 DEF Calm
  <2>4. connections[UserOf[l]] = o /\ In(l, o) /\ \A p : In(l, p) => p = o
    BY <2>1, <2>3 DEF In, Calm
  <2>5. ASSUME NEW k \in heap[o].lines PROVE k = l
    <3>1. k \in Lines /\ UserOf[k] = UserOf[l] /\ In(k, o)
      BY <1>3, HeapTyped DEF ObjectSet, Owned, In
    <3> QED
      BY <1>3, <1>14, <2>2, <3>1, OnlyLine, Started
  <2>6. heap[o].lines = {l}
    BY <2>4, <2>5 DEF In
  <2>7. heap[o].count = 1
    BY <1>3, <1>14, <2>6 DEF Inv, Counts
  <2> QED
    BY <2>2, <2>4, <2>6, <2>7
<1>15. ASSUME NEW k \in Lines, UserOf[k] \notin disturbed' PROVE Calm(k)'
  <2>1. Calm(k)
    BY <1>2, <1>15 DEF Inv
  <2>2. LeavesOnce(k)'
    BY <1>2, <1>11, <2>1 DEF Calm, LeavesOnce
  <2>3. CASE k = l
    <3>1. /\ connections'[UserOf[l]] = o /\ l \notin left' /\ Removed(l)' /\ l \in added'
          /\ \A p : ~In(l, p)'
      BY <1>2, <1>8, <1>11, <1>14, <1>15, <2>3
    <3>2. /\ chans'[l] # "closed" /\ (Registering(l)' => connections'[UserOf[l]] = registering'.obj)
          /\ \A i \in Lines \ {l} :
                UserOf[i] = UserOf[l] /\ phase'[i] # "new" /\ phase'[l] # "new" =>
                    i \in left' \/ l \in left'
      BY <1>2, <1>11, <1>14, <1>15, <2>1, <2>3 DEF Calm
    <3> QED
      BY <1>9, <2>2, <2>3, <3>1, <3>2 DEF Calm
  <2>4. CASE k # l
    <3>1. ASSUME NEW p PROVE In(k, p)' <=> In(k, p)
      <4>1. p = o => ~In(k, p)
        <5>1. In(k, o) => UserOf[k] = UserOf[l]
          BY <1>3, HeapTyped DEF In, Owned
        <5> QED
          BY <1>2, <1>14, <1>15, <2>4, <5>1 DEF In
      <4> QED
        BY <1>8, <4>1
    <3> QED
      BY <1>2, <1>11, <2>1, <2>2, <2>4, <3>1 DEF Calm
  <2> QED
    BY <2>3, <2>4
<1>16. ASSUME NEW p \in 1 .. Len(heap'), heap'[p].user \notin disturbed' PROVE Counts(p)'
  <2>1. CASE p = o
    <3>1. UserOf[l] \notin disturbed
      BY <1>2, <1>3, <1>7, <1>16, <2>1
    <3>2. lines = {} /\ count = 0
      BY <1>4, <1>5, <1>14, <3>1
    <3> QED
      BY <1>7, <2>1, <3>2 DEF Counts
  <2>2. CASE p # o
    BY <1>2, <1>7, <1>16, <2>2 DEF Inv, Counts
  <2> QED
    BY <2>1, <2>2
<1>17. ASSUME NEW v \in Users \ disturbed', connections'[v] # 0 PROVE Busy(connections[v])'
  <2>1. PICK p : p = connections[v]
    OBVIOUS
  <2>2. p \in 1 .. Len(heap) /\ connections'[v] = p /\ Busy(p)
    BY <1>2, <1>17, <2>1, HeapTyped DEF Inv
  <2>3. CASE p = o
    BY <1>9, <2>2, <2>3 DEF Busy
  <2>4. CASE p # o
    BY <1>1, <1>2, <1>7, <2>2, <2>4 DEF Busy
  <2> QED
    BY <2>3, <2>4
<1>18. ASSUME NEW s \in Senders PROVE Reads(s)'
  <2>1. Reads(s)
    BY DEF Inv
  <2>2. snd[s].pc \in {"iterate", "sending"} => snd[s].obj # o
    BY <1>2 DEF Locked
  <2>3. \A k, p : p # o => (In(k, p)' <=> In(k, p))
    BY <1>8
  <2> QED
    BY <1>2, <1>7, <2>1, <2>2, <2>3 DEF Reads
<1>19. disturbed' = {} => connCount' = Cardinality(Held')
  <2> SUFFICES ASSUME disturbed' = {} PROVE connCount' = Cardinality(Held')
    OBVIOUS
  <2>1. /\ heap[o].lines = {l} /\ In(l, o) /\ \A p : In(l, p) => p = o
    BY <1>2, <1>14
  <2>2. \A k \in Lines : /\ k \in Held' <=> \E p : In(k, p)'
                         /\ k \in Held <=> \E p : In(k, p)
    BY DEF Held, In
  <2>3. \A k \in Lines : k \in Held' <=> k \in Held /\ k # l
    <3>1. ASSUME NEW k, NEW p, k # l PROVE In(k, p)' <=> In(k, p)
      BY <1>8, <2>1, <3>1 DEF In
    <3>2. \A p : ~In(l, p)'
      BY <1>8, <2>1
    <3> QED
      BY <2>2, <3>1, <3>2
  <2>4. Held' = Held \ {l} /\ l \in Held
    BY <1>3, <2>1, <2>2, <2>3 DEF Held
  <2>5. IsFiniteSet(Held)
    <3>1. Held \subseteq Lines
      BY DEF Held
    <3> QED
      BY <3>1, HubAssumption, FS_Subset
  <2>6. Cardinality(Held') = Cardinality(Held) - 1
    BY <2>4, <2>5, FS_RemoveElement
  <2> QED
    BY <1>2, <2>6 DEF Inv
<1> QED
  BY <1>10, <1>11, <1>12, <1>13, <1>15, <1>16, <1>17, <1>18, <1>19 DEF Inv

(* The object of a calm line that was removed is empty.                     *)
LEMMA EmptyObject ==
    ASSUME Inv, unregistering.pc \in {"close", "delete"},
           UserOf[unregistering.line] \notin disturbed
    PROVE  /\ heap[unregistering.obj].lines = {} /\ heap[unregistering.obj].count = 0
           /\ unregistering.line \in added /\ unregistering.line \notin left
           /\ ~Queued(unregistering.line) /\ \A p : ~In(unregistering.line, p)
           /\ phase[unregistering.line] # "new"
<1>1. PICK l, o : l = unregistering.line /\ o = unregistering.obj
  OBVIOUS
<1>2. /\ l \in Lines /\ o \in 1 .. Len(heap) /\ heap[o].user = UserOf[l]
      /\ heap[o] \in ObjectSet
  BY <1>1, HeapTyped DEF Owned
<1>3. Calm(l) /\ Unregistering(l) /\ Removed(l)
  BY <1>1, <1>2 DEF Inv, Unregistering, Removed
<1>4. l \in added /\ l \notin left /\ ~Queued(l) /\ \A p : ~In(l, p)
  BY <1>3 DEF Calm, LeavesOnce
<1>5. phase[l] # "new"
  BY <1>2, <1>4, Started
<1>6. ASSUME NEW k \in heap[o].lines PROVE FALSE
  <2>1. k \in Lines /\ UserOf[k] = UserOf[l] /\ In(k, o)
    BY <1>2, HeapTyped DEF ObjectSet, Owned, In
  <2> QED
    BY <1>1, <1>2, <1>4, <1>5, <2>1, OnlyLine
<1>7. heap[o].count = 0
  BY <1>1, <1>2, <1>6 DEF Inv, Counts
<1> QED
  BY <1>1, <1>4, <1>5, <1>6, <1>7

(* What stays when no object changes.                                       *)
LEMMA SameHeap ==
    ASSUME Inv, UNCHANGED <<heap, connCount, snd>>, disturbed \subseteq disturbed'
    PROVE  /\ \A l, o : In(l, o)' <=> In(l, o)
           /\ \A o \in 1 .. Len(heap') : heap'[o].user \notin disturbed' => Counts(o)'
           /\ \A s \in Senders : Reads(s)'
           /\ disturbed' = {} => connCount' = Cardinality(Held')
<1>1. \A l, o : In(l, o)' <=> In(l, o)
  BY DEF In
<1>2. Held' = Held
  BY DEF Held
<1>3. \A o \in 1 .. Len(heap') : heap'[o].user \notin disturbed' => Counts(o)'
  BY DEF Inv, Counts
<1>4. \A s \in Senders : Reads(s)'
  BY DEF Inv, Reads, In
<1> QED
  BY <1>1, <1>2, <1>3, <1>4 DEF Inv

(* closeLineChans, when the line is in no object any more.                  *)
LEMMA UnregisterCloseInv == ASSUME Inv, UnregisterClose PROVE Inv'
<1>1. PICK l, o : l = unregistering.line /\ o = unregistering.obj
  OBVIOUS
<1>2. /\ unregistering.pc = "close"
      /\ chans' = [chans EXCEPT ![l] = IF @ = "open" THEN "closed" ELSE @]
      /\ \/ /\ heap[o].count = 0 /\ unregistering' = [unregistering EXCEPT !.pc = "delete"]
            /\ left' = left
         \/ heap[o].count # 0 /\ unregistering' = Idle /\ left' = left \union {l}
      /\ UNCHANGED <<phase, reader, writer, isClosed, registeredChanInternal,
                     unregisteredChanInternal, connections, heap, connCount, registering,
                     delArr, snd, added, disturbed>>
  BY <1>1 DEF UnregisterClose, lineVars, queues, mapVars
<1>3. /\ l \in Lines /\ o \in 1 .. Len(heap) /\ heap[o].user = UserOf[l]
      /\ unregistering \in LoopSet
  BY <1>1, <1>2, HeapTyped DEF Owned
<1>4. /\ chans' \in [Lines -> {"nil", "open", "closed"}]
      /\ \A k \in Lines : k # l => chans'[k] = chans[k]
  BY <1>2 DEF Inv, Typed
<1>5. /\ unregistering' \in LoopSet
      /\ \/ unregistering'.pc = "idle"
         \/ unregistering'.pc = "delete" /\ unregistering'.line = l /\ unregistering'.obj = o
  <2>1. CASE unregistering' = Idle
    BY <2>1, IdleTyped
  <2>2. CASE unregistering' = [unregistering EXCEPT !.pc = "delete"]
    BY <1>1, <1>3, <2>2 DEF LoopSet
  <2> QED
    BY <1>2, <2>1, <2>2
<1>6. Typed'
  BY <1>2, <1>4, <1>5 DEF Inv, Typed
<1>7. UserOf[l] \notin disturbed =>
         /\ heap[o].lines = {} /\ l \in added /\ l \notin left /\ ~Queued(l)
         /\ \A p : ~In(l, p)
         /\ left' = left /\ unregistering'.pc = "delete" /\ unregistering'.line = l
         /\ unregistering'.obj = o
  <2>1. UserOf[l] \notin disturbed =>
           /\ heap[o].lines = {} /\ heap[o].count = 0 /\ l \in added /\ l \notin left
           /\ ~Queued(l) /\ \A p : ~In(l, p)
    BY <1>1, <1>2, EmptyObject
  <2>2. heap[o].count = 0 => left' = left /\ unregistering'.pc = "delete"
    BY <1>2, <1>3 DEF LoopSet
  <2> QED
    BY <1>5, <2>1, <2>2
<1>8. /\ \A k : Unregistering(k) <=> k = l
      /\ \A k : Removed(k) <=> k = l
      /\ \A k : k # l => ~Unregistering(k)' /\ ~Removed(k)'
      /\ Unregistering(l)' \/ l \in left'
      /\ \A k : k # l => (k \in left' <=> k \in left)
      /\ left \subseteq left'
  <2>1. /\ \A k : Unregistering(k) <=> k = l
        /\ \A k : Removed(k) <=> k = l
    BY <1>1, <1>2 DEF Unregistering, Removed
  <2>2. \A k : k # l => ~Unregistering(k)' /\ ~Removed(k)'
    BY <1>5 DEF Unregistering, Removed
  <2>3. CASE left' = left /\ unregistering' = [unregistering EXCEPT !.pc = "delete"]
    <3>1. unregistering'.pc = "delete" /\ unregistering'.line = l
      BY <1>1, <1>3, <2>3 DEF LoopSet
    <3>2. Unregistering(l)'
      BY <3>1 DEF Unregistering
    <3> QED
      BY <2>1, <2>2, <2>3, <3>2
  <2>4. CASE left' = left \union {l}
    BY <2>1, <2>2, <2>4
  <2> QED
    BY <1>2, <2>3, <2>4
<1>9. /\ WaitOnce' /\ \A k : (Waits(k)' <=> Waits(k)) /\ (Queued(k)' <=> Queued(k))
      /\ \A k : Registering(k)' <=> Registering(k)
  BY <1>2 DEF Inv, WaitOnce, Waits, Queued, Registering
<1>10. ASSUME NEW k \in Lines PROVE Once(k)' /\ Unborn(k)' /\ (isClosed'[k] <=> Leaving(k)')
  <2>1. Once(k) /\ Unborn(k) /\ (isClosed[k] <=> Leaving(k))
    BY DEF Inv
  <2>2. Once(k)' /\ Unborn(k)'
    BY <1>2, <1>9, <2>1, SameHeap DEF Once, Unborn
  <2>3. isClosed'[k] <=> Leaving(k)'
    BY <1>2, <1>8, <1>9, <2>1 DEF Leaving
  <2> QED
    BY <2>2, <2>3
<1>11. Owned'
  BY <1>2, <1>3, <1>5, HeapTyped DEF Owned
<1>12. ASSUME NEW k \in Lines, UserOf[k] \notin disturbed' PROVE Calm(k)'
  <2>1. Calm(k) /\ \A p : In(k, p)' <=> In(k, p)
    BY <1>2, <1>12, SameHeap DEF Inv
  <2>2. CASE k = l
    <3>1. /\ l \in added' /\ l \notin left' /\ ~Queued(l)' /\ Removed(l)'
          /\ \A p : ~In(l, p)' 
      BY <1>2, <1>7, <1>9, <1>12, <2>1, <2>2 DEF Unregistering, Removed
    <3>2. Unregistering(l)' /\ unregistering'.pc = "delete" /\ unregistering'.obj = o
      BY <1>2, <1>7, <1>8, <1>12, <2>2, <3>1
    <3>3. LeavesOnce(l)'
      BY <1>2, <2>1, <2>2, <3>1 DEF Calm, LeavesOnce
    <3>4. /\ connections'[UserOf[l]] \in {0, o}
          /\ Registering(l)' => connections'[UserOf[l]] = registering'.obj
          /\ \A i \in Lines \ {l} :
                UserOf[i] = UserOf[l] /\ phase'[i] # "new" /\ phase'[l] # "new" =>
                    i \in left' \/ l \in left'
      BY <1>1, <1>2, <1>8, <1>9, <2>1, <2>2 DEF Calm
    <3> QED
      BY <2>2, <3>1, <3>2, <3>3, <3>4 DEF Calm
  <2>3. CASE k # l
    <3>1. LeavesOnce(k)'
      BY <1>2, <1>8, <1>9, <2>1, <2>3 DEF Calm, LeavesOnce
    <3>2. \A i \in Lines \ {k} :
             UserOf[i] = UserOf[k] /\ phase'[i] # "new" /\ phase'[k] # "new" =>
                 i \in left' \/ k \in left'
      BY <1>2, <1>8, <2>1 DEF Calm
    <3> QED
      BY <1>2, <1>4, <1>8, <1>9, <2>1, <2>3, <3>1, <3>2 DEF Calm
  <2> QED
    BY <2>2, <2>3
<1>13. ASSUME NEW v \in Users \ disturbed', connections'[v] # 0 PROVE Busy(connections[v])'
  <2>1. PICK p : p = connections[v]
    OBVIOUS
  <2>2. /\ p \in 1 .. Len(heap) /\ connections'[v] = p /\ Busy(p)
        /\ heap[p].user = v /\ v \notin disturbed
    BY <1>2, <1>13, <2>1, HeapTyped DEF Inv, Owned
  <2>3. CASE p = o
    BY <1>2, <1>3, <1>7, <2>2, <2>3 DEF Busy
  <2>4. CASE p # o
    BY <1>1, <1>2, <2>2, <2>4 DEF Busy
  <2> QED
    BY <2>3, <2>4
<1> QED
  BY <1>2, <1>6, <1>9, <1>10, <1>11, <1>12, <1>13, SameHeap DEF Inv

(* A user without lines leaves the map.                                     *)
LEMMA UnregisterDeleteInv == ASSUME Inv, UnregisterDelete PROVE Inv'
<1>1. PICK l, o, u : l = unregistering.line /\ o = unregistering.obj /\ u = UserOf[l]
  OBVIOUS
<1>2. /\ unregistering.pc = "delete" /\ connections' = [connections EXCEPT ![u] = 0]
      /\ unregistering' = Idle /\ left' = left \union {l}
      /\ UNCHANGED <<phase, reader, writer, isClosed, chans, registeredChanInternal,
                     unregisteredChanInternal, heap, connCount, registering,
                     delArr, snd, added, disturbed>>
  BY <1>1 DEF UnregisterDelete, lineVars, chanVars, queues
<1>3. /\ l \in Lines /\ u \in Users /\ o \in 1 .. Len(heap) /\ heap[o].user = u
  BY <1>1, <1>2, HeapTyped DEF Owned
<1>4. /\ connections' \in [Users -> 0 .. Len(heap)] /\ connections'[u] = 0
      /\ \A v \in Users : v # u => connections'[v] = connections[v]
  <2>1. 0 \in 0 .. Len(heap)
    BY HeapTyped
  <2> QED
    BY <1>2, <1>3, <2>1, HeapTyped
<1>5. Typed'
  BY <1>2, <1>4, IdleTyped DEF Inv, Typed
<1>6. u \notin disturbed =>
         /\ l \in added /\ l \notin left /\ ~Queued(l) /\ phase[l] # "new"
         /\ \A p : ~In(l, p)
  BY <1>1, <1>2, EmptyObject
<1>7. /\ \A k : Unregistering(k) <=> k = l
      /\ \A k : Removed(k) <=> k = l
      /\ \A k : ~Unregistering(k)' /\ ~Removed(k)'
      /\ unregistering'.pc = "idle"
      /\ \A k : k # l => (k \in left' <=> k \in left)
      /\ left \subseteq left' /\ l \in left'
  BY <1>1, <1>2, IdleTyped DEF Unregistering, Removed
<1>8. /\ WaitOnce' /\ \A k : (Waits(k)' <=> Waits(k)) /\ (Queued(k)' <=> Queued(k))
      /\ \A k : Registering(k)' <=> Registering(k)
  BY <1>2 DEF Inv, WaitOnce, Waits, Queued, Registering
<1>9. ASSUME NEW k \in Lines PROVE Once(k)' /\ Unborn(k)' /\ (isClosed'[k] <=> Leaving(k)')
  <2>1. Once(k) /\ Unborn(k) /\ (isClosed[k] <=> Leaving(k))
    BY DEF Inv
  <2>2. Once(k)' /\ Unborn(k)'
    BY <1>2, <1>8, <2>1, SameHeap DEF Once, Unborn
  <2>3. isClosed'[k] <=> Leaving(k)'
    BY <1>2, <1>7, <1>8, <2>1 DEF Leaving
  <2> QED
    BY <2>2, <2>3
<1>10. Owned'
  BY <1>2, <1>4, <1>7, HeapTyped DEF Owned
<1>11. ASSUME NEW k \in Lines, UserOf[k] \notin disturbed' PROVE Calm(k)'
  <2>1. /\ Calm(k) /\ \A p : In(k, p)' <=> In(k, p)
        /\ UserOf[k] \in Users
    BY <1>2, <1>11, SameHeap, HeapTyped DEF Inv
  <2>2. \A i \in Lines \ {k} :
           UserOf[i] = UserOf[k] /\ phase'[i] # "new" /\ phase'[k] # "new" =>
               i \in left' \/ k \in left'
    BY <1>2, <1>7, <2>1 DEF Calm
  <2>3. LeavesOnce(k)'
    BY <1>1, <1>2, <1>6, <1>7, <1>8, <1>11, <2>1 DEF Calm, LeavesOnce
  <2>4. CASE k = l
    <3>1. /\ l \in added' /\ l \in left' /\ \A p : ~In(l, p)'
      BY <1>1, <1>2, <1>6, <1>7, <1>11, <2>1, <2>4
    <3>2. ~Registering(l)'
      BY <1>1, <1>2, <1>3, <1>6, <1>8, <1>11, <2>4, Started
    <3> QED
      BY <1>7, <2>2, <2>3, <2>4, <3>1, <3>2 DEF Calm
  <2>5. CASE k # l /\ UserOf[k] = u
    <3>1. /\ ~Registering(k) /\ ~Queued(k) /\ (k \in left \/ k \notin added)
          /\ \A p : ~In(k, p)
      BY <1>1, <1>2, <1>3, <1>6, <1>11, <2>5, OnlyLine
    <3> QED
      BY <1>2, <1>7, <1>8, <2>1, <2>2, <2>3, <2>5, <3>1 DEF Calm
  <2>6. CASE UserOf[k] # u
    <3>1. connections'[UserOf[k]] = connections[UserOf[k]] /\ k # l
      BY <1>1, <1>4, <2>1, <2>6
    <3> QED
      BY <1>2, <1>7, <1>8, <2>1, <2>2, <2>3, <3>1 DEF Calm
  <2> QED
    BY <2>4, <2>5, <2>6
<1>12. ASSUME NEW v \in Users \ disturbed', connections'[v] # 0 PROVE Busy(connections[v])'
  <2>1. PICK p : p = connections[v]
    OBVIOUS
  <2>2. /\ p \in 1 .. Len(heap) /\ connections'[v] = p /\ Busy(p)
        /\ heap[p].user = v /\ v # u
    BY <1>2, <1>4, <1>12, <2>1, HeapTyped DEF Inv, Owned
  <2> QED
    BY <1>1, <1>2, <1>3, <2>2 DEF Busy
<1> QED
  BY <1>2, <1>5, <1>8, <1>9, <1>10, <1>11, <1>12, SameHeap DEF Inv

(* The live check takes a user off the map: if it has got a line in the     *)
(* meantime, the user is disturbed.                                         *)
LEMMA LiveCheckDeleteInv == ASSUME Inv, LiveCheckDelete PROVE Inv'
<1>1. PICK u \in delArr :
         /\ connections' = [connections EXCEPT ![u] = 0]
         /\ delArr' = delArr \ {u}
         /\ disturbed' = IF InUse(u) THEN disturbed \union {u} ELSE disturbed
         /\ UNCHANGED <<phase, reader, writer, isClosed, chans, registeredChanInternal,
                        unregisteredChanInternal, heap, connCount, registering,
                        unregistering, snd, added, left>>
  BY DEF LiveCheckDelete, DisturbedIf, lineVars, chanVars, queues
<1>2. u \in Users /\ delArr' \subseteq Users
  BY <1>1 DEF Inv, Typed
<1>3. /\ connections' \in [Users -> 0 .. Len(heap)] /\ connections'[u] = 0
      /\ \A v \in Users : v # u => connections'[v] = connections[v]
  <2>1. 0 \in 0 .. Len(heap)
    BY HeapTyped
  <2> QED
    BY <1>1, <1>2, <2>1, HeapTyped
<1>4. Typed'
  BY <1>1, <1>2, <1>3 DEF Inv, Typed
<1>5. disturbed \subseteq disturbed'
  BY <1>1
<1>6. u \notin disturbed' /\ connections[u] # 0 =>
         /\ heap[connections[u]].lines = {}
         /\ registering.pc # "add" \/ registering.obj # connections[u]
  BY <1>1 DEF InUse
<1>7. /\ WaitOnce' /\ \A k : (Waits(k)' <=> Waits(k)) /\ (Queued(k)' <=> Queued(k))
      /\ \A k : (Registering(k)' <=> Registering(k)) /\ (Removed(k)' <=> Removed(k))
                /\ (Unregistering(k)' <=> Unregistering(k))
  BY <1>1 DEF Inv, WaitOnce, Waits, Queued, Registering, Unregistering, Removed
<1>8. ASSUME NEW k \in Lines PROVE Once(k)' /\ Unborn(k)' /\ (isClosed'[k] <=> Leaving(k)')
  <2>1. Once(k) /\ Unborn(k) /\ (isClosed[k] <=> Leaving(k))
    BY DEF Inv
  <2> QED
    BY <1>1, <1>5, <1>7, <2>1, SameHeap DEF Once, Unborn, Leaving
<1>9. Owned'
  BY <1>1, <1>3, HeapTyped DEF Owned
<1>10. ASSUME NEW k \in Lines, UserOf[k] \notin disturbed' PROVE Calm(k)'
  <2>1. /\ Calm(k) /\ \A p : In(k, p)' <=> In(k, p)
        /\ UserOf[k] \in Users
    BY <1>1, <1>5, <1>10, SameHeap, HeapTyped DEF Inv
  <2>2. LeavesOnce(k)'
    BY <1>1, <1>7, <2>1 DEF Calm, LeavesOnce
  <2>3. CASE UserOf[k] = u
    <3>1. \A p : ~In(k, p)
      <4> SUFFICES ASSUME NEW p, In(k, p) PROVE FALSE
        OBVIOUS
      <4>1. connections[u] = p /\ p # 0
        BY <2>1, <2>3 DEF Calm, In
      <4> QED
        BY <1>6, <1>10, <2>3, <4>1 DEF In
    <3>2. ~Registering(k)
      <4> SUFFICES ASSUME Registering(k) PROVE FALSE
        OBVIOUS
      <4>1. /\ connections[u] = registering.obj /\ registering.pc = "add"
            /\ registering.obj # 0
        BY <2>1, <2>3, HeapTyped DEF Calm, Registering, Owned
      <4> QED
        BY <1>6, <1>10, <2>3, <4>1
    <3>3. k \in added => k \in left \/ Removed(k)
      BY <2>1, <3>1 DEF Calm
    <3> QED
      BY <1>1, <1>3, <1>7, <2>1, <2>2, <2>3, <3>1, <3>2, <3>3 DEF Calm
  <2>4. CASE UserOf[k] # u
    <3>1. connections'[UserOf[k]] = connections[UserOf[k]]
      BY <1>3, <2>1, <2>4
    <3> QED
      BY <1>1, <1>7, <2>1, <2>2, <3>1 DEF Calm
  <2> QED
    BY <2>3, <2>4
<1>11. ASSUME NEW v \in Users \ disturbed', connections'[v] # 0 PROVE Busy(connections[v])'
  <2>1. PICK p : p = connections[v]
    OBVIOUS
  <2>2. connections'[v] = p /\ Busy(p)
    BY <1>3, <1>5, <1>11, <2>1 DEF Inv
  <2> QED
    BY <1>1, <2>2 DEF Busy
<1> QED
  BY <1>1, <1>4, <1>5, <1>7, <1>8, <1>9, <1>10, <1>11, SameHeap DEF Inv

-----------------------------------------------------------------------------
LEMMA NextInv == Inv /\ [Next]_vars => Inv'
<1> SUFFICES ASSUME Inv, [Next]_vars PROVE Inv'
  OBVIOUS
<1>1. ASSUME NEW l \in Lines, Upgrade(l) \/ QueueLine(l) \/ PeerLeaves(l) PROVE Inv'
  BY <1>1, UpgradeInv, QueueLineInv, PeerLeavesInv
<1>2. ASSUME NEW l \in Lines, ReadMessage(l) \/ ReadText(l) \/ ReaderStep(l) PROVE Inv'
  BY <1>2, ReaderInv, CloseStoreInv, CloseConnInv, TakesCloseInv DEF ReaderStep
<1>3. ASSUME NEW l \in Lines, WriterStep(l) PROVE Inv'
  BY <1>3, WriterInv, CloseStoreInv, CloseConnInv, TakesCloseInv DEF WriterStep
<1>4. ASSUME NEW s \in Senders, Load(s) \/ SenderStep(s) PROVE Inv'
  BY <1>4, SenderInv DEF SenderStep
<1>5. CASE RegisterLoop
  BY <1>5, RegisterTakeInv, RegisterAddInv DEF RegisterLoop
<1>6. CASE UnregisterLoop
  BY <1>6, UnregisterTakeInv, UnregisterRemoveInv, UnregisterCloseInv, UnregisterDeleteInv
     DEF UnregisterLoop
<1>7. CASE LiveCheckLoop
  BY <1>7, LiveCheckCollectInv, LiveCheckDeleteInv DEF LiveCheckLoop
<1>8. CASE UNCHANGED vars
  <2>1. UNCHANGED <<phase, reader, writer, isClosed, chans, queues, mapVars, registering,
                    unregistering, delArr, snd, history>>
    BY <1>8 DEF vars, lineVars, chanVars, loopVars
  <2>2. Typed'
    BY <2>1 DEF Inv, Typed, queues, mapVars
  <2>3. \A l \in Lines : (isClosed'[l] <=> Leaving(l)') /\ Unborn(l)'
    BY <2>1 DEF Inv, Unborn, Leaving, Queued, Unregistering, queues, history
  <2>4. \A s \in Senders : Reads(s)'
    BY <2>1 DEF Inv, Reads, In, mapVars
  <2> QED
    BY <2>1, <2>2, <2>3, <2>4, Frame
<1> QED
  BY <1>1, <1>2, <1>3, <1>4, <1>5, <1>6, <1>7, <1>8 DEF Next

(* Whatever lines, users and senders there are: no push and no close        *)
(* command is about to send on a channel that closeLineChans has closed,    *)
(* since a line is in no object from its removal on ("先删后关").             *)
THEOREM PushesFindOpenChannels == Spec => []NoSendOnClosed
<1>1. ASSUME Inv, NEW s \in Senders, snd[s].pc = "sending", UserOf[snd[s].line] \notin disturbed
      PROVE  chans[snd[s].line] # "closed"
  <2>1. PICK l, o : l = snd[s].line /\ o = snd[s].obj
    OBVIOUS
  <2>2. In(l, o) /\ l \in Lines
    BY <1>1, <2>1, HeapTyped DEF Inv, Reads, In, ObjectSet
  <2>3. Calm(l)
    BY <1>1, <2>1, <2>2 DEF Inv
  <2> QED
    BY <2>1, <2>2, <2>3 DEF Calm, Removed
<1>2. Inv => NoSendOnClosed
  BY <1>1 DEF NoSendOnClosed
<1> QED
  BY InitInv, NextInv, <1>2, PTL DEF Spec

(* For any number of lines and users: the map leads to every live line of a *)
(* user whose lines come and go one by one, keeps nothing of those that are *)
(* gone, and LiveCount counts the live lines when the loops rest.           *)
THEOREM HubMapIsExact == Spec => []MapIsExact
<1>1. ASSUME Inv, NEW l \in Lines, Live(l), UserOf[l] \notin disturbed
      PROVE  In(l, connections[UserOf[l]])
  <2>1. Calm(l) /\ l \in added /\ l \notin left /\ ~Removed(l)
    BY <1>1 DEF Inv, Live, Leaving, Removed
  <2> QED
    BY <2>1 DEF Calm
<1>2. Inv => LiveLinesReachable
  BY <1>1, HeapTyped DEF LiveLinesReachable, LinesOf, In
<1>3. ASSUME Inv, Quiet, NEW l \in Lines, NEW o, In(l, o), UserOf[l] \notin disturbed
      PROVE  ~isClosed[l]
  <2>1. Calm(l) /\ (isClosed[l] <=> Leaving(l))
    BY <1>3 DEF Inv
  <2>2. ~Queued(l) /\ ~Unregistering(l) /\ reader[l] # "closing" /\ writer[l] # "closing"
    BY <1>3 DEF Quiet, Queued, Unregistering
  <2> QED
    BY <1>3, <2>1, <2>2 DEF Calm, Leaving
<1>4. ASSUME Inv, Quiet, NEW u \in Users \ disturbed
      PROVE  /\ \A l \in LinesOf(connections[u]) : ~isClosed[l]
             /\ connections[u] # 0 => LinesOf(connections[u]) # {}
  <2>1. PICK o : o = connections[u]
    OBVIOUS
  <2>2. CASE o = 0
    BY <2>1, <2>2 DEF LinesOf
  <2>3. CASE o # 0
    <3>1. /\ o \in 1 .. Len(heap) /\ LinesOf(o) = heap[o].lines /\ heap[o].user = u
          /\ heap[o] \in ObjectSet /\ \A l \in heap[o].lines : UserOf[l] = u
      BY <1>4, <2>1, <2>3, HeapTyped DEF LinesOf, Owned
    <3>2. \A l \in heap[o].lines : l \in Lines /\ In(l, o)
      BY <3>1 DEF ObjectSet, In
    <3>3. \A l \in heap[o].lines : ~isClosed[l]
      BY <1>3, <1>4, <3>1, <3>2
    <3>4. Busy(o)
      BY <1>4, <2>1, <2>3 DEF Inv
    <3>5. heap[o].lines # {}
      BY <1>4, <3>4 DEF Busy, Quiet
    <3> QED
      BY <2>1, <3>1, <3>3, <3>5
  <2> QED
    BY <2>2, <2>3
<1>5. Inv => NothingLeftBehind
  BY <1>4 DEF NothingLeftBehind
<1>6. ASSUME Inv, Quiet, disturbed = {}
      PROVE  connCount = Cardinality({l \in Lines : Live(l)})
  <2>1. ASSUME NEW l \in Lines PROVE Live(l) <=> \E o \in 1 .. Len(heap) : l \in heap[o].lines
    <3>1. Live(l) => In(l, connections[UserOf[l]])
      BY <1>1, <1>6
    <3>2. ASSUME NEW o \in 1 .. Len(heap), l \in heap[o].lines PROVE Live(l)
      <4>1. In(l, o)
        BY <3>2 DEF In
      <4>2. ~isClosed[l] /\ l \in added
        BY <1>3, <1>6, <4>1 DEF Inv, Once
      <4> QED
        BY <4>2 DEF Live
    <3> QED
      BY <3>1, <3>2 DEF In
  <2>2. {l \in Lines : Live(l)} = Held
    BY <2>1 DEF Held
  <2> QED
    BY <1>6, <2>2 DEF Inv
<1>7. Inv => ConnCountExact
  BY <1>6 DEF ConnCountExact
<1> QED
  BY InitInv, NextInv, <1>2, <1>5, <1>7, PTL DEF Spec, MapIsExact
=============================================================================
