----------------------------- MODULE SseHubProofs -----------------------------
(***************************************************************************)
(* No push and no close command of pkg/sse is about to send on a closed    *)
(* channel, even while Hub.Close runs, for any number of lines, users and  *)
(* senders, as long as the lines of the user came and left one by one.     *)
(***************************************************************************)
EXTENDS SseHub, FiniteSetTheorems, TLAPS

Places == {"idle", "dead", "tell", "add", "remove", "close", "delete", "rlock", "iterate", "send"}

(* Where the goroutine of a line is: before its line is in the queue of the *)
(* hub, and after the line was closed.                                      *)
LineSet == {"new", "start", "register", "loop", "select", "error", "report", "notify",
            "unregister", "ended"}
Before == {"new", "start", "register"}
After == {"error", "report", "notify", "unregister", "ended"}

USE DEF LineSet, Before, After

ObjectSet == [lines : SUBSET Lines, count : Int, user : Users]
OpSet == [at : Places, o : Nat, l : Nat, todo : SUBSET Lines, kind : {"none", "push", "close"},
          ids : SUBSET {IdOf[l] : l \in Lines}]
ClosingSet == [at : {"open", "range", "clear", "lines", "done"}, todo : SUBSET Nat,
               held : SUBSET Nat]

Typed ==
    /\ line \in [Lines -> LineSet]
    /\ chans \in [Lines -> {"nil", "open", "closed"}]
    /\ registeredChanInternal \in Seq(Lines) /\ unregisteredChanInternal \in Seq(Lines)
    /\ heap \in Seq(ObjectSet)
    /\ connections \in [Users -> 0 .. Len(heap)]
    /\ reg \in OpSet /\ unreg \in OpSet /\ op \in [Actors -> OpSet]
    /\ closing \in ClosingSet /\ closing.todo \subseteq 1 .. Len(heap)
    /\ reg.at = "add" => reg.l \in Lines /\ reg.o \in 1 .. Len(heap)
    /\ unreg.at \in {"remove", "close", "delete"} =>
          unreg.l \in Lines /\ unreg.o \in 1 .. Len(heap)
    /\ \A a \in Actors : op[a].at # "idle" => op[a].o \in 1 .. Len(heap)

(* Line l waits in registeredChanInternal, or is with the loop behind it.   *)
Waits(l) == \E i \in 1 .. Len(registeredChanInternal) : registeredChanInternal[i] = l
Registering(l) == reg.at = "add" /\ reg.l = l

(* Line l has ended and is on its way through the other loop.               *)
Leaving(l) ==
    \/ \E i \in 1 .. Len(unregisteredChanInternal) : unregisteredChanInternal[i] = l
    \/ unreg.at \in {"remove", "close", "delete"} /\ unreg.l = l

In(l, o) == o \in 1 .. Len(heap) /\ l \in heap[o].lines

(* A line is registered once.                                               *)
Once(l) ==
    /\ line[l] \in Before => ~Waits(l) /\ ~Registering(l) /\ l \notin added
    /\ Waits(l) => ~Registering(l) /\ l \notin added
    /\ Registering(l) => l \notin added
    /\ \A o : In(l, o) => l \in added
    /\ \A o, n : In(l, o) /\ In(l, n) => o = n

WaitOnce ==
    \A i, j \in 1 .. Len(registeredChanInternal) :
        registeredChanInternal[i] = registeredChanInternal[j] => i = j

(* What holds of a line whose user is not hasty: it is in the object that   *)
(* the map has, and in none once the loop is about to close its channels.   *)
Calm(l) ==
    /\ Leaving(l) \/ l \in left => l \in added
    /\ l \in left => \A o : ~In(l, o)
    /\ \A o : In(l, o) => connections[UserOf[l]] \in {0, o}
    /\ Registering(l) => connections[UserOf[l]] \in {0, reg.o}
    /\ unreg.at = "remove" /\ unreg.l = l => \A o : In(l, o) => o = unreg.o
    /\ unreg.at \in {"close", "delete"} /\ unreg.l = l => \A o : ~In(l, o)
    /\ \A k \in Lines \ {l} :
          UserOf[k] = UserOf[l] /\ line[k] # "new" /\ line[l] # "new" =>
              k \in left \/ l \in left

(* Who holds the read lock of an object works on lines that are in it.      *)
Reads(a) ==
    /\ op[a].at \in {"iterate", "send"} => \A l \in op[a].todo : In(l, op[a].o)
    /\ op[a].at = "send" =>
          /\ In(op[a].l, op[a].o)
          /\ UserOf[op[a].l] \notin hasty => chans[op[a].l] # "closed"

Inv ==
    /\ Typed /\ WaitOnce
    /\ \A l \in Lines : Once(l) /\ (UserOf[l] \notin hasty => Calm(l))
    /\ \A a \in Actors : Reads(a)

LEMMA IdleTyped ==
    /\ Idle \in OpSet /\ Idle.at = "idle" /\ Idle.todo = {} /\ Idle.o = 0 /\ Idle.l = 0
    /\ Idle.ids = {}
BY DEF Idle, OpSet, Places

LEMMA ToldTyped ==
    /\ [Idle EXCEPT !.at = "tell"] \in OpSet /\ [Idle EXCEPT !.at = "tell"].at = "tell"
    /\ [Idle EXCEPT !.at = "dead"] \in OpSet /\ [Idle EXCEPT !.at = "dead"].at = "dead"
BY DEF Idle, OpSet, Places

LEMMA InitInv == Init => Inv
<1> SUFFICES ASSUME Init PROVE Inv
  OBVIOUS
<1>1. /\ heap = <<>> /\ Len(heap) = 0 /\ Len(registeredChanInternal) = 0
      /\ Len(unregisteredChanInternal) = 0 /\ reg = Idle /\ unreg = Idle
      /\ op = [a \in Actors |-> Idle] /\ added = {} /\ left = {}
      /\ line = [l \in Lines |-> "new"] /\ chans = [l \in Lines |-> "nil"]
      /\ connections = [u \in Users |-> 0]
  BY DEF Init
<1>2. closing \in ClosingSet /\ closing.todo = {}
  BY DEF Init, ClosingSet
<1>3. \A a \in Actors : op[a].at = "idle"
  BY <1>1, IdleTyped
<1>4. registeredChanInternal \in Seq(Lines) /\ unregisteredChanInternal \in Seq(Lines)
      /\ heap \in Seq(ObjectSet)
  BY DEF Init
<1>5. Typed
  BY <1>1, <1>2, <1>3, <1>4, IdleTyped DEF Typed
<1>6. ASSUME NEW l \in Lines PROVE Once(l) /\ Calm(l)
  <2>1. ~Waits(l) /\ ~Registering(l) /\ ~Leaving(l) /\ \A o : ~In(l, o)
    BY <1>1, IdleTyped DEF Waits, Registering, Leaving, In
  <2>2. unreg.at = "idle"
    BY <1>1, IdleTyped
  <2> QED
    BY <1>1, <2>1, <2>2 DEF Once, Calm
<1>7. \A a \in Actors : Reads(a)
  BY <1>3 DEF Reads
<1>8. WaitOnce
  BY <1>1 DEF WaitOnce
<1> QED
  BY <1>5, <1>6, <1>7, <1>8 DEF Inv

-----------------------------------------------------------------------------
(* What a step leaves alone.                                                *)

LEMMA SameOnce ==
    ASSUME Inv, NEW l \in Lines, Waits(l)' => Waits(l), Registering(l)' => Registering(l),
           \A o : In(l, o)' => In(l, o), added' = added,
           line'[l] \in Before => line[l] \in Before
    PROVE  Once(l)'
<1>1. Once(l)
  BY DEF Inv
<1> QED
  BY <1>1 DEF Once

LEMMA SameCalm ==
    ASSUME Inv, NEW l \in Lines, UserOf[l] \notin hasty', hasty \subseteq hasty',
           Leaving(l)' => Leaving(l), left' = left, added \subseteq added',
           \A o : In(l, o)' => In(l, o),
           connections'[UserOf[l]] \in {0, connections[UserOf[l]]},
           Registering(l)' => Registering(l) /\ reg' = reg,
           unreg' = unreg \/ unreg'.at \in {"idle", "dead", "tell"},
           \A k \in Lines : line'[k] # "new" => line[k] # "new"
    PROVE  Calm(l)'
<1>1. Calm(l)
  BY DEF Inv
<1>2. (Leaving(l) \/ l \in left => l \in added)'
  BY <1>1 DEF Calm
<1>3. (l \in left => \A o : ~In(l, o))'
  BY <1>1 DEF Calm
<1>4. (\A o : In(l, o) => connections[UserOf[l]] \in {0, o})'
  BY <1>1 DEF Calm
<1>5. (Registering(l) => connections[UserOf[l]] \in {0, reg.o})'
  BY <1>1 DEF Calm
<1>6. (unreg.at = "remove" /\ unreg.l = l => \A o : In(l, o) => o = unreg.o)'
  BY <1>1 DEF Calm
<1>7. (unreg.at \in {"close", "delete"} /\ unreg.l = l => \A o : ~In(l, o))'
  BY <1>1 DEF Calm
<1>8. (\A k \in Lines \ {l} :
          UserOf[k] = UserOf[l] /\ line[k] # "new" /\ line[l] # "new" =>
              k \in left \/ l \in left)'
  BY <1>1 DEF Calm
<1> QED
  BY <1>2, <1>3, <1>4, <1>5, <1>6, <1>7, <1>8 DEF Calm

LEMMA SameReads ==
    ASSUME Inv, NEW a \in Actors, op'[a] = op[a], hasty \subseteq hasty',
           \A l, o : In(l, o) /\ Read(o) => In(l, o)',
           op[a].at = "send" /\ chans'[op[a].l] = "closed" /\ UserOf[op[a].l] \notin hasty' =>
               chans[op[a].l] = "closed"
    PROVE  Reads(a)'
<1>1. Reads(a)
  BY DEF Inv
<1>2. op[a].at \in {"iterate", "send"} => Read(op[a].o)
  BY DEF Read
<1>3. (op[a].at \in {"iterate", "send"} => \A l \in op[a].todo : In(l, op[a].o))'
  <2> SUFFICES ASSUME op[a].at \in {"iterate", "send"}, NEW l \in op[a].todo
               PROVE  In(l, op[a].o)'
    OBVIOUS
  <2>1. PICK o : o = op[a].o
    OBVIOUS
  <2> QED
    BY <1>1, <1>2, <2>1 DEF Reads, In
<1>4. (op[a].at = "send" =>
          /\ In(op[a].l, op[a].o)
          /\ UserOf[op[a].l] \notin hasty => chans[op[a].l] # "closed")'
  <2>1. PICK o, l : o = op[a].o /\ l = op[a].l
    OBVIOUS
  <2> QED
    BY <1>1, <1>2, <2>1 DEF Reads, In
<1> QED
  BY <1>3, <1>4 DEF Reads

(* A step that changes no object and no channel, and no operation.          *)
LEMMA LineStep ==
    ASSUME Inv, Typed', UNCHANGED <<chans, connections, heap, reg, unreg, op, added, left>>,
           WaitOnce', hasty \subseteq hasty',
           \A l \in Lines : Waits(l)' => Waits(l),
           \A l \in Lines : UserOf[l] \notin hasty' => (Leaving(l)' => Leaving(l)),
           \A l \in Lines : line'[l] \in Before => line[l] \in Before,
           \A l \in Lines : line'[l] # "new" => line[l] # "new"
    PROVE  Inv'
<1>1. \A l, o : In(l, o)' <=> In(l, o)
  BY DEF In
<1>2. \A l : Registering(l)' <=> Registering(l)
  BY DEF Registering
<1>3. \A l \in Lines : Once(l)'
  BY <1>1, <1>2, SameOnce
<1>4. ASSUME NEW l \in Lines, UserOf[l] \notin hasty' PROVE Calm(l)'
  BY <1>1, <1>2, <1>4, SameCalm
<1>5. \A a \in Actors : Reads(a)'
  BY <1>1, SameReads
<1> QED
  BY <1>3, <1>4, <1>5 DEF Inv

(* The goroutine of a line.                                                 *)
LEMMA LoopInv ==
    ASSUME Inv, NEW l \in Lines,
           \/ Start(l) \/ Loop(l) \/ TakeMessage(l) \/ TakeTick(l) \/ TakeDone(l)
           \/ closeTest(l) \/ closeReport(l) \/ notifyClose(l)
    PROVE  Inv'
<1>1. /\ UNCHANGED <<chans, registeredChanInternal, unregisteredChanInternal, mapVars, reg,
                     unreg, op, history>>
      /\ closing' = closing /\ line[l] # "new"
      /\ \E at \in LineSet \ {"new"} : Goes(l, at) /\ (at \in Before => line[l] \in Before)
  BY DEF Start, Loop, Leaves, TakeMessage, TakeTick, TakeDone, closeTest, closeReport,
         notifyClose, chanVars, queues
<1>2. PICK at \in LineSet \ {"new"} :
         line' = [line EXCEPT ![l] = at] /\ (at \in Before => line[l] \in Before)
  BY <1>1 DEF Goes
<1>3. /\ line' \in [Lines -> LineSet]
      /\ \A k \in Lines : line'[k] = line[k] \/ (k = l /\ line'[k] = at)
  BY <1>2 DEF Inv, Typed
<1>4. Typed'
  BY <1>1, <1>3 DEF Inv, Typed, mapVars
<1>5. /\ WaitOnce' /\ \A k \in Lines : Waits(k)' => Waits(k)
      /\ \A k \in Lines : Leaving(k)' => Leaving(k)
  BY <1>1 DEF Inv, WaitOnce, Waits, Leaving
<1>6. /\ \A k \in Lines : line'[k] \in Before => line[k] \in Before
      /\ \A k \in Lines : line'[k] # "new" => line[k] # "new"
  BY <1>1, <1>2, <1>3
<1> QED
  BY <1>1, <1>4, <1>5, <1>6, LineStep DEF mapVars, history

LEMMA Appended ==
    ASSUME NEW q \in Seq(Lines), NEW l \in Lines, NEW r, r = Append(q, l)
    PROVE  /\ r \in Seq(Lines) /\ Len(r) = Len(q) + 1 /\ r[Len(r)] = l
           /\ \A i \in 1 .. Len(q) : r[i] = q[i]
           /\ \A i \in 1 .. Len(r) : i \in 1 .. Len(q) \/ i = Len(r)
OBVIOUS

LEMMA Taken ==
    ASSUME NEW q \in Seq(Lines), q # <<>>, NEW r, r = Tail(q)
    PROVE  /\ Head(q) = q[1] /\ q[1] \in Lines /\ r \in Seq(Lines)
           /\ Len(q) \in Nat /\ Len(q) # 0 /\ Len(r) = Len(q) - 1
           /\ \A i \in 1 .. Len(r) : r[i] = q[i + 1]
OBVIOUS

(* Line.start: the line waits, for the first time.                          *)
LEMMA RegisterInv == ASSUME Inv, NEW l \in Lines, Register(l) PROVE Inv'
<1>1. /\ UNCHANGED <<chanVars, unregisteredChanInternal, mapVars, reg, unreg, closing, op,
                     history>>
      /\ line[l] = "register"
  BY DEF Register
<1>2. PICK at \in {"loop", "ended"} :
         /\ line' = [line EXCEPT ![l] = at]
         /\ \/ registeredChanInternal' = registeredChanInternal
            \/ at = "loop" /\ registeredChanInternal' = Append(registeredChanInternal, l)
  BY DEF Register, Goes
<1>3. /\ line' \in [Lines -> LineSet]
      /\ \A k \in Lines : line'[k] = line[k] \/ (k = l /\ line'[k] = at)
      /\ line'[l] = at
  BY <1>2 DEF Inv, Typed
<1>4. ~Waits(l) /\ ~Registering(l) /\ l \notin added
  BY <1>1 DEF Inv, Once
<1>5. registeredChanInternal \in Seq(Lines)
  BY DEF Inv, Typed
<1>6. /\ registeredChanInternal' \in Seq(Lines) /\ WaitOnce'
      /\ \A k \in Lines : Waits(k)' => Waits(k) \/ k = l
  <2>1. CASE registeredChanInternal' = registeredChanInternal
    BY <1>5, <2>1 DEF Inv, WaitOnce, Waits
  <2>2. CASE registeredChanInternal' = Append(registeredChanInternal, l)
    <3>1. /\ registeredChanInternal' \in Seq(Lines)
          /\ Len(registeredChanInternal') = Len(registeredChanInternal) + 1
          /\ registeredChanInternal'[Len(registeredChanInternal')] = l
          /\ \A i \in 1 .. Len(registeredChanInternal) :
                registeredChanInternal'[i] = registeredChanInternal[i]
          /\ \A i \in 1 .. Len(registeredChanInternal') :
                i \in 1 .. Len(registeredChanInternal) \/ i = Len(registeredChanInternal')
      BY <1>5, <2>2, Appended
    <3>2. \A i \in 1 .. Len(registeredChanInternal) : registeredChanInternal[i] # l
      BY <1>4 DEF Waits
    <3>3. WaitOnce'
      <4> SUFFICES ASSUME NEW i \in 1 .. Len(registeredChanInternal'),
                          NEW j \in 1 .. Len(registeredChanInternal'),
                          registeredChanInternal'[i] = registeredChanInternal'[j]
                   PROVE  i = j
        BY DEF WaitOnce
      <4>1. WaitOnce
        BY DEF Inv
      <4> QED
        BY <3>1, <3>2, <4>1 DEF WaitOnce
    <3> QED
      BY <3>1, <3>3 DEF Waits
  <2> QED
    BY <1>2, <2>1, <2>2
<1>7. Typed'
  BY <1>1, <1>3, <1>6 DEF Inv, Typed, chanVars, mapVars
<1>8. \A k, o : In(k, o)' <=> In(k, o)
  BY <1>1 DEF In, mapVars
<1>9. \A k : (Registering(k)' <=> Registering(k)) /\ (Leaving(k)' <=> Leaving(k))
  BY <1>1 DEF Registering, Leaving
<1>10. ASSUME NEW k \in Lines PROVE Once(k)'
  <2>1. CASE k = l
    <3>1. \A o : ~In(l, o)
      BY <1>4 DEF Inv, Once
    <3> QED
      BY <1>1, <1>2, <1>3, <1>4, <1>8, <1>9, <2>1, <3>1 DEF Once, history
  <2>2. CASE k # l
    BY <1>1, <1>3, <1>6, <1>8, <1>9, <2>2, SameOnce DEF history
  <2> QED
    BY <2>1, <2>2
<1>11. ASSUME NEW k \in Lines, UserOf[k] \notin hasty' PROVE Calm(k)'
  BY <1>1, <1>3, <1>8, <1>9, <1>11, SameCalm DEF mapVars, history
<1>12. \A a \in Actors : Reads(a)'
  BY <1>1, <1>8, SameReads DEF chanVars, history
<1> QED
  BY <1>6, <1>7, <1>10, <1>11, <1>12 DEF Inv

(* Unregister: a line that leaves was registered, or its user is hasty.    *)
LEMMA UnregisterInv == ASSUME Inv, NEW l \in Lines, Unregister(l) PROVE Inv'
<1>1. /\ UNCHANGED <<chanVars, registeredChanInternal, mapVars, reg, unreg, closing, op,
                     added, left>>
      /\ line[l] = "unregister" /\ line' = [line EXCEPT ![l] = "ended"] /\ hasty \subseteq hasty'
  BY DEF Unregister, Goes
<1>2. /\ line' \in [Lines -> LineSet]
      /\ \A k \in Lines : line'[k] = line[k] \/ (k = l /\ line'[k] = "ended")
  BY <1>1 DEF Inv, Typed
<1>3. unregisteredChanInternal \in Seq(Lines)
  BY DEF Inv, Typed
<1>4. /\ unregisteredChanInternal' \in Seq(Lines)
      /\ \A k \in Lines : UserOf[k] \notin hasty' /\ Leaving(k)' => Leaving(k) \/ k \in added
  <2>1. CASE UNCHANGED unregisteredChanInternal
    BY <1>1, <1>3, <2>1 DEF Leaving
  <2>2. CASE /\ unregisteredChanInternal' = Append(unregisteredChanInternal, l)
             /\ hasty' = IF l \in added THEN hasty ELSE hasty \union {UserOf[l]}
    <3>1. /\ unregisteredChanInternal' \in Seq(Lines)
          /\ unregisteredChanInternal'[Len(unregisteredChanInternal')] = l
          /\ \A i \in 1 .. Len(unregisteredChanInternal) :
                unregisteredChanInternal'[i] = unregisteredChanInternal[i]
          /\ \A i \in 1 .. Len(unregisteredChanInternal') :
                \/ i \in 1 .. Len(unregisteredChanInternal)
                \/ i = Len(unregisteredChanInternal')
      BY <1>3, <2>2, Appended
    <3>2. ASSUME NEW k \in Lines, UserOf[k] \notin hasty', Leaving(k)', ~Leaving(k)
          PROVE  k \in added
      <4>1. PICK i \in 1 .. Len(unregisteredChanInternal') : unregisteredChanInternal'[i] = k
        BY <1>1, <3>2 DEF Leaving
      <4>2. i \notin 1 .. Len(unregisteredChanInternal)
        BY <3>1, <3>2, <4>1 DEF Leaving
      <4>3. k = l
        BY <3>1, <4>1, <4>2
      <4> QED
        BY <2>2, <3>2, <4>3
    <3> QED
      BY <3>1, <3>2
  <2> QED
    BY <2>1, <2>2 DEF Unregister
<1>5. Typed'
  BY <1>1, <1>2, <1>4 DEF Inv, Typed, chanVars, mapVars
<1>6. \A k, o : In(k, o)' <=> In(k, o)
  BY <1>1 DEF In, mapVars
<1>7. WaitOnce' /\ \A k : (Registering(k)' <=> Registering(k)) /\ (Waits(k)' <=> Waits(k))
  BY <1>1 DEF Inv, WaitOnce, Registering, Waits
<1>8. \A k \in Lines : Once(k)'
  BY <1>1, <1>2, <1>6, <1>7, SameOnce
<1>9. ASSUME NEW k \in Lines, UserOf[k] \notin hasty' PROVE Calm(k)'
  <2>1. Calm(k)
    BY <1>1, <1>9 DEF Inv
  <2>2. (Leaving(k) \/ k \in left => k \in added)'
    BY <1>1, <1>4, <1>9, <2>1 DEF Calm
  <2>3. (unreg.at = "remove" /\ unreg.l = k => \A o : In(k, o) => o = unreg.o)'
    BY <1>1, <1>6, <2>1 DEF Calm
  <2>4. (unreg.at \in {"close", "delete"} /\ unreg.l = k => \A o : ~In(k, o))'
    BY <1>1, <1>6, <2>1 DEF Calm
  <2>5. (Registering(k) => connections[UserOf[k]] \in {0, reg.o})'
    BY <1>1, <1>7, <2>1 DEF Calm, mapVars
  <2>6. (\A o : In(k, o) => connections[UserOf[k]] \in {0, o})'
    BY <1>1, <1>6, <2>1 DEF Calm, mapVars
  <2>7. (k \in left => \A o : ~In(k, o))'
    BY <1>1, <1>6, <2>1 DEF Calm
  <2>8. (\A j \in Lines \ {k} :
            UserOf[j] = UserOf[k] /\ line[j] # "new" /\ line[k] # "new" =>
                j \in left \/ k \in left)'
    BY <1>1, <1>2, <2>1 DEF Calm
  <2> QED
    BY <2>2, <2>3, <2>4, <2>5, <2>6, <2>7, <2>8 DEF Calm
<1>10. \A a \in Actors : Reads(a)'
  BY <1>1, <1>6, SameReads DEF chanVars
<1> QED
  BY <1>5, <1>7, <1>8, <1>9, <1>10 DEF Inv

(* A step of operations only.                                               *)
LEMMA OpStep ==
    ASSUME Inv, op' \in [Actors -> OpSet], NEW a \in Actors,
           \A b \in Actors \ {a} : op'[b] = op[b],
           op'[a].at # "idle" => op'[a].o \in 1 .. Len(heap),
           Reads(a)', UNCHANGED <<line, chans, queues, connections, heap, reg, unreg, history>>,
           closing' \in ClosingSet, closing'.todo \subseteq 1 .. Len(heap)
    PROVE  Inv'
<1>1. \A l, o : In(l, o)' <=> In(l, o)
  BY DEF In
<1>2. Typed'
  BY DEF Inv, Typed, queues
<1>3. /\ WaitOnce' /\ \A l : (Registering(l)' <=> Registering(l)) /\ (Waits(l)' <=> Waits(l))
      /\ \A l : Leaving(l)' <=> Leaving(l)
  BY DEF Inv, WaitOnce, Registering, Waits, Leaving, queues
<1>4. \A l \in Lines : Once(l)'
  BY <1>1, <1>3, SameOnce DEF history
<1>5. ASSUME NEW l \in Lines, UserOf[l] \notin hasty' PROVE Calm(l)'
  BY <1>1, <1>3, <1>5, SameCalm DEF history
<1>6. ASSUME NEW b \in Actors PROVE Reads(b)'
  <2>1. CASE b = a
    BY <2>1
  <2>2. CASE b # a
    BY <1>1, <2>2, SameReads DEF history
  <2> QED
    BY <2>1, <2>2
<1> QED
  BY <1>2, <1>3, <1>4, <1>5, <1>6 DEF Inv

LEMMA OpTyped ==
    ASSUME Inv, NEW a \in Actors
    PROVE  /\ op \in [Actors -> OpSet] /\ op[a] \in OpSet
           /\ closing \in ClosingSet /\ closing.todo \subseteq 1 .. Len(heap)
           /\ heap \in Seq(ObjectSet) /\ Reads(a)
           /\ op[a].at # "idle" => op[a].o \in 1 .. Len(heap)
BY DEF Inv, Typed

(* An operation begins.                                                     *)
LEMMA BeginInv == ASSUME Inv, NEW s \in Senders, Begin(s) PROVE Inv'
<1>0. s \in Actors
  BY DEF Actors
<1>1. PICK u \in Users, kind \in {"push", "close"}, ids \in SUBSET {IdOf[l] : l \in Lines} :
         /\ connections[u] # 0
         /\ op' = [op EXCEPT ![s] = [Idle EXCEPT !.at = "rlock", !.o = connections[u],
                                                 !.kind = kind, !.ids = ids]]
  BY DEF Begin
<1>2. connections[u] \in 1 .. Len(heap)
  BY <1>1 DEF Inv, Typed
<1> DEFINE j == [Idle EXCEPT !.at = "rlock", !.o = connections[u], !.kind = kind, !.ids = ids]
<1>3. j \in OpSet /\ j.at = "rlock" /\ j.o = connections[u]
  <2>1. PICK o \in Nat : o = connections[u]
    BY <1>2
  <2>2. j = [Idle EXCEPT !.at = "rlock", !.o = o, !.kind = kind, !.ids = ids]
    BY <2>1
  <2>3. "rlock" \in Places /\ kind \in {"none", "push", "close"}
    BY DEF Places
  <2> QED
    BY <2>1, <2>2, <2>3, IdleTyped DEF OpSet
<1> HIDE DEF j
<1>4. /\ op' \in [Actors -> OpSet] /\ op'[s] = j
      /\ \A b \in Actors \ {s} : op'[b] = op[b]
  BY <1>0, <1>1, <1>3, OpTyped DEF j
<1>5. Reads(s)'
  BY <1>3, <1>4 DEF Reads
<1>6. UNCHANGED <<line, chans, queues, connections, heap, reg, unreg, closing, history>>
  BY DEF Begin, lineVars, chanVars, mapVars
<1> QED
  BY <1>0, <1>2, <1>3, <1>4, <1>5, <1>6, OpTyped, OpStep

(* The lines to serve are taken from the object under its lock.             *)
LEMMA RLockInv == ASSUME Inv, NEW a \in Actors, RLock(a) PROVE Inv'
<1> DEFINE todo == {l \in heap[op[a].o].lines : IdOf[l] \in op[a].ids}
           j == [op[a] EXCEPT !.at = "iterate", !.todo = todo]
<1>1. op[a] \in OpSet /\ op \in [Actors -> OpSet] /\ op[a].o \in 1 .. Len(heap)
  BY OpTyped DEF RLock
<1>2. todo \subseteq Lines /\ todo \subseteq heap[op[a].o].lines
  <2>1. heap[op[a].o] \in ObjectSet
    BY <1>1, OpTyped
  <2> QED
    BY <2>1 DEF ObjectSet
<1>3. op' = [op EXCEPT ![a] = j]
  BY <1>1 DEF RLock
<1> HIDE DEF todo
<1>4. j \in OpSet /\ j.at = "iterate" /\ j.todo = todo /\ j.o = op[a].o
  BY <1>1, <1>2 DEF OpSet, Places
<1> HIDE DEF j
<1>5. /\ op' \in [Actors -> OpSet] /\ op'[a] = j
      /\ \A b \in Actors \ {a} : op'[b] = op[b]
  BY <1>1, <1>3, <1>4
<1>6. UNCHANGED <<line, chans, queues, connections, heap, reg, unreg, closing, history>>
  BY DEF RLock, lineVars, chanVars, mapVars
<1>7. Reads(a)'
  BY <1>1, <1>2, <1>4, <1>5, <1>6 DEF Reads, In
<1> QED
  BY <1>1, <1>4, <1>5, <1>6, <1>7, OpTyped, OpStep

(* The next line, if its channel is open.                                   *)
LEMMA IterateInv == ASSUME Inv, NEW a \in Actors, Iterate(a) PROVE Inv'
<1>1. /\ op[a] \in OpSet /\ op \in [Actors -> OpSet] /\ op[a].o \in 1 .. Len(heap)
      /\ op[a].at = "iterate" /\ Reads(a)
  BY OpTyped DEF Iterate
<1>2. UNCHANGED <<line, chans, queues, connections, heap, reg, unreg, closing, history>>
  BY DEF Iterate, lineVars, chanVars, mapVars
<1>3. CASE op' = [op EXCEPT ![a] = Idle]
  <2>1. /\ op' \in [Actors -> OpSet] /\ op'[a] = Idle
        /\ \A b \in Actors \ {a} : op'[b] = op[b]
    BY <1>1, <1>3, IdleTyped
  <2>2. Reads(a)'
    BY <2>1, IdleTyped DEF Reads
  <2> QED
    BY <1>2, <2>1, <2>2, IdleTyped, OpTyped, OpStep
<1>4. ASSUME NEW l \in op[a].todo,
             op' = [op EXCEPT ![a].todo = @ \ {l}, ![a].l = l,
                              ![a].at = IF Skipped(a, l) THEN "iterate" ELSE "send"]
      PROVE  Inv'
  <2>1. PICK at \in {"iterate", "send"} :
           /\ at = "send" => chans[l] = "open"
           /\ op' = [op EXCEPT ![a].todo = @ \ {l}, ![a].l = l, ![a].at = at]
    BY <1>4 DEF Skipped
  <2>2. l \in Lines /\ l \in Nat /\ In(l, op[a].o)
    BY <1>1, SseHubAssumption DEF OpSet, Reads
  <2> DEFINE j == [op[a] EXCEPT !.todo = op[a].todo \ {l}, !.l = l, !.at = at]
  <2>3. op' = [op EXCEPT ![a] = j]
    BY <1>1, <2>1
  <2>4. /\ j \in OpSet /\ j.at = at /\ j.todo = op[a].todo \ {l} /\ j.o = op[a].o
        /\ j.l = l
    BY <1>1, <2>2 DEF OpSet, Places
  <2> HIDE DEF j
  <2>5. /\ op' \in [Actors -> OpSet] /\ op'[a] = j
        /\ \A b \in Actors \ {a} : op'[b] = op[b]
    BY <1>1, <2>3, <2>4
  <2>6. Reads(a)'
    BY <1>1, <1>2, <2>1, <2>2, <2>4, <2>5 DEF Reads, In
  <2> QED
    BY <1>1, <1>2, <2>4, <2>5, <2>6, OpTyped, OpStep
<1> QED
  BY <1>3, <1>4 DEF Iterate

(* A send is done, a push here, a close command in TakeClose.               *)
LEMMA SentFields ==
    ASSUME Inv, NEW a \in Actors, op[a].at = "send", op' = [op EXCEPT ![a].at = "iterate"]
    PROVE  /\ op' \in [Actors -> OpSet] /\ \A b \in Actors \ {a} : op'[b] = op[b]
           /\ op'[a].at = "iterate" /\ op'[a].o = op[a].o /\ op'[a].todo = op[a].todo
           /\ op[a].o \in 1 .. Len(heap)
<1> DEFINE j == [op[a] EXCEPT !.at = "iterate"]
<1>1. op[a] \in OpSet /\ op \in [Actors -> OpSet] /\ op[a].o \in 1 .. Len(heap)
  BY OpTyped
<1>2. op' = [op EXCEPT ![a] = j]
  BY <1>1
<1>3. j \in OpSet /\ j.at = "iterate" /\ j.todo = op[a].todo /\ j.o = op[a].o
  BY <1>1 DEF OpSet, Places
<1> HIDE DEF j
<1> QED
  BY <1>1, <1>2, <1>3

LEMMA PushMessageInv == ASSUME Inv, NEW a \in Actors, PushMessage(a) PROVE Inv'
<1>1. /\ op' \in [Actors -> OpSet] /\ \A b \in Actors \ {a} : op'[b] = op[b]
      /\ op'[a].at = "iterate" /\ op'[a].o = op[a].o /\ op'[a].todo = op[a].todo
      /\ op[a].o \in 1 .. Len(heap) /\ op[a].at = "send"
  BY SentFields DEF PushMessage
<1>2. UNCHANGED <<line, chans, queues, connections, heap, reg, unreg, closing, history>>
  BY DEF PushMessage, lineVars, mapVars
<1>3. Reads(a)'
  BY <1>1, <1>2, OpTyped DEF Reads, In
<1> QED
  BY <1>1, <1>2, <1>3, OpTyped, OpStep

LEMMA TakeCloseInv == ASSUME Inv, NEW l \in Lines, TakeClose(l) PROVE Inv'
<1>1. /\ UNCHANGED <<chans, queues, mapVars, reg, unreg, closing, history>>
      /\ line[l] = "select" /\ line' = [line EXCEPT ![l] = "notify"]
  BY DEF TakeClose, Leaves, Goes, chanVars
<1>2. /\ line' \in [Lines -> LineSet]
      /\ \A k \in Lines : line'[k] = line[k] \/ (k = l /\ line'[k] = "notify")
  BY <1>1 DEF Inv, Typed
<1>3. /\ op' \in [Actors -> OpSet]
      /\ \A b \in Actors : op'[b].at # "idle" => op'[b].o \in 1 .. Len(heap)
      /\ \A b \in Actors :
            \/ op'[b] = op[b]
            \/ /\ op[b].at = "send" /\ op'[b].at = "iterate" /\ op'[b].o = op[b].o
               /\ op'[b].todo = op[b].todo
  <2>1. CASE UNCHANGED op
    BY <2>1 DEF Inv, Typed
  <2>2. ASSUME NEW a \in Actors, op[a].at = "send", op' = [op EXCEPT ![a].at = "iterate"]
        PROVE  <1>3!1 /\ <1>3!2 /\ <1>3!3
    <3>1. /\ op' \in [Actors -> OpSet] /\ \A b \in Actors \ {a} : op'[b] = op[b]
          /\ op'[a].at = "iterate" /\ op'[a].o = op[a].o /\ op'[a].todo = op[a].todo
          /\ op[a].o \in 1 .. Len(heap)
      BY <2>2, SentFields
    <3> QED
      BY <2>2, <3>1, OpTyped
  <2> QED
    BY <2>1, <2>2 DEF TakeClose
<1>4. \A k, o : In(k, o)' <=> In(k, o)
  BY <1>1 DEF In, mapVars
<1>5. Typed'
  BY <1>1, <1>2, <1>3 DEF Inv, Typed, queues, mapVars
<1>6. /\ WaitOnce' /\ \A k : (Registering(k)' <=> Registering(k)) /\ (Waits(k)' <=> Waits(k))
      /\ \A k : Leaving(k)' <=> Leaving(k)
  BY <1>1 DEF Inv, WaitOnce, Registering, Waits, Leaving, queues
<1>7. \A k \in Lines : Once(k)'
  BY <1>1, <1>2, <1>4, <1>6, SameOnce DEF history
<1>8. ASSUME NEW k \in Lines, UserOf[k] \notin hasty' PROVE Calm(k)'
  BY <1>1, <1>2, <1>4, <1>6, <1>8, SameCalm DEF history, mapVars
<1>9. ASSUME NEW a \in Actors PROVE Reads(a)'
  <2>1. CASE op'[a] = op[a]
    BY <1>1, <1>4, <2>1, SameReads DEF history
  <2>2. CASE /\ op[a].at = "send" /\ op'[a].at = "iterate" /\ op'[a].o = op[a].o
             /\ op'[a].todo = op[a].todo
    BY <1>1, <2>2, OpTyped DEF Reads, In, mapVars
  <2> QED
    BY <1>3, <2>1, <2>2
<1> QED
  BY <1>5, <1>6, <1>7, <1>8, <1>9 DEF Inv

(* AIHub.Serve: a line begins; if the last one of its user has not left,    *)
(* the user becomes hasty.                                                  *)
LEMMA ServeInv == ASSUME Inv, NEW l \in Lines, Serve(l) PROVE Inv'
<1>0. l \in Actors
  BY DEF Actors
<1>1. /\ UNCHANGED <<chans, queues, mapVars, reg, unreg, closing, added, left>>
      /\ line[l] = "new" /\ line' = [line EXCEPT ![l] = "start"] /\ hasty \subseteq hasty'
  BY DEF Serve, chanVars
<1>2. /\ line' \in [Lines -> LineSet]
      /\ \A k \in Lines : line'[k] = line[k] \/ (k = l /\ line'[k] = "start")
  BY <1>1 DEF Inv, Typed
<1>3. /\ op' \in [Actors -> OpSet]
      /\ \A b \in Actors : op'[b].at # "idle" => op'[b].o \in 1 .. Len(heap)
      /\ \A b \in Actors : op'[b] = op[b] \/ op'[b].at = "rlock"
  <2>1. CASE UNCHANGED op
    BY <2>1 DEF Inv, Typed
  <2>2. CASE /\ connections[UserOf[l]] # 0
             /\ op' = [op EXCEPT ![l] = [Idle EXCEPT !.at = "rlock",
                                            !.o = connections[UserOf[l]], !.kind = "close",
                                            !.ids = {IdOf[l]}]]
    <3>1. UserOf[l] \in Users
      BY SseHubAssumption
    <3>2. connections[UserOf[l]] \in 0 .. Len(heap) /\ Len(heap) \in Nat
      BY <3>1 DEF Inv, Typed
    <3>3. PICK o \in 1 .. Len(heap) : o = connections[UserOf[l]]
      BY <2>2, <3>2
    <3>4. PICK ids \in SUBSET {IdOf[k] : k \in Lines} : ids = {IdOf[l]}
      OBVIOUS
    <3> DEFINE j == [Idle EXCEPT !.at = "rlock", !.o = o, !.kind = "close", !.ids = ids]
    <3>5. j \in OpSet /\ j.at = "rlock" /\ j.o = o
      <4>1. "rlock" \in Places /\ o \in Nat
        BY DEF Places
      <4> QED
        BY <4>1, IdleTyped DEF OpSet
    <3>6. op' = [op EXCEPT ![l] = j]
      BY <2>2, <3>3, <3>4
    <3> HIDE DEF j
    <3>7. /\ op' \in [Actors -> OpSet] /\ op'[l] = j
          /\ \A b \in Actors \ {l} : op'[b] = op[b]
      BY <1>0, <3>5, <3>6, OpTyped
    <3> QED
      BY <3>5, <3>7, OpTyped
  <2> QED
    BY <2>1, <2>2 DEF Serve
<1>4. \A k, o : In(k, o)' <=> In(k, o)
  BY <1>1 DEF In, mapVars
<1>5. Typed'
  BY <1>1, <1>2, <1>3 DEF Inv, Typed, queues, mapVars
<1>6. /\ WaitOnce' /\ \A k : (Registering(k)' <=> Registering(k)) /\ (Waits(k)' <=> Waits(k))
      /\ \A k : Leaving(k)' <=> Leaving(k)
  BY <1>1 DEF Inv, WaitOnce, Registering, Waits, Leaving, queues
<1>7. ASSUME NEW k \in Lines PROVE Once(k)'
  <2>1. line'[k] \in Before => line[k] \in Before
    BY <1>1, <1>2
  <2> QED
    BY <1>1, <1>4, <1>6, <2>1, SameOnce
<1>8. ASSUME NEW k \in Lines, UserOf[k] \notin hasty' PROVE Calm(k)'
  <2>1. Calm(k)
    BY <1>1, <1>8 DEF Inv
  <2>2. (\A j \in Lines \ {k} :
            UserOf[j] = UserOf[k] /\ line[j] # "new" /\ line[k] # "new" =>
                j \in left \/ k \in left)'
    <3> SUFFICES ASSUME NEW j \in Lines \ {k}, UserOf[j] = UserOf[k],
                        line'[j] # "new", line'[k] # "new"
                 PROVE  j \in left \/ k \in left
      BY <1>1
    <3>1. CASE j # l /\ k # l
      BY <1>1, <1>2, <2>1, <3>1 DEF Calm
    <3>2. CASE j = l \/ k = l
      BY <1>1, <1>2, <1>8, <3>2 DEF Serve
    <3> QED
      BY <3>1, <3>2
  <2>3. (Leaving(k) \/ k \in left => k \in added)' /\ (k \in left => \A o : ~In(k, o))'
    BY <1>1, <1>4, <1>6, <2>1 DEF Calm
  <2>4. /\ (\A o : In(k, o) => connections[UserOf[k]] \in {0, o})'
        /\ (Registering(k) => connections[UserOf[k]] \in {0, reg.o})'
    BY <1>1, <1>4, <1>6, <2>1 DEF Calm, mapVars
  <2>5. /\ (unreg.at = "remove" /\ unreg.l = k => \A o : In(k, o) => o = unreg.o)'
        /\ (unreg.at \in {"close", "delete"} /\ unreg.l = k => \A o : ~In(k, o))'
    BY <1>1, <1>4, <2>1 DEF Calm
  <2> QED
    BY <2>2, <2>3, <2>4, <2>5 DEF Calm
<1>9. ASSUME NEW a \in Actors PROVE Reads(a)'
  <2>1. CASE op'[a] = op[a]
    BY <1>1, <1>4, <2>1, SameReads
  <2>2. CASE op'[a].at = "rlock"
    BY <2>2 DEF Reads
  <2> QED
    BY <1>3, <2>1, <2>2
<1> QED
  BY <1>5, <1>6, <1>7, <1>8, <1>9 DEF Inv

-----------------------------------------------------------------------------
(* The registration loop.                                                   *)

(* The first line that waits: its object is found or made.                  *)
LEMMA RegisterTakeInv == ASSUME Inv, RegisterTake PROVE Inv'
<1>1. PICK l, u, o :
         /\ l = Head(registeredChanInternal) /\ u = UserOf[l]
         /\ o = IF connections[u] = 0 THEN Len(heap) + 1 ELSE connections[u]
         /\ registeredChanInternal # <<>>
         /\ registeredChanInternal' = Tail(registeredChanInternal)
         /\ chans' = [chans EXCEPT ![l] = "open"]
         /\ connections' = [connections EXCEPT ![u] = o]
         /\ heap' = IF o > Len(heap) THEN Append(heap, [lines |-> {}, count |-> 0, user |-> u])
                    ELSE heap
         /\ reg' = [Idle EXCEPT !.at = "add", !.o = o, !.l = l]
         /\ reg.at = "idle"
  BY DEF RegisterTake
<1>2. UNCHANGED <<line, unregisteredChanInternal, unreg, closing, op, history>>
  BY DEF RegisterTake, lineVars
<1>3. /\ registeredChanInternal \in Seq(Lines)
      /\ Len(registeredChanInternal) \in Nat /\ Len(registeredChanInternal) # 0
      /\ Len(registeredChanInternal') = Len(registeredChanInternal) - 1
      /\ registeredChanInternal' \in Seq(Lines)
      /\ l = registeredChanInternal[1] /\ l \in Lines /\ l \in Nat
      /\ \A i \in 1 .. Len(registeredChanInternal') :
            registeredChanInternal'[i] = registeredChanInternal[i + 1]
  <2>1. registeredChanInternal \in Seq(Lines)
    BY DEF Inv, Typed
  <2>2. PICK r : r = registeredChanInternal'
    OBVIOUS
  <2>3. r = Tail(registeredChanInternal)
    BY <1>1, <2>2
  <2>4. /\ Head(registeredChanInternal) = registeredChanInternal[1]
        /\ registeredChanInternal[1] \in Lines /\ r \in Seq(Lines)
        /\ Len(registeredChanInternal) \in Nat /\ Len(registeredChanInternal) # 0
        /\ Len(r) = Len(registeredChanInternal) - 1
        /\ \A i \in 1 .. Len(r) : r[i] = registeredChanInternal[i + 1]
    BY <1>1, <2>1, <2>3, Taken
  <2> QED
    BY <1>1, <2>1, <2>2, <2>4, SseHubAssumption
<1>4. /\ WaitOnce' /\ Waits(l) /\ ~Waits(l)' /\ \A k : Waits(k)' => Waits(k)
  <2>1. \A i, j \in 1 .. Len(registeredChanInternal) :
            registeredChanInternal[i] = registeredChanInternal[j] => i = j
    BY DEF Inv, WaitOnce
  <2>2. \A i \in 1 .. Len(registeredChanInternal') :
           /\ i + 1 \in 1 .. Len(registeredChanInternal) /\ i + 1 # 1
           /\ registeredChanInternal'[i] = registeredChanInternal[i + 1]
    BY <1>3
  <2>3. WaitOnce'
    <3> SUFFICES ASSUME NEW i \in 1 .. Len(registeredChanInternal'),
                        NEW j \in 1 .. Len(registeredChanInternal'),
                        registeredChanInternal'[i] = registeredChanInternal'[j]
                 PROVE  i = j
      BY DEF WaitOnce
    <3>1. registeredChanInternal[i + 1] = registeredChanInternal[j + 1]
      BY <2>2
    <3>2. i + 1 = j + 1
      BY <2>1, <2>2, <3>1
    <3> QED
      BY <1>3, <3>2
  <2>4. 1 \in 1 .. Len(registeredChanInternal)
    BY <1>3
  <2>5. Waits(l) /\ ~Waits(l)'
    BY <1>3, <2>1, <2>2, <2>4 DEF Waits
  <2>6. \A k : Waits(k)' => Waits(k)
    BY <2>2 DEF Waits
  <2> QED
    BY <2>3, <2>5, <2>6
<1>5. u \in Users /\ connections \in [Users -> 0 .. Len(heap)]
      /\ heap \in Seq(ObjectSet) /\ Len(heap) \in Nat
  <2>1. connections \in [Users -> 0 .. Len(heap)] /\ heap \in Seq(ObjectSet)
    BY DEF Inv, Typed
  <2>2. UserOf[l] \in Users
    BY <1>3, SseHubAssumption
  <2> QED
    BY <1>1, <2>1, <2>2
<1>6. connections[u] \in 0 .. Len(heap)
  BY <1>5
<1>7. /\ heap' \in Seq(ObjectSet) /\ Len(heap) <= Len(heap') /\ Len(heap') \in Nat
      /\ o \in 1 .. Len(heap') /\ \A p \in 1 .. Len(heap) : heap'[p] = heap[p]
      /\ \A p \in 1 .. Len(heap') : p \in 1 .. Len(heap) \/ heap'[p].lines = {}
  <2>1. CASE connections[u] = 0
    <3>1. [lines |-> {}, count |-> 0, user |-> u] \in ObjectSet
      BY <1>5 DEF ObjectSet
    <3>2. heap' = Append(heap, [lines |-> {}, count |-> 0, user |-> u]) /\ o = Len(heap) + 1
      BY <1>1, <1>5, <2>1
    <3> QED
      BY <1>5, <3>1, <3>2
  <2>2. CASE connections[u] # 0
    BY <1>1, <1>5, <1>6, <2>2
  <2> QED
    BY <2>1, <2>2
<1>8. \A k, p : In(k, p)' <=> In(k, p)
  BY <1>5, <1>7 DEF In
<1>9. /\ reg' \in OpSet /\ reg'.at = "add" /\ reg'.l = l /\ reg'.o = o
      /\ chans' \in [Lines -> {"nil", "open", "closed"}]
      /\ \A k \in Lines : chans'[k] = "closed" => chans[k] = "closed"
      /\ connections' \in [Users -> 0 .. Len(heap')]
      /\ connections'[u] = o /\ \A v \in Users \ {u} : connections'[v] = connections[v]
  <2>1. o \in Nat /\ "add" \in Places
    BY <1>7 DEF Places
  <2>2. reg' \in OpSet /\ reg'.at = "add" /\ reg'.l = l /\ reg'.o = o
    BY <1>1, <1>3, <2>1, IdleTyped DEF OpSet
  <2>3. chans \in [Lines -> {"nil", "open", "closed"}]
    BY DEF Inv, Typed
  <2>4. 0 .. Len(heap) \subseteq 0 .. Len(heap')
    BY <1>5, <1>7
  <2> QED
    BY <1>1, <1>3, <1>5, <1>7, <2>2, <2>3, <2>4
<1>10. Typed'
  <2>1. 1 .. Len(heap) \subseteq 1 .. Len(heap')
    BY <1>5, <1>7
  <2> QED
    BY <1>2, <1>3, <1>7, <1>9, <2>1 DEF Inv, Typed
<1>11. \A k : (Registering(k)' <=> k = l) /\ ~Registering(k) /\ (Leaving(k)' <=> Leaving(k))
  BY <1>1, <1>2, <1>9 DEF Registering, Leaving
<1>12. Once(l) /\ l \notin added /\ line[l] \notin Before
  BY <1>3, <1>4 DEF Inv, Once
<1>13. ASSUME NEW k \in Lines PROVE Once(k)'
  <2>1. CASE k = l
    BY <1>2, <1>4, <1>8, <1>12, <2>1 DEF Once, history
  <2>2. CASE k # l
    BY <1>2, <1>4, <1>8, <1>11, <2>2, SameOnce DEF history
  <2> QED
    BY <2>1, <2>2
<1>14. ASSUME NEW k \in Lines, UserOf[k] \notin hasty' PROVE Calm(k)'
  <2>1. Calm(k) /\ Once(k) /\ UserOf[k] \in Users
    BY <1>2, <1>14, SseHubAssumption DEF Inv, history
  <2>2. (\A p : In(k, p) => connections[UserOf[k]] \in {0, p})'
    <3> SUFFICES ASSUME NEW p, In(k, p) PROVE connections'[UserOf[k]] \in {0, p}
      BY <1>8
    <3>1. connections[UserOf[k]] \in {0, p} /\ k \in added
      BY <2>1 DEF Calm, Once
    <3>2. CASE UserOf[k] # u
      BY <1>9, <2>1, <3>1, <3>2
    <3>3. CASE UserOf[k] = u /\ connections[u] # 0
      BY <1>1, <1>9, <3>1, <3>3
    <3>4. CASE UserOf[k] = u /\ connections[u] = 0
      <4>1. k # l /\ line[k] # "new" /\ line[l] # "new"
        BY <1>12, <2>1, <3>1 DEF Once
      <4>2. k \in left \/ l \in left
        BY <1>1, <1>3, <2>1, <3>4, <4>1 DEF Calm
      <4>3. UserOf[l] \notin hasty
        BY <1>1, <1>2, <1>14, <3>4 DEF history
      <4>4. Calm(l)
        BY <1>3, <4>3 DEF Inv
      <4> QED
        BY <1>12, <2>1, <4>2, <4>4 DEF Calm
    <3> QED
      BY <3>2, <3>3, <3>4
  <2>3. (Registering(k) => connections[UserOf[k]] \in {0, reg.o})'
    BY <1>1, <1>9, <1>11
  <2>4. (Leaving(k) \/ k \in left => k \in added)' /\ (k \in left => \A p : ~In(k, p))'
    BY <1>2, <1>8, <1>11, <2>1 DEF Calm, history
  <2>5. /\ (unreg.at = "remove" /\ unreg.l = k => \A p : In(k, p) => p = unreg.o)'
        /\ (unreg.at \in {"close", "delete"} /\ unreg.l = k => \A p : ~In(k, p))'
    BY <1>2, <1>8, <2>1 DEF Calm
  <2>6. (\A j \in Lines \ {k} :
            UserOf[j] = UserOf[k] /\ line[j] # "new" /\ line[k] # "new" =>
                j \in left \/ k \in left)'
    BY <1>2, <2>1 DEF Calm, history
  <2> QED
    BY <2>2, <2>3, <2>4, <2>5, <2>6 DEF Calm
<1>15. ASSUME NEW a \in Actors PROVE Reads(a)'
  <2>1. op[a].at = "send" => op[a].l \in Lines
    <3>1. op[a].at = "send" => op[a].l \in heap[op[a].o].lines /\ op[a].o \in 1 .. Len(heap)
      BY OpTyped DEF Reads, In
    <3>2. ASSUME NEW p \in 1 .. Len(heap) PROVE heap[p].lines \subseteq Lines
      <4>1. heap[p] \in ObjectSet
        BY <1>5
      <4> QED
        BY <4>1 DEF ObjectSet
    <3> QED
      BY <3>1, <3>2
  <2> QED
    BY <1>2, <1>8, <1>9, <2>1, SameReads DEF history
<1> QED
  BY <1>4, <1>10, <1>13, <1>14, <1>15 DEF Inv

LEMMA SeqEdit ==
    ASSUME NEW S, NEW q \in Seq(S), NEW i \in 1 .. Len(q), NEW x \in S,
           NEW r, r = [q EXCEPT ![i] = x]
    PROVE  /\ r \in Seq(S) /\ Len(r) = Len(q) /\ r[i] = x
           /\ \A k \in 1 .. Len(q) \ {i} : r[k] = q[k]
OBVIOUS

(* An object that is written.                                               *)
LEMMA Written ==
    ASSUME Inv, NEW o \in 1 .. Len(heap), NEW j \in ObjectSet, heap' = [heap EXCEPT ![o] = j]
    PROVE  /\ heap' \in Seq(ObjectSet) /\ Len(heap') = Len(heap)
           /\ \A l, p : In(l, p)' <=> (p = o /\ l \in j.lines) \/ (p # o /\ In(l, p))
<1>1. heap \in Seq(ObjectSet)
  BY DEF Inv, Typed
<1>2. PICK r : r = heap'
  OBVIOUS
<1>3. r = [heap EXCEPT ![o] = j]
  BY <1>2
<1>4. /\ r \in Seq(ObjectSet) /\ Len(r) = Len(heap) /\ r[o] = j
      /\ \A p \in 1 .. Len(heap) \ {o} : r[p] = heap[p]
  BY <1>1, <1>3, SeqEdit
<1>5. ASSUME NEW l, NEW p PROVE In(l, p)' <=> (p = o /\ l \in j.lines) \/ (p # o /\ In(l, p))
  <2>1. In(l, p)' <=> p \in 1 .. Len(r) /\ l \in r[p].lines
    BY <1>2 DEF In
  <2> QED
    BY <1>4, <2>1 DEF In
<1> QED
  BY <1>2, <1>4, <1>5

(* UserLines.add: the line is in its object.                                *)
LEMMA addInv == ASSUME Inv, add PROVE Inv'
<1>1. /\ reg.at = "add" /\ reg.l \in Lines /\ reg.o \in 1 .. Len(heap)
      /\ reg' = [Idle EXCEPT !.at = "tell"] /\ ~Read(reg.o) /\ added' = added \union {reg.l}
      /\ heap' = [heap EXCEPT ![reg.o].lines = @ \union {reg.l}, ![reg.o].count = @ + 1]
      /\ heap \in Seq(ObjectSet)
  BY DEF add, Inv, Typed
<1>2. UNCHANGED <<line, chans, queues, connections, unreg, closing, op, left, hasty>>
  BY DEF add, lineVars, chanVars
<1>3. PICK l \in Lines, o \in 1 .. Len(heap) : l = reg.l /\ o = reg.o
  BY <1>1
<1> DEFINE j == [heap[o] EXCEPT !.lines = @ \union {l}, !.count = @ + 1]
<1>4. heap[o] \in ObjectSet
  BY <1>1
<1>5. j \in ObjectSet /\ j.lines = heap[o].lines \union {l}
  <2>1. PICK set, n : set = heap[o].lines \union {l} /\ n = heap[o].count + 1
    OBVIOUS
  <2>2. set \in SUBSET Lines /\ n \in Int
    BY <1>4, <2>1 DEF ObjectSet
  <2>3. j = [heap[o] EXCEPT !.lines = set, !.count = n]
    BY <1>4, <2>1 DEF ObjectSet
  <2> QED
    BY <1>4, <2>1, <2>2, <2>3 DEF ObjectSet
<1>6. heap' = [heap EXCEPT ![o] = j]
  BY <1>1, <1>3, <1>4 DEF ObjectSet
<1> HIDE DEF j
<1>7. /\ heap' \in Seq(ObjectSet) /\ Len(heap') = Len(heap)
      /\ \A k, p : In(k, p)' <=> (p = o /\ k \in j.lines) \/ (p # o /\ In(k, p))
  BY <1>5, <1>6, Written
<1>8. \A k, p : In(k, p)' <=> In(k, p) \/ (k = l /\ p = o)
  BY <1>5, <1>7 DEF In
<1>9. Typed'
  BY <1>1, <1>2, <1>7, ToldTyped DEF Inv, Typed, queues
<1>10. /\ WaitOnce' /\ Registering(l)
       /\ \A k : /\ (Registering(k) => k = l) /\ ~Registering(k)'
                 /\ (Waits(k)' <=> Waits(k)) /\ (Leaving(k)' <=> Leaving(k))
  BY <1>1, <1>2, <1>3, ToldTyped DEF Inv, WaitOnce, Registering, Waits, Leaving, queues
<1>11. Once(l) /\ l \notin added /\ ~Waits(l) /\ line[l] \notin Before
       /\ \A p : ~In(l, p)
  BY <1>10 DEF Inv, Once
<1>12. ASSUME NEW k \in Lines PROVE Once(k)'
  <2>1. CASE k = l
    BY <1>1, <1>2, <1>3, <1>8, <1>10, <1>11, <2>1 DEF Once
  <2>2. CASE k # l
    <3>1. Once(k)
      BY DEF Inv
    <3> QED
      BY <1>1, <1>2, <1>3, <1>8, <1>10, <2>2, <3>1 DEF Once
  <2> QED
    BY <2>1, <2>2
<1>13. ASSUME NEW k \in Lines, UserOf[k] \notin hasty' PROVE Calm(k)'
  <2>1. Calm(k)
    BY <1>2, <1>13 DEF Inv
  <2>2. (Leaving(k) \/ k \in left => k \in added)'
    BY <1>1, <1>2, <1>10, <2>1 DEF Calm
  <2>3. (k \in left => \A p : ~In(k, p))'
    BY <1>2, <1>8, <1>11, <2>1 DEF Calm
  <2>4. (\A p : In(k, p) => connections[UserOf[k]] \in {0, p})'
    BY <1>2, <1>3, <1>8, <1>10, <2>1 DEF Calm
  <2>5. unreg.at \in {"remove", "close", "delete"} /\ unreg.l = k => k # l
    BY <1>11, <2>1 DEF Calm, Leaving
  <2>6. /\ (unreg.at = "remove" /\ unreg.l = k => \A p : In(k, p) => p = unreg.o)'
        /\ (unreg.at \in {"close", "delete"} /\ unreg.l = k => \A p : ~In(k, p))'
    BY <1>2, <1>8, <2>1, <2>5 DEF Calm
  <2>7. (\A i \in Lines \ {k} :
            UserOf[i] = UserOf[k] /\ line[i] # "new" /\ line[k] # "new" =>
                i \in left \/ k \in left)'
    BY <1>2, <2>1 DEF Calm
  <2> QED
    BY <1>10, <2>2, <2>3, <2>4, <2>6, <2>7 DEF Calm
<1>14. \A a \in Actors : Reads(a)'
  BY <1>2, <1>8, SameReads
<1> QED
  BY <1>9, <1>10, <1>12, <1>13, <1>14 DEF Inv

-----------------------------------------------------------------------------
(* The unregistration loop.                                                 *)

(* The line that leaves is in the object that the map has, if in any.       *)
LEMMA UnregisterTakeInv == ASSUME Inv, UnregisterTake PROVE Inv'
<1>1. PICK l, o :
         /\ l = Head(unregisteredChanInternal) /\ o = connections[UserOf[l]]
         /\ unregisteredChanInternal # <<>>
         /\ unregisteredChanInternal' = Tail(unregisteredChanInternal)
         /\ unreg' = IF o = 0 THEN Idle ELSE [Idle EXCEPT !.at = "remove", !.o = o, !.l = l]
  BY DEF UnregisterTake
<1>2. UNCHANGED <<line, chans, registeredChanInternal, mapVars, reg, closing, op, history>>
  BY DEF UnregisterTake, lineVars, chanVars
<1>3. /\ unregisteredChanInternal' \in Seq(Lines) /\ l \in Lines /\ l \in Nat /\ Leaving(l)
      /\ \A k : (\E i \in 1 .. Len(unregisteredChanInternal') :
                    unregisteredChanInternal'[i] = k) => Leaving(k)
  <2>1. unregisteredChanInternal \in Seq(Lines)
    BY DEF Inv, Typed
  <2>2. PICK r : r = unregisteredChanInternal'
    OBVIOUS
  <2>3. r = Tail(unregisteredChanInternal)
    BY <1>1, <2>2
  <2>4. /\ Head(unregisteredChanInternal) = unregisteredChanInternal[1]
        /\ unregisteredChanInternal[1] \in Lines /\ r \in Seq(Lines)
        /\ Len(unregisteredChanInternal) \in Nat /\ Len(unregisteredChanInternal) # 0
        /\ Len(r) = Len(unregisteredChanInternal) - 1
        /\ \A i \in 1 .. Len(r) : r[i] = unregisteredChanInternal[i + 1]
    BY <1>1, <2>1, <2>3, Taken
  <2>5. l \in Lines /\ l \in Nat /\ Leaving(l)
    BY <1>1, <2>4, SseHubAssumption DEF Leaving
  <2>6. \A k : (\E i \in 1 .. Len(r) : r[i] = k) => Leaving(k)
    BY <2>4 DEF Leaving
  <2> QED
    BY <2>2, <2>4, <2>5, <2>6
<1>4. UserOf[l] \in Users /\ o \in 0 .. Len(heap) /\ Len(heap) \in Nat
  BY <1>1, <1>3, SseHubAssumption DEF Inv, Typed
<1>5. /\ unreg' \in OpSet
      /\ \/ unreg'.at = "idle"
         \/ unreg'.at = "remove" /\ unreg'.l = l /\ unreg'.o = o /\ o \in 1 .. Len(heap)
  <2>1. CASE o = 0
    BY <1>1, <2>1, IdleTyped
  <2>2. CASE o # 0
    <3>1. "remove" \in Places /\ o \in Nat /\ o \in 1 .. Len(heap)
      BY <1>4, <2>2 DEF Places
    <3>2. unreg' = [Idle EXCEPT !.at = "remove", !.o = o, !.l = l]
      BY <1>1, <2>2
    <3> QED
      BY <1>3, <3>1, <3>2, IdleTyped DEF OpSet
  <2> QED
    BY <2>1, <2>2
<1>6. \A k, p : In(k, p)' <=> In(k, p)
  BY <1>2 DEF In, mapVars
<1>7. Typed'
  BY <1>2, <1>3, <1>5 DEF Inv, Typed, mapVars
<1>8. /\ WaitOnce' /\ \A k : (Registering(k)' <=> Registering(k)) /\ (Waits(k)' <=> Waits(k))
      /\ \A k : Leaving(k)' => Leaving(k)
  BY <1>2, <1>3, <1>5 DEF Inv, WaitOnce, Registering, Waits, Leaving
<1>9. \A k \in Lines : Once(k)'
  BY <1>2, <1>6, <1>8, SameOnce DEF history
<1>10. ASSUME NEW k \in Lines, UserOf[k] \notin hasty' PROVE Calm(k)'
  <2>1. Calm(k)
    BY <1>2, <1>10 DEF Inv, history
  <2>2. (Leaving(k) \/ k \in left => k \in added)' /\ (k \in left => \A p : ~In(k, p))'
    BY <1>2, <1>6, <1>8, <2>1 DEF Calm, history
  <2>3. /\ (\A p : In(k, p) => connections[UserOf[k]] \in {0, p})'
        /\ (Registering(k) => connections[UserOf[k]] \in {0, reg.o})'
    BY <1>2, <1>6, <1>8, <2>1 DEF Calm, mapVars
  <2>4. /\ (unreg.at = "remove" /\ unreg.l = k => \A p : In(k, p) => p = unreg.o)'
        /\ (unreg.at \in {"close", "delete"} /\ unreg.l = k => \A p : ~In(k, p))'
    BY <1>1, <1>5, <1>6, <2>1 DEF Calm
  <2>5. (\A i \in Lines \ {k} :
            UserOf[i] = UserOf[k] /\ line[i] # "new" /\ line[k] # "new" =>
                i \in left \/ k \in left)'
    BY <1>2, <2>1 DEF Calm, history
  <2> QED
    BY <2>2, <2>3, <2>4, <2>5 DEF Calm
<1>11. \A a \in Actors : Reads(a)'
  BY <1>2, <1>6, SameReads DEF history
<1> QED
  BY <1>7, <1>8, <1>9, <1>10, <1>11 DEF Inv

(* UserLines.remove: under the write lock, so no one works on the lines.    *)
LEMMA removeInv == ASSUME Inv, remove PROVE Inv'
<1>1. /\ unreg.at = "remove" /\ unreg.l \in Lines /\ unreg.o \in 1 .. Len(heap)
      /\ unreg' = [unreg EXCEPT !.at = "close"] /\ ~Read(unreg.o) /\ unreg \in OpSet
      /\ heap' = [heap EXCEPT ![unreg.o].lines = {k \in @ : IdOf[k] # IdOf[unreg.l]},
                              ![unreg.o].count = @ - 1]
      /\ heap \in Seq(ObjectSet)
  BY DEF remove, Inv, Typed
<1>2. UNCHANGED <<line, chans, queues, connections, reg, closing, op, history>>
  BY DEF remove, lineVars, chanVars
<1>3. PICK l \in Lines, o \in 1 .. Len(heap) : l = unreg.l /\ o = unreg.o
  BY <1>1
<1> DEFINE j == [heap[o] EXCEPT !.lines = {k \in @ : IdOf[k] # IdOf[l]}, !.count = @ - 1]
<1>4. heap[o] \in ObjectSet
  BY <1>1
<1>5. /\ j \in ObjectSet
      /\ \A k : k \in j.lines <=> k \in heap[o].lines /\ IdOf[k] # IdOf[l]
  <2>1. PICK set, n : /\ set = {k \in heap[o].lines : IdOf[k] # IdOf[l]}
                      /\ n = heap[o].count - 1
    OBVIOUS
  <2>2. set \in SUBSET Lines /\ n \in Int
    BY <1>4, <2>1 DEF ObjectSet
  <2>3. j = [heap[o] EXCEPT !.lines = set, !.count = n]
    BY <1>4, <2>1 DEF ObjectSet
  <2>4. j \in ObjectSet /\ j.lines = set
    BY <1>4, <2>2, <2>3 DEF ObjectSet
  <2> QED
    BY <2>1, <2>4
<1>6. heap' = [heap EXCEPT ![o] = j]
  BY <1>1, <1>3, <1>4 DEF ObjectSet
<1> HIDE DEF j
<1>7. /\ heap' \in Seq(ObjectSet) /\ Len(heap') = Len(heap)
      /\ \A k, p : In(k, p)' <=> (p = o /\ k \in j.lines) \/ (p # o /\ In(k, p))
  BY <1>5, <1>6, Written
<1>8. \A k, p : /\ In(k, p)' => In(k, p)
                /\ ~In(l, o)'
                /\ p # o => (In(k, p)' <=> In(k, p))
  BY <1>5, <1>7 DEF In
<1>9. unreg' \in OpSet /\ unreg'.at = "close" /\ unreg'.l = l /\ unreg'.o = o
  BY <1>1, <1>3 DEF OpSet, Places
<1>10. Typed'
  BY <1>2, <1>3, <1>7, <1>9 DEF Inv, Typed, queues
<1>11. /\ WaitOnce' /\ \A k : (Registering(k)' <=> Registering(k)) /\ (Waits(k)' <=> Waits(k))
       /\ \A k : Leaving(k)' <=> Leaving(k)
  BY <1>1, <1>2, <1>3, <1>9 DEF Inv, WaitOnce, Registering, Waits, Leaving, queues
<1>12. \A k \in Lines : Once(k)'
  BY <1>2, <1>8, <1>11, SameOnce DEF history
<1>13. ASSUME NEW k \in Lines, UserOf[k] \notin hasty' PROVE Calm(k)'
  <2>1. Calm(k)
    BY <1>2, <1>13 DEF Inv, history
  <2>2. (Leaving(k) \/ k \in left => k \in added)' /\ (k \in left => \A p : ~In(k, p))'
    BY <1>2, <1>8, <1>11, <2>1 DEF Calm, history
  <2>3. /\ (\A p : In(k, p) => connections[UserOf[k]] \in {0, p})'
        /\ (Registering(k) => connections[UserOf[k]] \in {0, reg.o})'
    BY <1>2, <1>8, <1>11, <2>1 DEF Calm
  <2>4. /\ (unreg.at = "remove" /\ unreg.l = k => \A p : In(k, p) => p = unreg.o)'
        /\ (unreg.at \in {"close", "delete"} /\ unreg.l = k => \A p : ~In(k, p))'
    <3>1. ASSUME k = l, NEW p PROVE ~In(k, p)'
      BY <1>1, <1>3, <1>8, <2>1, <3>1 DEF Calm
    <3> QED
      BY <1>9, <3>1
  <2>5. (\A i \in Lines \ {k} :
            UserOf[i] = UserOf[k] /\ line[i] # "new" /\ line[k] # "new" =>
                i \in left \/ k \in left)'
    BY <1>2, <2>1 DEF Calm, history
  <2> QED
    BY <2>2, <2>3, <2>4, <2>5 DEF Calm
<1>14. ASSUME NEW k, NEW p, In(k, p), Read(p) PROVE In(k, p)'
  BY <1>1, <1>3, <1>8, <1>14
<1>15. \A a \in Actors : Reads(a)'
  BY <1>2, <1>14, SameReads DEF history
<1> QED
  BY <1>10, <1>11, <1>12, <1>13, <1>15 DEF Inv

(* What a send needs of its line.                                           *)
LEMMA Sends ==
    ASSUME Inv, NEW a \in Actors, op[a].at = "send"
    PROVE  op[a].l \in Lines /\ In(op[a].l, op[a].o) /\ Read(op[a].o)
<1>1. op[a].o \in 1 .. Len(heap) /\ op[a].l \in heap[op[a].o].lines /\ heap \in Seq(ObjectSet)
  BY OpTyped DEF Reads, In
<1>2. heap[op[a].o] \in ObjectSet
  BY <1>1
<1> QED
  BY <1>1, <1>2 DEF ObjectSet, In, Read

(* The channels of a line that is in no object any more, and its object.    *)
LEMMA LeftInv == ASSUME Inv, UnregisterClose \/ UnregisterDelete PROVE Inv'
<1>1. /\ unreg.at \in {"close", "delete"} /\ unreg.l \in Lines
      /\ unreg \in OpSet /\ unreg.o \in 1 .. Len(heap)
  BY DEF Inv, Typed, UnregisterClose, UnregisterDelete
<1>2. UNCHANGED <<line, queues, heap, reg, closing, op, added, hasty>>
  BY DEF UnregisterClose, UnregisterDelete, lineVars, mapVars
<1>3. PICK l \in Lines : l = unreg.l
  BY <1>1
<1>4. /\ chans' \in [Lines -> {"nil", "open", "closed"}]
      /\ \A k \in Lines : chans'[k] = "closed" => chans[k] = "closed" \/ k = l
      /\ connections' \in [Users -> 0 .. Len(heap)]
      /\ \A u \in Users : connections'[u] \in {0, connections[u]}
  <2>1. /\ connections \in [Users -> 0 .. Len(heap)] /\ Len(heap) \in Nat
        /\ chans \in [Lines -> {"nil", "open", "closed"}]
    BY DEF Inv, Typed
  <2>2. CASE UnregisterClose
    BY <1>3, <2>1, <2>2 DEF UnregisterClose, closeLineChans, mapVars
  <2>3. CASE UnregisterDelete
    <3>1. UNCHANGED chans /\ connections' = [connections EXCEPT ![UserOf[l]] = 0]
      BY <1>3, <2>3 DEF UnregisterDelete, chanVars
    <3>2. 0 \in 0 .. Len(heap)
      BY <2>1
    <3> QED
      BY <2>1, <3>1, <3>2
  <2> QED
    BY <2>2, <2>3
<1>5. /\ unreg' \in OpSet /\ left \subseteq left' /\ left' \subseteq left \union {l}
      /\ unreg'.at = "tell" \/ (unreg'.at = "delete" /\ unreg'.l = l /\ unreg'.o = unreg.o)
  <2>1. [unreg EXCEPT !.at = "delete"] \in OpSet
    BY <1>1 DEF OpSet, Places
  <2>2. CASE UnregisterClose
    BY <1>1, <1>3, <2>1, <2>2, ToldTyped DEF UnregisterClose, OpSet
  <2>3. CASE UnregisterDelete
    BY <1>3, <2>3, ToldTyped DEF UnregisterDelete
  <2> QED
    BY <2>2, <2>3
<1>6. \A k, p : In(k, p)' <=> In(k, p)
  BY <1>2 DEF In
<1>7. Typed'
  BY <1>1, <1>2, <1>3, <1>4, <1>5 DEF Inv, Typed, queues
<1>8. /\ WaitOnce' /\ \A k : (Registering(k)' <=> Registering(k)) /\ (Waits(k)' <=> Waits(k))
      /\ \A k : Leaving(k)' => Leaving(k)
      /\ Leaving(l)
  BY <1>1, <1>2, <1>3, <1>5 DEF Inv, WaitOnce, Registering, Waits, Leaving, queues
<1>9. \A k \in Lines : Once(k)'
  BY <1>2, <1>6, <1>8, SameOnce
<1>10. UserOf[l] \notin hasty => l \in added /\ \A p : ~In(l, p)
  BY <1>1, <1>3, <1>8 DEF Inv, Calm
<1>11. ASSUME NEW k \in Lines, UserOf[k] \notin hasty' PROVE Calm(k)'
  <2>1. Calm(k) /\ UserOf[k] \in Users
    BY <1>2, <1>11, SseHubAssumption DEF Inv
  <2>2. k = l => k \in added /\ \A p : ~In(k, p)
    BY <1>2, <1>10, <1>11
  <2>3. (Leaving(k) \/ k \in left => k \in added)' /\ (k \in left => \A p : ~In(k, p))'
    BY <1>2, <1>5, <1>6, <1>8, <2>1, <2>2 DEF Calm
  <2>4. /\ (\A p : In(k, p) => connections[UserOf[k]] \in {0, p})'
        /\ (Registering(k) => connections[UserOf[k]] \in {0, reg.o})'
    <3>1. connections'[UserOf[k]] \in {0, connections[UserOf[k]]}
      BY <1>4, <2>1
    <3> QED
      BY <1>2, <1>6, <1>8, <2>1, <3>1 DEF Calm
  <2>5. /\ (unreg.at = "remove" /\ unreg.l = k => \A p : In(k, p) => p = unreg.o)'
        /\ (unreg.at \in {"close", "delete"} /\ unreg.l = k => \A p : ~In(k, p))'
    BY <1>5, <1>6, <2>2
  <2>6. (\A i \in Lines \ {k} :
            UserOf[i] = UserOf[k] /\ line[i] # "new" /\ line[k] # "new" =>
                i \in left \/ k \in left)'
    BY <1>2, <1>5, <2>1 DEF Calm
  <2> QED
    BY <2>3, <2>4, <2>5, <2>6 DEF Calm
<1>12. ASSUME NEW a \in Actors, op[a].at = "send", chans'[op[a].l] = "closed",
              UserOf[op[a].l] \notin hasty'
       PROVE  chans[op[a].l] = "closed"
  <2>1. op[a].l \in Lines /\ In(op[a].l, op[a].o)
    BY <1>12, Sends
  <2> QED
    BY <1>2, <1>4, <1>10, <1>12, <2>1
<1>13. \A a \in Actors : Reads(a)'
  BY <1>2, <1>6, <1>12, SameReads
<1> QED
  BY <1>7, <1>8, <1>9, <1>11, <1>13 DEF Inv

-----------------------------------------------------------------------------
(* Hub.Close.                                                               *)

(* A step of the loops or of Close that leaves the lines where they are.    *)
LEMMA CloseStep ==
    ASSUME Inv, Typed',
           UNCHANGED <<line, chans, registeredChanInternal, unregisteredChanInternal, heap, op,
                       history>>,
           \A u \in Users : connections'[u] \in {0, connections[u]},
           reg' = reg \/ reg'.at \in {"idle", "dead"},
           unreg' = unreg \/ unreg'.at \in {"idle", "dead"}
    PROVE  Inv'
<1>1. \A l, o : In(l, o)' <=> In(l, o)
  BY DEF In
<1>2. /\ WaitOnce' /\ \A l : Waits(l)' <=> Waits(l)
      /\ \A l : Registering(l)' => Registering(l) /\ reg' = reg
      /\ \A l : Leaving(l)' => Leaving(l)
  BY DEF Inv, WaitOnce, Registering, Waits, Leaving
<1>3. \A l \in Lines : Once(l)'
  BY <1>1, <1>2, SameOnce DEF history
<1>4. ASSUME NEW l \in Lines, UserOf[l] \notin hasty' PROVE Calm(l)'
  <2>1. connections'[UserOf[l]] \in {0, connections[UserOf[l]]}
    BY SseHubAssumption
  <2> QED
    BY <1>1, <1>2, <1>4, <2>1, SameCalm DEF history
<1>5. \A a \in Actors : Reads(a)'
  BY <1>1, SameReads DEF history
<1> QED
  BY <1>2, <1>3, <1>4, <1>5 DEF Inv

LEMMA CloseTyped ==
    ASSUME Inv
    PROVE  /\ closing \in ClosingSet /\ closing.todo \subseteq 1 .. Len(heap)
           /\ connections \in [Users -> 0 .. Len(heap)] /\ Len(heap) \in Nat
           /\ reg \in OpSet /\ unreg \in OpSet /\ heap \in Seq(ObjectSet)
           /\ chans \in [Lines -> {"nil", "open", "closed"}]
BY DEF Inv, Typed

(* The flag, and the objects of the map.                                    *)
LEMMA RangeInv == ASSUME Inv, Close \/ CloseRange PROVE Inv'
<1>1. UNCHANGED <<line, chans, queues, connections, heap, reg, unreg, op, history>>
  BY DEF Close, CloseRange, lineVars, chanVars, mapVars
<1>2. closing' \in ClosingSet /\ closing'.todo \subseteq 1 .. Len(heap)
  <2>1. CASE Close
    BY <2>1, CloseTyped DEF Close, ClosingSet
  <2>2. CASE CloseRange
    <3>1. PICK todo : todo = {connections[u] : u \in Users} \ {0}
      OBVIOUS
    <3>2. todo \subseteq 1 .. Len(heap) /\ todo \subseteq Nat
      BY <3>1, CloseTyped
    <3>3. closing' = [closing EXCEPT !.at = "clear", !.todo = todo]
      BY <2>2, <3>1 DEF CloseRange
    <3> QED
      BY <3>2, <3>3, CloseTyped DEF ClosingSet
  <2> QED
    BY <2>1, <2>2
<1>3. Typed'
  BY <1>1, <1>2 DEF Inv, Typed, queues
<1> QED
  BY <1>1, <1>3, CloseStep DEF queues

(* The map is emptied.                                                      *)
LEMMA CloseClearInv == ASSUME Inv, CloseClear PROVE Inv'
<1>1. /\ UNCHANGED <<line, chans, queues, heap, reg, unreg, op, history>>
      /\ connections' = [u \in Users |-> 0] /\ closing' = [closing EXCEPT !.at = "lines"]
  BY DEF CloseClear, lineVars, chanVars
<1>2. closing' \in ClosingSet /\ closing'.todo = closing.todo
  BY <1>1, CloseTyped DEF ClosingSet
<1>3. connections' \in [Users -> 0 .. Len(heap)] /\ \A u \in Users : connections'[u] = 0
  BY <1>1, CloseTyped
<1>4. Typed'
  BY <1>1, <1>2, <1>3 DEF Inv, Typed, queues
<1> QED
  BY <1>1, <1>3, <1>4, CloseStep DEF queues

(* The channels of the hub.                                                 *)
LEMMA CloseChansInv == ASSUME Inv, CloseChans PROVE Inv'
<1>1. /\ UNCHANGED <<line, chans, queues, connections, heap, reg, unreg, op, history>>
      /\ closing' = [at |-> "done", todo |-> {}, held |-> {}]
  BY DEF CloseChans, lineVars, chanVars, mapVars
<1>2. closing' \in ClosingSet /\ closing'.todo = {}
  BY <1>1 DEF ClosingSet
<1>3. Typed'
  BY <1>1, <1>2 DEF Inv, Typed, queues
<1> QED
  BY <1>1, <1>3, CloseStep DEF queues

(* What the application is told, and what it reads.                         *)
LEMMA TellInv == ASSUME Inv, RegisterTell \/ UnregisterTell \/ AppReads PROVE Inv'
<1>1. UNCHANGED <<line, chans, registeredChanInternal, unregisteredChanInternal, connections,
                  heap, closing, op, history>>
  BY DEF RegisterTell, UnregisterTell, AppReads, lineVars, chanVars, mapVars
<1>2. /\ reg' = reg \/ (reg' \in OpSet /\ reg'.at \in {"idle", "dead"})
      /\ unreg' = unreg \/ (unreg' \in OpSet /\ unreg'.at \in {"idle", "dead"})
  BY IdleTyped, ToldTyped DEF RegisterTell, UnregisterTell, AppReads
<1>3. Typed'
  BY <1>1, <1>2 DEF Inv, Typed
<1> QED
  BY <1>1, <1>2, <1>3, CloseStep

(* The lines of an object, under its lock: a line is in no other object,    *)
(* so no one is about to send on a channel that is closed here.             *)
LEMMA CloseLockInv == ASSUME Inv, CloseLock PROVE Inv'
<1>1. PICK o \in closing.todo :
         /\ ~Read(o) /\ closeLineChans(heap[o].lines) /\ heap' = [heap EXCEPT ![o].count = 0]
         /\ closing' = [closing EXCEPT !.todo = @ \ {o}, !.held = @ \union {o}]
  BY DEF CloseLock
<1>2. UNCHANGED <<line, queues, connections, reg, unreg, op, history>>
  BY DEF CloseLock, lineVars
<1>3. o \in 1 .. Len(heap) /\ heap[o] \in ObjectSet /\ o \in Nat
  BY <1>1, CloseTyped
<1> DEFINE j == [heap[o] EXCEPT !.count = 0]
<1>4. j \in ObjectSet /\ j.lines = heap[o].lines
  BY <1>3 DEF ObjectSet
<1>5. heap' = [heap EXCEPT ![o] = j]
  BY <1>1
<1> HIDE DEF j
<1>6. /\ heap' \in Seq(ObjectSet) /\ Len(heap') = Len(heap)
      /\ \A k, p : In(k, p)' <=> (p = o /\ k \in j.lines) \/ (p # o /\ In(k, p))
  BY <1>3, <1>4, <1>5, Written
<1>7. \A k, p : In(k, p)' <=> In(k, p)
  BY <1>3, <1>4, <1>6 DEF In
<1>8. closing' \in ClosingSet /\ closing'.todo \subseteq closing.todo
  <2>1. PICK todo, held : todo = closing.todo \ {o} /\ held = closing.held \union {o}
    OBVIOUS
  <2>2. closing' = [closing EXCEPT !.todo = todo, !.held = held]
    BY <1>1, <2>1
  <2>3. todo \subseteq closing.todo /\ todo \in SUBSET Nat /\ held \in SUBSET Nat
    BY <1>3, <2>1, CloseTyped DEF ClosingSet
  <2> QED
    BY <2>2, <2>3, CloseTyped DEF ClosingSet
<1>9. /\ chans' \in [Lines -> {"nil", "open", "closed"}]
      /\ \A k \in Lines : chans'[k] = "closed" => chans[k] = "closed" \/ k \in heap[o].lines
  BY <1>1, CloseTyped DEF closeLineChans
<1>10. Typed'
  BY <1>2, <1>6, <1>8, <1>9 DEF Inv, Typed, queues
<1>11. /\ WaitOnce' /\ \A k : (Registering(k)' <=> Registering(k)) /\ (Waits(k)' <=> Waits(k))
       /\ \A k : Leaving(k)' <=> Leaving(k)
  BY <1>2 DEF Inv, WaitOnce, Registering, Waits, Leaving, queues
<1>12. \A k \in Lines : Once(k)'
  BY <1>2, <1>7, <1>11, SameOnce DEF history
<1>13. ASSUME NEW k \in Lines, UserOf[k] \notin hasty' PROVE Calm(k)'
  BY <1>2, <1>7, <1>11, <1>13, SameCalm DEF history
<1>14. ASSUME NEW a \in Actors, op[a].at = "send", chans'[op[a].l] = "closed"
       PROVE  chans[op[a].l] = "closed"
  <2>1. op[a].l \in Lines /\ In(op[a].l, op[a].o) /\ Read(op[a].o)
    BY <1>14, Sends
  <2>2. In(op[a].l, o) => op[a].o = o
    BY <2>1 DEF Inv, Once
  <2> QED
    BY <1>1, <1>3, <1>9, <1>14, <2>1, <2>2 DEF In
<1>15. \A a \in Actors : Reads(a)'
  BY <1>2, <1>7, <1>14, SameReads DEF history
<1> QED
  BY <1>10, <1>11, <1>12, <1>13, <1>15 DEF Inv

-----------------------------------------------------------------------------
LEMMA StutterInv == ASSUME Inv, UNCHANGED vars PROVE Inv'
<1>1. UNCHANGED <<line, chans, queues, connections, heap, reg, unreg, closing, op, history>>
  BY DEF vars, lineVars, chanVars, mapVars
<1>2. Typed'
  BY <1>1 DEF Inv, Typed, queues
<1> QED
  BY <1>1, <1>2, CloseStep DEF queues

LEMMA NextInv == Inv /\ [Next]_vars => Inv'
<1> SUFFICES ASSUME Inv, [Next]_vars PROVE Inv'
  OBVIOUS
<1>1. ASSUME NEW l \in Lines, Serve(l) \/ Runs(l) \/ Wakes(l) \/ TakeDone(l) PROVE Inv'
  BY <1>1, ServeInv, RegisterInv, LoopInv, UnregisterInv, TakeCloseInv DEF Runs, Wakes
<1>2. CASE RegisterLoop \/ AppReads
  BY <1>2, RegisterTakeInv, addInv, TellInv DEF RegisterLoop
<1>3. CASE UnregisterLoop
  BY <1>3, UnregisterTakeInv, removeInv, LeftInv, TellInv DEF UnregisterLoop
<1>4. CASE Close \/ Closes
  BY <1>4, RangeInv, CloseClearInv, CloseLockInv, CloseChansInv DEF Closes
<1>5. ASSUME NEW s \in Senders, Begin(s) PROVE Inv'
  BY <1>5, BeginInv
<1>6. ASSUME NEW a \in Actors, Operates(a) PROVE Inv'
  BY <1>6, RLockInv, IterateInv, PushMessageInv DEF Operates
<1>7. CASE UNCHANGED vars
  BY <1>7, StutterInv
<1> QED
  BY <1>1, <1>2, <1>3, <1>4, <1>5, <1>6, <1>7 DEF Next

(* Whatever lines, users and senders there are, and while Hub.Close runs:   *)
(* UserLines.push and close never send on a channel that is closed, for a   *)
(* user whose lines came and left one after another.  The channels are      *)
(* closed only when the line is in no object a reader holds.                *)
THEOREM PushesFindOpenChannels == Spec => []NoSendOnClosed
<1>1. Inv => NoSendOnClosed
  BY DEF Inv, Reads, NoSendOnClosed
<1> QED
  BY InitInv, NextInv, <1>1, PTL DEF Spec

-----------------------------------------------------------------------------
(* The map and the count, while the hub is open.                            *)

(* Whose an object is.                                                      *)
Owned ==
    /\ \A u \in Users : connections[u] # 0 => heap[connections[u]].user = u
    /\ \A l \in Lines, o \in 1 .. Len(heap) : l \in heap[o].lines => heap[o].user = UserOf[l]
    /\ reg.at = "add" => heap[reg.o].user = UserOf[reg.l]
    /\ unreg.at \in {"remove", "close", "delete"} => heap[unreg.o].user = UserOf[unreg.l]

(* A line ends once.                                                        *)
Queued(l) == \E i \in 1 .. Len(unregisteredChanInternal) : unregisteredChanInternal[i] = l
Unregistering(l) == unreg.at \in {"remove", "close", "delete"} /\ unreg.l = l
Removed(l) == unreg.at \in {"close", "delete"} /\ unreg.l = l

QueueOnce ==
    \A i, j \in 1 .. Len(unregisteredChanInternal) :
        unregisteredChanInternal[i] = unregisteredChanInternal[j] => i = j

Ends(l) ==
    /\ isClosed[l] => line[l] \in After
    /\ Leaving(l) \/ l \in left => line[l] = "ended"
    /\ Queued(l) => ~Unregistering(l) /\ l \notin left
    /\ Unregistering(l) => l \notin left

(* What holds of a line whose user is not hasty, until the hub is closed.   *)
Served(l) ==
    /\ line[l] \in Before \/ Waits(l) \/ Registering(l) \/ l \in added
    /\ line[l] = "ended" => Leaving(l) \/ l \in left
    /\ Registering(l) => connections[UserOf[l]] = reg.o
    /\ l \in added => Removed(l) \/ l \in left \/ In(l, connections[UserOf[l]])

(* The lines that connCount counts.                                         *)
Held == {l \in Lines : l \in added /\ ~Removed(l) /\ l \notin left}

MapInv ==
    /\ isClosed \in [Lines -> BOOLEAN] /\ connCount \in Int
    /\ Owned /\ QueueOnce
    /\ \A l \in Lines : Ends(l)
    /\ ~HubClosed =>
          /\ \A l \in Lines : UserOf[l] \notin hasty => Served(l)
          /\ hasty = {} => connCount = Cardinality(Held)

LEMMA MapInit == Init => MapInv
<1> SUFFICES ASSUME Init PROVE MapInv
  OBVIOUS
<1>1. /\ reg = Idle /\ unreg = Idle /\ heap = <<>> /\ connCount = 0 /\ added = {} /\ left = {}
      /\ unregisteredChanInternal = <<>> /\ connections = [u \in Users |-> 0]
      /\ line = [l \in Lines |-> "new"] /\ isClosed = [l \in Lines |-> FALSE]
  BY DEF Init
<1>2. reg.at = "idle" /\ unreg.at = "idle"
  BY <1>1, IdleTyped
<1>3. Len(heap) = 0 /\ Len(unregisteredChanInternal) = 0
  BY <1>1
<1>4. Owned /\ QueueOnce
  BY <1>1, <1>2, <1>3 DEF Owned, QueueOnce
<1>5. \A l \in Lines : Ends(l) /\ Served(l)
  BY <1>1, <1>2, <1>3 DEF Ends, Served, Leaving, Queued, Unregistering, Registering
<1>6. Cardinality(Held) = 0
  BY <1>1, FS_EmptySet DEF Held
<1> QED
  BY <1>1, <1>4, <1>5, <1>6 DEF MapInv

LEMMA MapTyped ==
    ASSUME Inv
    PROVE  /\ heap \in Seq(ObjectSet) /\ Len(heap) \in Nat
           /\ connections \in [Users -> 0 .. Len(heap)]
           /\ registeredChanInternal \in Seq(Lines) /\ unregisteredChanInternal \in Seq(Lines)
           /\ reg.at = "add" => reg.l \in Lines /\ reg.o \in 1 .. Len(heap)
           /\ unreg.at \in {"remove", "close", "delete"} =>
                 unreg.l \in Lines /\ unreg.o \in 1 .. Len(heap)
           /\ \A l \in Lines : UserOf[l] \in Users
<1>1. Typed
  BY DEF Inv
<1>2. \A l \in Lines : UserOf[l] \in Users
  BY SseHubAssumption
<1> QED
  BY <1>1, <1>2 DEF Typed

Removing == {"remove", "close", "delete"}

(* A step that changes neither the map nor a queue.                         *)
LEMMA MapSame ==
    ASSUME Inv, MapInv,
           UNCHANGED <<registeredChanInternal, unregisteredChanInternal, connections, heap,
                       connCount, added, left>>,
           reg' = reg \/ (reg.at # "add" /\ reg'.at # "add"),
           unreg' = unreg \/ (unreg.at \notin Removing /\ unreg'.at \notin Removing),
           hasty \subseteq hasty', HubClosed => HubClosed',
           isClosed' \in [Lines -> BOOLEAN],
           \A l \in Lines : isClosed'[l] => line'[l] \in After,
           \A l \in Lines : line[l] = "ended" => line'[l] = "ended",
           \A l \in Lines : line'[l] = "ended" => line[l] = "ended" \/ HubClosed',
           \A l \in Lines : line[l] \in Before =>
                               line'[l] \in Before \/ HubClosed'
    PROVE  MapInv'
<1>1. \A l : /\ Waits(l)' <=> Waits(l)
             /\ Registering(l)' <=> Registering(l)
             /\ Queued(l)' <=> Queued(l)
             /\ Unregistering(l)' <=> Unregistering(l)
             /\ Removed(l)' <=> Removed(l)
             /\ Leaving(l)' <=> Leaving(l)
  <2>1. \A l : (Waits(l)' <=> Waits(l)) /\ (Queued(l)' <=> Queued(l))
    BY DEF Waits, Queued
  <2>2. \A l : Registering(l)' <=> Registering(l)
    BY DEF Registering
  <2>3. \A l : (Unregistering(l)' <=> Unregistering(l)) /\ (Removed(l)' <=> Removed(l))
    BY DEF Unregistering, Removed, Removing
  <2>4. \A l : (Leaving(l) <=> Queued(l) \/ Unregistering(l))
               /\ (Leaving(l)' <=> Queued(l)' \/ Unregistering(l)')
    BY DEF Leaving, Queued, Unregistering
  <2> QED
    BY <2>1, <2>2, <2>3, <2>4
<1>2. Owned' /\ QueueOnce'
  BY DEF MapInv, Owned, QueueOnce, Removing
<1>3. \A l \in Lines : Ends(l)'
  BY <1>1 DEF MapInv, Ends
<1>4. ASSUME ~HubClosed', NEW l \in Lines, UserOf[l] \notin hasty' PROVE Served(l)'
  <2>1. Served(l)
    BY <1>4 DEF MapInv
  <2> QED
    <3>1. In(l, connections[UserOf[l]])' <=> In(l, connections[UserOf[l]])
      BY DEF In
    <3>2. Registering(l) => reg' = reg
      BY DEF Registering
    <3> QED
      BY <1>1, <1>4, <2>1, <3>1, <3>2 DEF Served
<1>5. Held' = Held
  BY <1>1 DEF Held
<1>6. ~HubClosed' /\ hasty' = {} => connCount' = Cardinality(Held')
  BY <1>5 DEF MapInv
<1> QED
  BY <1>2, <1>3, <1>4, <1>6 DEF MapInv

LEMMA GoroutineMap ==
    ASSUME Inv, MapInv, NEW l \in Lines,
           \/ Start(l) \/ Loop(l)
           \/ TakeMessage(l) \/ TakeTick(l) \/ TakeClose(l) \/ TakeDone(l)
           \/ closeTest(l) \/ closeReport(l) \/ notifyClose(l)
    PROVE  MapInv'
<1>1. PICK at \in LineSet \ {"new"} :
         /\ line' = [line EXCEPT ![l] = at] /\ line[l] \notin {"new", "ended"}
         /\ at = "ended" => (line[l] = "loop" /\ isClosed[l]) \/ HubClosed
         /\ line[l] \in Before => at \in Before \/ HubClosed
         /\ line[l] \in After => at \in After
         /\ \/ isClosed' = isClosed
            \/ at \in After /\ isClosed' = [isClosed EXCEPT ![l] = TRUE]
         /\ UNCHANGED <<registeredChanInternal, unregisteredChanInternal, mapVars, reg, unreg,
                        closing, history>>
  BY DEF Start, Loop, Leaves, TakeMessage, TakeTick, TakeClose, TakeDone, closeTest, closeReport,
         notifyClose, Goes, queues, HubClosed, ChansClosed
<1>2. /\ line'[l] = at /\ \A k \in Lines : k # l => line'[k] = line[k]
  BY <1>1 DEF Inv, Typed
<1>3. /\ isClosed' \in [Lines -> BOOLEAN]
      /\ \A k \in Lines : k # l => isClosed'[k] = isClosed[k]
      /\ at \in After \/ isClosed'[l] = isClosed[l]
  BY <1>1 DEF MapInv
<1>4. isClosed[l] => line[l] \in After
  BY DEF MapInv, Ends
<1>5. \A k \in Lines : isClosed'[k] => line'[k] \in After
  BY <1>1, <1>2, <1>3, <1>4 DEF MapInv, Ends
<1>6. HubClosed' <=> HubClosed
  BY <1>1 DEF HubClosed
<1>7. /\ \A k \in Lines : line[k] = "ended" => line'[k] = "ended"
      /\ \A k \in Lines : line'[k] = "ended" => line[k] = "ended" \/ HubClosed'
      /\ \A k \in Lines : line[k] \in Before => line'[k] \in Before \/ HubClosed'
  BY <1>1, <1>2, <1>4, <1>6
<1> QED
  BY <1>1, <1>3, <1>5, <1>6, <1>7, MapSame DEF mapVars, history

(* What the application is told, and what it reads.                         *)
LEMMA TellMap ==
    ASSUME Inv, MapInv, RegisterTell \/ UnregisterTell \/ AppReads PROVE MapInv'
<1>1. UNCHANGED <<lineVars, registeredChanInternal, unregisteredChanInternal, mapVars, closing,
                  history>>
  BY DEF RegisterTell, UnregisterTell, AppReads
<1>2. /\ reg' = reg \/ (reg.at # "add" /\ reg'.at # "add")
      /\ unreg' = unreg \/ (unreg.at \notin Removing /\ unreg'.at \notin Removing)
  BY IdleTyped, ToldTyped DEF RegisterTell, UnregisterTell, AppReads, Removing
<1>3. isClosed' \in [Lines -> BOOLEAN] /\ \A k \in Lines : isClosed'[k] => line'[k] \in After
  BY <1>1 DEF MapInv, Ends, lineVars
<1> QED
  BY <1>1, <1>2, <1>3, MapSame DEF lineVars, mapVars, history, HubClosed

(* Serve, the operations, and the first two steps of Close.                 *)
LEMMA ElseMap ==
    ASSUME Inv, MapInv,
           \/ \E l \in Lines : Serve(l)
           \/ \E s \in Senders : Begin(s)
           \/ \E a \in Actors : Operates(a)
           \/ Close \/ CloseRange
           \/ UNCHANGED vars
    PROVE  MapInv'
<1>1. /\ UNCHANGED <<isClosed, queues, mapVars, reg, unreg, added, left>>
      /\ hasty \subseteq hasty'
  BY DEF Serve, Begin, Operates, RLock, Iterate, PushMessage, Close, CloseRange, vars, lineVars,
         history
<1>2. closing.at # "open" => closing'.at # "open"
  <2>1. closing' = closing \/ closing'.at \in {"range", "clear"}
    BY DEF Serve, Begin, Operates, RLock, Iterate, PushMessage, Close, CloseRange, vars,
           Inv, Typed, ClosingSet
  <2> QED
    BY <2>1
<1>3. line' = line \/ \E l \in Lines : line[l] = "new" /\ line' = [line EXCEPT ![l] = "start"]
  BY DEF Serve, Begin, Operates, RLock, Iterate, PushMessage, Close, CloseRange, vars, lineVars
<1>4. \A k \in Lines : line'[k] = line[k] \/ (line[k] = "new" /\ line'[k] = "start")
  BY <1>3 DEF Inv, Typed
<1>5. isClosed' \in [Lines -> BOOLEAN]
  BY <1>1 DEF MapInv
<1>6. \A k \in Lines : isClosed'[k] => line'[k] \in After
  BY <1>1, <1>4 DEF MapInv, Ends
<1> QED
  BY <1>1, <1>2, <1>4, <1>5, <1>6, MapSame DEF queues, mapVars, HubClosed

(* The later steps of Close.                                                *)
LEMMA CloseMap ==
    ASSUME Inv, Inv', MapInv, CloseClear \/ CloseLock \/ CloseChans PROVE MapInv'
<1>1. UNCHANGED <<line, isClosed, queues, connCount, added, left, hasty>>
  BY DEF CloseClear, CloseLock, CloseChans, lineVars, mapVars, history
<1>2. HubClosed'
  <2>1. closing \in ClosingSet
    BY DEF Inv, Typed
  <2>2. CASE CloseClear
    BY <2>1, <2>2 DEF CloseClear, HubClosed, ClosingSet
  <2>3. CASE CloseLock
    BY <2>1, <2>3 DEF CloseLock, HubClosed, ClosingSet
  <2>4. CASE CloseChans
    BY <2>4 DEF CloseChans, HubClosed
  <2> QED
    BY <2>2, <2>3, <2>4
<1>3. reg' = reg /\ unreg' = unreg
  BY DEF CloseClear, CloseLock, CloseChans
<1>4. /\ Len(heap') = Len(heap)
      /\ \A o \in 1 .. Len(heap) : heap'[o].lines = heap[o].lines /\ heap'[o].user = heap[o].user
      /\ \A u \in Users : connections'[u] \in {0, connections[u]}
  <2>1. CASE CloseLock
    <3>1. PICK o \in closing.todo : heap' = [heap EXCEPT ![o].count = 0]
      BY <2>1 DEF CloseLock
    <3>2. connections' = connections
      BY <2>1 DEF CloseLock
    <3> QED
      BY <3>1, <3>2, MapTyped DEF ObjectSet
  <2>2. CASE CloseClear
    BY <2>2, MapTyped DEF CloseClear
  <2>3. CASE CloseChans
    BY <2>3, MapTyped DEF CloseChans, mapVars
  <2> QED
    BY <2>1, <2>2, <2>3
<1>5. Owned'
  <2>1. Owned
    BY DEF MapInv
  <2>2. \A u \in Users : connections'[u] # 0 => heap'[connections'[u]].user = u
    BY <1>4, <2>1, MapTyped DEF Owned
  <2>3. \A l \in Lines, o \in 1 .. Len(heap') : l \in heap'[o].lines => heap'[o].user = UserOf[l]
    BY <1>4, <2>1 DEF Owned
  <2>4. reg'.at = "add" => heap'[reg'.o].user = UserOf[reg'.l]
    BY <1>3, <1>4, <2>1, MapTyped DEF Owned
  <2>5. unreg'.at \in {"remove", "close", "delete"} => heap'[unreg'.o].user = UserOf[unreg'.l]
    BY <1>3, <1>4, <2>1, MapTyped DEF Owned
  <2> QED
    BY <2>2, <2>3, <2>4, <2>5 DEF Owned
<1>6. QueueOnce' /\ \A l : Queued(l)' <=> Queued(l)
  BY <1>1 DEF MapInv, QueueOnce, Queued, queues
<1>7. \A l : Unregistering(l)' => Unregistering(l)
  BY <1>3 DEF Unregistering
<1>8. \A l \in Lines : Ends(l)'
  <2>1. \A l : (Leaving(l) <=> Queued(l) \/ Unregistering(l))
               /\ (Leaving(l)' <=> Queued(l)' \/ Unregistering(l)')
    BY DEF Leaving, Queued, Unregistering
  <2> QED
    BY <1>1, <1>6, <1>7, <2>1 DEF MapInv, Ends
<1> QED
  BY <1>1, <1>2, <1>5, <1>6, <1>8 DEF MapInv

Among(k, q) == \E i \in 1 .. Len(q) : q[i] = k

LEMMA AppendedSet ==
    ASSUME NEW q \in Seq(Lines), NEW l \in Lines, NEW r, r = Append(q, l)
    PROVE  \A k : Among(k, r) <=> Among(k, q) \/ k = l
<1>1. /\ Len(r) = Len(q) + 1 /\ r[Len(r)] = l /\ Len(q) \in Nat
      /\ \A i \in 1 .. Len(q) : r[i] = q[i]
      /\ \A i \in 1 .. Len(r) : i \in 1 .. Len(q) \/ i = Len(r)
  BY Appended
<1>2. Len(r) \in 1 .. Len(r) /\ \A i \in 1 .. Len(q) : i \in 1 .. Len(r)
  BY <1>1
<1> QED
  BY <1>1, <1>2 DEF Among

Distinct(q) == \A i, j \in 1 .. Len(q) : q[i] = q[j] => i = j

LEMMA TakenSet ==
    ASSUME NEW q \in Seq(Lines), q # <<>>, NEW r, r = Tail(q), Distinct(q)
    PROVE  /\ Head(q) \in Lines /\ Among(Head(q), q)
           /\ \A k : Among(k, r) <=> Among(k, q) /\ k # Head(q)
           /\ Distinct(r)
<1>1. /\ Head(q) = q[1] /\ q[1] \in Lines
      /\ Len(q) \in Nat /\ Len(q) # 0 /\ Len(r) = Len(q) - 1
      /\ \A i \in 1 .. Len(r) : r[i] = q[i + 1]
  BY Taken
<1>2. 1 \in 1 .. Len(q) /\ \A i \in 1 .. Len(r) : i + 1 \in 2 .. Len(q) /\ i + 1 \in 1 .. Len(q)
  BY <1>1
<1>3. ASSUME NEW k PROVE (\E i \in 1 .. Len(r) : r[i] = k) =>
                            (\E i \in 1 .. Len(q) : q[i] = k) /\ k # Head(q)
  BY <1>1, <1>2 DEF Distinct
<1>4. ASSUME NEW i \in 1 .. Len(q), q[i] # Head(q) PROVE \E j \in 1 .. Len(r) : r[j] = q[i]
  <2>1. i - 1 \in 1 .. Len(r) /\ (i - 1) + 1 = i
    BY <1>1, <1>4
  <2> QED
    BY <1>1, <2>1
<1>5. ASSUME NEW i \in 1 .. Len(r), NEW j \in 1 .. Len(r), r[i] = r[j] PROVE i = j
  BY <1>1, <1>2, <1>5 DEF Distinct
<1>6. Distinct(r)
  BY <1>5 DEF Distinct
<1>7. Among(Head(q), q)
  BY <1>1, <1>2 DEF Among
<1>8. \A k : Among(k, r) <=> Among(k, q) /\ k # Head(q)
  BY <1>3, <1>4 DEF Among
<1> QED
  BY <1>1, <1>6, <1>7, <1>8

(* Line.start.                                                              *)
LEMMA RegisterMap == ASSUME Inv, MapInv, NEW l \in Lines, Register(l) PROVE MapInv'
<1>1. /\ UNCHANGED <<isClosed, unregisteredChanInternal, mapVars, reg, unreg, closing, history>>
      /\ line[l] = "register"
  BY DEF Register
<1>2. PICK at \in {"loop", "ended"} :
         /\ line' = [line EXCEPT ![l] = at]
         /\ \/ at = "ended" /\ HubClosed /\ registeredChanInternal' = registeredChanInternal
            \/ at = "loop" /\ registeredChanInternal' = Append(registeredChanInternal, l)
  BY DEF Register, Goes, HubClosed, ChansClosed
<1>3. /\ \A k \in Lines : k # l => line'[k] = line[k]
      /\ line'[l] = at /\ (HubClosed' <=> HubClosed)
      /\ isClosed' \in [Lines -> BOOLEAN] /\ ~isClosed[l]
  BY <1>1, <1>2 DEF Inv, Typed, MapInv, Ends, HubClosed
<1>4. CASE at = "ended"
  <2>1. \A k \in Lines : isClosed'[k] => line'[k] \in After
    BY <1>1, <1>3 DEF MapInv, Ends
  <2> QED
    BY <1>1, <1>2, <1>3, <1>4, <2>1, MapSame DEF mapVars, history
<1>5. CASE at = "loop" /\ registeredChanInternal' = Append(registeredChanInternal, l)
  <2>1. \A k : Waits(k)' <=> Waits(k) \/ k = l
    <3>1. PICK q, r : q = registeredChanInternal /\ r = registeredChanInternal'
      OBVIOUS
    <3>2. q \in Seq(Lines) /\ r = Append(q, l)
      BY <1>5, <3>1, MapTyped
    <3>3. \A k : Among(k, r) <=> Among(k, q) \/ k = l
      BY <3>2, AppendedSet
    <3> QED
      BY <3>1, <3>3 DEF Waits, Among
  <2>2. \A k : /\ Registering(k)' <=> Registering(k)
               /\ Queued(k)' <=> Queued(k)
               /\ Unregistering(k)' <=> Unregistering(k)
               /\ Removed(k)' <=> Removed(k)
               /\ Leaving(k)' <=> Leaving(k)
               /\ \A o : In(k, o)' <=> In(k, o)
    BY <1>1 DEF Registering, Queued, Unregistering, Removed, Leaving, In, mapVars
  <2>3. Owned' /\ QueueOnce'
    BY <1>1 DEF MapInv, Owned, QueueOnce, mapVars
  <2>4. \A k \in Lines : Ends(k)'
    BY <1>1, <1>3, <1>5, <2>2 DEF MapInv, Ends, history
  <2>5. ASSUME ~HubClosed', NEW k \in Lines, UserOf[k] \notin hasty' PROVE Served(k)'
    <3>1. Served(k)
      BY <1>1, <1>3, <2>5 DEF MapInv, history
    <3>2. In(k, connections[UserOf[k]])' <=> In(k, connections[UserOf[k]])
      BY <1>1 DEF In, mapVars
    <3> QED
      BY <1>1, <1>3, <1>5, <2>1, <2>2, <3>1, <3>2 DEF Served, mapVars, history
  <2>6. Held' = Held
    BY <1>1, <2>2 DEF Held, history
  <2> QED
    BY <1>1, <1>3, <2>3, <2>4, <2>5, <2>6 DEF MapInv, mapVars, history
<1> QED
  BY <1>2, <1>4, <1>5

(* The line is queued for unregistration, for the only time.                *)
LEMMA UnregisterMap == ASSUME Inv, MapInv, NEW l \in Lines, Unregister(l) PROVE MapInv'
<1>1. /\ UNCHANGED <<isClosed, registeredChanInternal, mapVars, reg, unreg, closing, added, left>>
      /\ line[l] = "unregister" /\ line' = [line EXCEPT ![l] = "ended"] /\ hasty \subseteq hasty'
      /\ \/ unregisteredChanInternal' = unregisteredChanInternal /\ HubClosed
         \/ unregisteredChanInternal' = Append(unregisteredChanInternal, l)
  BY DEF Unregister, Goes, HubClosed, ChansClosed
<1>2. /\ \A k \in Lines : k # l => line'[k] = line[k]
      /\ line'[l] = "ended" /\ (HubClosed' <=> HubClosed)
      /\ isClosed' \in [Lines -> BOOLEAN]
  BY <1>1 DEF Inv, Typed, MapInv, HubClosed
<1>3. \A k \in Lines : isClosed'[k] => line'[k] \in After
  BY <1>1, <1>2 DEF MapInv, Ends
<1>4. CASE unregisteredChanInternal' = unregisteredChanInternal /\ HubClosed
  BY <1>1, <1>2, <1>3, <1>4, MapSame DEF mapVars
<1>5. CASE unregisteredChanInternal' = Append(unregisteredChanInternal, l)
  <2>1. \A k : Queued(k)' <=> Queued(k) \/ k = l
    <3>1. PICK q, r : q = unregisteredChanInternal /\ r = unregisteredChanInternal'
      OBVIOUS
    <3>2. q \in Seq(Lines) /\ r = Append(q, l)
      BY <1>5, <3>1, MapTyped
    <3>3. \A k : Among(k, r) <=> Among(k, q) \/ k = l
      BY <3>2, AppendedSet
    <3> QED
      BY <3>1, <3>3 DEF Queued, Among
  <2>2. \A k : /\ Registering(k)' <=> Registering(k)
               /\ Waits(k)' <=> Waits(k)
               /\ Unregistering(k)' <=> Unregistering(k)
               /\ Removed(k)' <=> Removed(k)
               /\ \A o : In(k, o)' <=> In(k, o)
    BY <1>1 DEF Registering, Waits, Unregistering, Removed, In, mapVars
  <2>3. \A k : (Leaving(k) <=> Queued(k) \/ Unregistering(k))
               /\ (Leaving(k)' <=> Queued(k)' \/ Unregistering(k)')
    BY DEF Leaving, Queued, Unregistering
  <2>4. ~Queued(l) /\ ~Unregistering(l) /\ l \notin left
    BY <1>1, <2>3 DEF MapInv, Ends
  <2>5. Owned'
    BY <1>1 DEF MapInv, Owned, mapVars
  <2>6. QueueOnce'
    <3>1. PICK q : q = unregisteredChanInternal
      OBVIOUS
    <3>2. PICK r : r = unregisteredChanInternal'
      OBVIOUS
    <3>3. q \in Seq(Lines) /\ r = Append(q, l) /\ \A i \in 1 .. Len(q) : q[i] # l
      BY <1>5, <2>4, <3>1, <3>2, MapTyped DEF Queued
    <3>4. \A i, j \in 1 .. Len(q) : q[i] = q[j] => i = j
      BY <3>1 DEF MapInv, QueueOnce
    <3>5. /\ r[Len(r)] = l /\ \A i \in 1 .. Len(q) : r[i] = q[i]
          /\ \A i \in 1 .. Len(r) : i \in 1 .. Len(q) \/ i = Len(r)
      BY <3>3, Appended
    <3>6. \A i, j \in 1 .. Len(r) : r[i] = r[j] => i = j
      BY <3>3, <3>4, <3>5
    <3> QED
      BY <3>2, <3>6 DEF QueueOnce
  <2>7. \A k \in Lines : Ends(k)'
    BY <1>1, <1>2, <1>3, <2>1, <2>2, <2>3, <2>4 DEF MapInv, Ends
  <2>8. ASSUME ~HubClosed', NEW k \in Lines, UserOf[k] \notin hasty' PROVE Served(k)'
    <3>1. Served(k)
      BY <1>1, <1>2, <2>8 DEF MapInv
    <3>2. In(k, connections[UserOf[k]])' <=> In(k, connections[UserOf[k]])
      BY <1>1 DEF In, mapVars
    <3> QED
      BY <1>1, <1>2, <2>1, <2>2, <2>3, <3>1, <3>2 DEF Served, mapVars
  <2>9. Held' = Held
    BY <1>1, <2>2 DEF Held
  <2> QED
    BY <1>1, <1>2, <2>5, <2>6, <2>7, <2>8, <2>9 DEF MapInv, mapVars
<1> QED
  BY <1>1, <1>4, <1>5

(* The line gets its channels, and its user an object.                      *)
LEMMA RegisterTakeMap == ASSUME Inv, Inv', MapInv, RegisterTake PROVE MapInv'
<1>1. PICK l, u, o :
         /\ l = Head(registeredChanInternal) /\ u = UserOf[l]
         /\ o = IF connections[u] = 0 THEN Len(heap) + 1 ELSE connections[u]
         /\ registeredChanInternal # <<>>
         /\ registeredChanInternal' = Tail(registeredChanInternal)
         /\ connections' = [connections EXCEPT ![u] = o]
         /\ heap' = IF o > Len(heap) THEN Append(heap, [lines |-> {}, count |-> 0, user |-> u])
                    ELSE heap
         /\ reg' = [Idle EXCEPT !.at = "add", !.o = o, !.l = l]
         /\ reg.at = "idle"
         /\ UNCHANGED <<line, isClosed, unregisteredChanInternal, connCount, unreg, closing,
                        history>>
  BY DEF RegisterTake, lineVars
<1>2. /\ l \in Lines /\ u \in Users
      /\ \A k : Waits(k)' <=> Waits(k) /\ k # l
  <2>1. PICK q, r : q = registeredChanInternal /\ r = registeredChanInternal'
    OBVIOUS
  <2>2. /\ q \in Seq(Lines) /\ q # <<>> /\ r = Tail(q) /\ l = Head(q)
        /\ Distinct(q)
    <3>1. WaitOnce
      BY DEF Inv
    <3> QED
      BY <1>1, <2>1, <3>1, MapTyped DEF WaitOnce, Distinct
  <2>3. /\ Head(q) \in Lines
        /\ \A k : Among(k, r) <=> Among(k, q) /\ k # Head(q)
    BY <2>2, TakenSet
  <2> QED
    BY <1>1, <2>1, <2>2, <2>3, MapTyped DEF Waits, Among
<1>3. /\ Len(heap') \in Nat /\ Len(heap) <= Len(heap') /\ o \in 1 .. Len(heap')
      /\ \A p \in 1 .. Len(heap) : heap'[p] = heap[p]
      /\ \A p \in 1 .. Len(heap') : p \in 1 .. Len(heap) \/ heap'[p].lines = {}
      /\ heap'[o].user = u
  <2>1. connections[u] \in 0 .. Len(heap)
    BY <1>2, MapTyped
  <2>2. CASE connections[u] = 0
    <3>1. PICK j : j = [lines |-> {}, count |-> 0, user |-> u]
      OBVIOUS
    <3>2. j \in ObjectSet /\ j.lines = {} /\ j.user = u
      BY <1>2, <3>1 DEF ObjectSet
    <3>3. heap' = Append(heap, j) /\ o = Len(heap) + 1
      BY <1>1, <2>2, <3>1, MapTyped
    <3> QED
      BY <3>2, <3>3, MapTyped
  <2>3. CASE connections[u] # 0
    <3>1. heap' = heap /\ o = connections[u]
      BY <1>1, <2>1, <2>3, MapTyped
    <3> QED
      BY <1>2, <2>1, <2>3, <3>1, MapTyped DEF MapInv, Owned
  <2> QED
    BY <2>2, <2>3
<1>4. /\ reg'.at = "add" /\ reg'.l = l /\ reg'.o = o
      /\ connections'[u] = o /\ \A v \in Users : v # u => connections'[v] = connections[v]
      /\ connections[u] # 0 => o = connections[u]
  BY <1>1, <1>2, MapTyped, IdleTyped DEF OpSet
<1>5. \A k, p : In(k, p)' <=> In(k, p)
  BY <1>3, MapTyped DEF In
<1>6. \A k : /\ Registering(k)' <=> k = l
             /\ ~Registering(k)
             /\ Queued(k)' <=> Queued(k)
             /\ Unregistering(k)' <=> Unregistering(k)
             /\ Removed(k)' <=> Removed(k)
             /\ Leaving(k)' <=> Leaving(k)
  BY <1>1, <1>4 DEF Registering, Queued, Unregistering, Removed, Leaving
<1>7. Owned'
  <2>1. Owned
    BY DEF MapInv
  <2>2. \A v \in Users : connections'[v] # 0 => heap'[connections'[v]].user = v
    <3> SUFFICES ASSUME NEW v \in Users, v # u, connections'[v] # 0
                 PROVE  heap'[connections'[v]].user = v
      BY <1>3, <1>4
    <3>1. connections'[v] = connections[v] /\ connections[v] \in 1 .. Len(heap)
      BY <1>4, MapTyped
    <3> QED
      BY <1>3, <2>1, <3>1 DEF Owned
  <2>3. \A k \in Lines, p \in 1 .. Len(heap') : k \in heap'[p].lines => heap'[p].user = UserOf[k]
    BY <1>3, <2>1 DEF Owned
  <2>4. reg'.at = "add" => heap'[reg'.o].user = UserOf[reg'.l]
    BY <1>1, <1>3, <1>4
  <2>5. unreg'.at \in {"remove", "close", "delete"} => heap'[unreg'.o].user = UserOf[unreg'.l]
    BY <1>1, <1>3, <2>1, MapTyped DEF Owned
  <2> QED
    BY <2>2, <2>3, <2>4, <2>5 DEF Owned
<1>8. QueueOnce' /\ \A k \in Lines : Ends(k)'
  BY <1>1, <1>6 DEF MapInv, QueueOnce, Ends, history
<1>9. ASSUME ~HubClosed', NEW k \in Lines, UserOf[k] \notin hasty' PROVE Served(k)'
  <2>1. Served(k)
    BY <1>1, <1>9 DEF MapInv, HubClosed, history
  <2>2. In(k, connections[UserOf[k]]) => In(k, connections[UserOf[k]])'
    <3> SUFFICES ASSUME In(k, connections[UserOf[k]]) PROVE In(k, connections[UserOf[k]])'
      OBVIOUS
    <3>1. connections[UserOf[k]] # 0
      BY DEF In
    <3>2. connections'[UserOf[k]] = connections[UserOf[k]]
      BY <1>4, <3>1, MapTyped
    <3> QED
      BY <1>3, <3>2, MapTyped DEF In
  <2> QED
    BY <1>1, <1>2, <1>4, <1>6, <2>1, <2>2 DEF Served, history
<1>10. Held' = Held
  BY <1>1, <1>6 DEF Held, history
<1> QED
  BY <1>1, <1>7, <1>8, <1>9, <1>10 DEF MapInv, HubClosed, history

(* The line is added to the object that the map has.                        *)
LEMMA addMap == ASSUME Inv, Inv', MapInv, add PROVE MapInv'
<1>1. PICK l, o :
         /\ l = reg.l /\ o = reg.o /\ reg.at = "add"
         /\ heap' = [heap EXCEPT ![o].lines = @ \union {l}, ![o].count = @ + 1]
         /\ connCount' = connCount + 1 /\ added' = added \union {l} /\ reg' = [Idle EXCEPT !.at = "tell"]
         /\ UNCHANGED <<line, isClosed, queues, connections, unreg, closing, left, hasty>>
  BY DEF add, lineVars
<1>2. l \in Lines /\ o \in 1 .. Len(heap) /\ reg'.at = "tell"
  BY <1>1, MapTyped, ToldTyped
<1>3. /\ Len(heap') = Len(heap)
      /\ \A p \in 1 .. Len(heap) : p # o => heap'[p] = heap[p]
      /\ heap'[o].lines = heap[o].lines \union {l} /\ heap'[o].user = heap[o].user
  BY <1>1, <1>2, MapTyped DEF ObjectSet
<1>4. \A k, p : In(k, p)' <=> In(k, p) \/ (k = l /\ p = o)
  BY <1>2, <1>3 DEF In
<1>5. \A k : /\ Registering(k) <=> k = l
             /\ ~Registering(k)'
             /\ Waits(k)' <=> Waits(k)
             /\ Queued(k)' <=> Queued(k)
             /\ Unregistering(k)' <=> Unregistering(k)
             /\ Removed(k)' <=> Removed(k)
             /\ Leaving(k)' <=> Leaving(k)
  BY <1>1, <1>2 DEF Registering, Waits, Queued, Unregistering, Removed, Leaving, queues
<1>6. Owned'
  <2>1. Owned
    BY DEF MapInv
  <2>2. \A v \in Users : connections'[v] # 0 => heap'[connections'[v]].user = v
    BY <1>1, <1>3, <2>1, MapTyped DEF Owned
  <2>3. \A k \in Lines, p \in 1 .. Len(heap') : k \in heap'[p].lines => heap'[p].user = UserOf[k]
    BY <1>1, <1>2, <1>3, <2>1 DEF Owned
  <2>4. unreg'.at \in {"remove", "close", "delete"} => heap'[unreg'.o].user = UserOf[unreg'.l]
    BY <1>1, <1>3, <2>1, MapTyped DEF Owned
  <2> QED
    BY <1>2, <2>2, <2>3, <2>4 DEF Owned
<1>7. QueueOnce' /\ \A k \in Lines : Ends(k)'
  BY <1>1, <1>5 DEF MapInv, QueueOnce, Ends, queues
<1>8. HubClosed' <=> HubClosed
  BY <1>1 DEF HubClosed
<1>9. ASSUME ~HubClosed', NEW k \in Lines, UserOf[k] \notin hasty' PROVE Served(k)'
  <2>1. Served(k)
    BY <1>1, <1>8, <1>9 DEF MapInv
  <2>2. \A p : In(k, p) => In(k, p)'
    BY <1>4
  <2>3. k = l => In(k, connections[UserOf[k]])'
    BY <1>1, <1>2, <1>3, <1>5, <2>1 DEF Served, In
  <2>4. In(k, connections[UserOf[k]]) => In(k, connections[UserOf[k]])'
    BY <1>1, <2>2 DEF In
  <2> QED
    BY <1>1, <1>5, <2>1, <2>3, <2>4 DEF Served
<1>10. ASSUME ~HubClosed', hasty' = {} PROVE connCount' = Cardinality(Held')
  <2>1. l \notin added /\ ~Removed(l) /\ l \notin left
    <3>1. Calm(l) /\ Once(l)
      BY <1>1, <1>2, <1>10 DEF Inv
    <3>2. Removed(l) => Leaving(l)
      BY DEF Removed, Leaving
    <3> QED
      BY <1>5, <3>1, <3>2 DEF Calm, Once
  <2>2. Held' = Held \union {l} /\ l \notin Held
    BY <1>1, <1>2, <1>5, <2>1 DEF Held
  <2>3. IsFiniteSet(Held)
    BY SseHubAssumption, FS_Subset DEF Held
  <2>4. Cardinality(Held') = Cardinality(Held) + 1
    BY <2>2, <2>3, FS_AddElement
  <2>5. connCount = Cardinality(Held)
    BY <1>1, <1>8, <1>10 DEF MapInv
  <2> QED
    BY <1>1, <2>4, <2>5
<1>11. isClosed' \in [Lines -> BOOLEAN] /\ connCount' \in Int
  BY <1>1 DEF MapInv
<1> QED
  BY <1>6, <1>7, <1>9, <1>10, <1>11 DEF MapInv

(* The user of a line that leaves is in the map.                            *)
LEMMA UnregisterTakeMap == ASSUME Inv, Inv', MapInv, UnregisterTake PROVE MapInv'
<1>1. PICK l, o :
         /\ l = Head(unregisteredChanInternal) /\ o = connections[UserOf[l]]
         /\ unreg.at = "idle" /\ unregisteredChanInternal # <<>>
         /\ unregisteredChanInternal' = Tail(unregisteredChanInternal)
         /\ unreg' = IF o = 0 THEN Idle ELSE [Idle EXCEPT !.at = "remove", !.o = o, !.l = l]
         /\ UNCHANGED <<line, isClosed, registeredChanInternal, mapVars, reg, closing, history>>
  BY DEF UnregisterTake, lineVars
<1>2. /\ l \in Lines /\ Queued(l) /\ QueueOnce'
      /\ \A k : Queued(k)' <=> Queued(k) /\ k # l
  <2>1. PICK q, r : q = unregisteredChanInternal /\ r = unregisteredChanInternal'
    OBVIOUS
  <2>2. q \in Seq(Lines) /\ q # <<>> /\ r = Tail(q) /\ l = Head(q) /\ Distinct(q)
    <3>1. QueueOnce
      BY DEF MapInv
    <3> QED
      BY <1>1, <2>1, <3>1, MapTyped DEF QueueOnce, Distinct
  <2>3. /\ Head(q) \in Lines /\ Among(Head(q), q) /\ Distinct(r)
        /\ \A k : Among(k, r) <=> Among(k, q) /\ k # Head(q)
    BY <2>2, TakenSet
  <2> QED
    BY <2>1, <2>2, <2>3 DEF Queued, Among, QueueOnce, Distinct
<1>3. /\ o = 0 => unreg'.at = "idle"
      /\ o # 0 => unreg'.at = "remove" /\ unreg'.l = l /\ unreg'.o = o
  BY <1>1, IdleTyped DEF OpSet
<1>4. \A k : /\ Registering(k)' <=> Registering(k)
             /\ Waits(k)' <=> Waits(k)
             /\ ~Unregistering(k) /\ ~Removed(k) /\ ~Removed(k)'
             /\ Unregistering(k)' <=> k = l /\ o # 0
             /\ \A p : In(k, p)' <=> In(k, p)
  BY <1>1, <1>3 DEF Registering, Waits, Unregistering, Removed, In, mapVars
<1>5. \A k : (Leaving(k) <=> Queued(k) \/ Unregistering(k))
             /\ (Leaving(k)' <=> Queued(k)' \/ Unregistering(k)')
  BY DEF Leaving, Queued, Unregistering
<1>6. Owned'
  <2>1. Owned
    BY DEF MapInv
  <2>2. o # 0 => heap[o].user = UserOf[l]
    BY <1>1, <1>2, <2>1, MapTyped DEF Owned
  <2> QED
    BY <1>1, <1>3, <2>1, <2>2 DEF Owned, mapVars
<1>7. \A k \in Lines : Ends(k)'
  BY <1>1, <1>2, <1>4, <1>5 DEF MapInv, Ends, history
<1>8. HubClosed' <=> HubClosed
  BY <1>1 DEF HubClosed
<1>9. ASSUME ~HubClosed', NEW k \in Lines, UserOf[k] \notin hasty' PROVE Served(k)'
  <2>1. Served(k)
    BY <1>1, <1>8, <1>9 DEF MapInv, history
  <2>2. k = l => o # 0
    <3>1. Calm(k)
      BY <1>1, <1>9 DEF Inv, history
    <3>2. k = l => k \in added /\ ~Removed(k) /\ k \notin left
      BY <1>2, <1>4, <1>5, <3>1 DEF Calm, MapInv, Ends
    <3> QED
      BY <1>1, <2>1, <3>2 DEF Served, In
  <2>3. Leaving(k) => Leaving(k)'
    BY <1>2, <1>4, <1>5, <2>2
  <2>4. In(k, connections[UserOf[k]])' <=> In(k, connections[UserOf[k]])
    BY <1>1 DEF In, mapVars
  <2> QED
    BY <1>1, <1>4, <2>1, <2>3, <2>4 DEF Served, mapVars, history
<1>10. Held' = Held
  BY <1>1, <1>4 DEF Held, history
<1> QED
  BY <1>1, <1>2, <1>6, <1>7, <1>8, <1>9, <1>10 DEF MapInv, mapVars, history

(* No other line of the user is there or on its way.                        *)
LEMMA Alone ==
    ASSUME Inv, MapInv, NEW l \in Lines, NEW k \in Lines, Unregistering(l), k # l,
           UserOf[k] = UserOf[l], UserOf[k] \notin hasty, k \notin left
    PROVE  k \notin added /\ ~Registering(k)
<1>1. Calm(l) /\ Once(k) /\ Ends(l)
  BY DEF Inv, MapInv
<1>2. Leaving(l) /\ l \notin left /\ line[l] = "ended"
  BY <1>1 DEF Leaving, Unregistering, Ends
<1>3. line[k] = "new"
  BY <1>1, <1>2 DEF Calm
<1> QED
  BY <1>1, <1>3 DEF Once

LEMMA removeMap == ASSUME Inv, Inv', MapInv, remove PROVE MapInv'
<1>1. PICK l, o :
         /\ l = unreg.l /\ o = unreg.o /\ unreg.at = "remove"
         /\ heap' = [heap EXCEPT ![o].lines = {k \in @ : IdOf[k] # IdOf[l]}, ![o].count = @ - 1]
         /\ connCount' = connCount - 1 /\ unreg' = [unreg EXCEPT !.at = "close"]
         /\ UNCHANGED <<line, isClosed, queues, connections, reg, closing, history>>
  BY DEF remove, lineVars
<1>2. /\ l \in Lines /\ o \in 1 .. Len(heap)
      /\ unreg'.at = "close" /\ unreg'.l = l /\ unreg'.o = o
  BY <1>1, MapTyped DEF Inv, Typed, OpSet
<1>3. /\ Len(heap') = Len(heap)
      /\ \A p \in 1 .. Len(heap) : p # o => heap'[p] = heap[p]
      /\ heap'[o].lines = {k \in heap[o].lines : IdOf[k] # IdOf[l]}
      /\ heap'[o].user = heap[o].user
  BY <1>1, <1>2, MapTyped DEF ObjectSet
<1>4. \A k, p : In(k, p)' <=> In(k, p) /\ (p = o => IdOf[k] # IdOf[l])
  BY <1>2, <1>3 DEF In
<1>5. \A k : /\ Registering(k)' <=> Registering(k)
             /\ Waits(k)' <=> Waits(k)
             /\ Queued(k)' <=> Queued(k)
             /\ (Unregistering(k) <=> k = l) /\ (Unregistering(k)' <=> k = l)
             /\ ~Removed(k) /\ (Removed(k)' <=> k = l)
             /\ Leaving(k)' <=> Leaving(k)
  BY <1>1, <1>2 DEF Registering, Waits, Queued, Unregistering, Removed, Leaving, queues
<1>6. Owned'
  <2>1. Owned
    BY DEF MapInv
  <2>2. \A v \in Users : connections'[v] # 0 => heap'[connections'[v]].user = v
    BY <1>1, <1>3, <2>1, MapTyped DEF Owned
  <2>3. \A k \in Lines, p \in 1 .. Len(heap') : k \in heap'[p].lines => heap'[p].user = UserOf[k]
    BY <1>2, <1>3, <2>1 DEF Owned
  <2>4. reg'.at = "add" => heap'[reg'.o].user = UserOf[reg'.l]
    BY <1>1, <1>3, <2>1, MapTyped DEF Owned
  <2>5. heap'[o].user = UserOf[l]
    BY <1>1, <1>3, <2>1 DEF Owned
  <2> QED
    BY <1>2, <2>2, <2>3, <2>4, <2>5 DEF Owned
<1>7. QueueOnce' /\ \A k \in Lines : Ends(k)'
  BY <1>1, <1>5 DEF MapInv, QueueOnce, Ends, queues, history
<1>8. HubClosed' <=> HubClosed
  BY <1>1 DEF HubClosed
<1>9. ASSUME ~HubClosed', NEW k \in Lines, UserOf[k] \notin hasty' PROVE Served(k)'
  <2>1. Served(k)
    BY <1>1, <1>8, <1>9 DEF MapInv, history
  <2>2. ASSUME k \in added, k # l, k \notin left, In(k, connections[UserOf[k]])
        PROVE  In(k, connections[UserOf[k]])'
    <3>1. PICK p : p = connections[UserOf[k]]
      OBVIOUS
    <3>2. p # o
      <4>1. p = o => UserOf[k] = UserOf[l]
        BY <1>1, <2>2, <3>1, MapTyped DEF MapInv, Owned, In
      <4> QED
        BY <1>1, <1>2, <1>5, <1>9, <2>2, <4>1, Alone DEF history
    <3>3. In(k, p)'
      BY <1>4, <2>2, <3>1, <3>2
    <3> QED
      BY <1>1, <3>1, <3>3 DEF In
  <2> QED
    BY <1>1, <1>5, <2>1, <2>2 DEF Served, history
<1>10. ASSUME ~HubClosed', hasty' = {} PROVE connCount' = Cardinality(Held')
  <2>1. l \in added /\ l \notin left
    <3>1. Calm(l) /\ Ends(l)
      BY <1>1, <1>2, <1>10 DEF Inv, MapInv, history
    <3>2. Leaving(l)
      BY <1>1 DEF Leaving
    <3> QED
      BY <1>5, <3>1, <3>2 DEF Calm, Ends
  <2>2. Held' = Held \ {l} /\ l \in Held
    BY <1>1, <1>2, <1>5, <2>1 DEF Held, history
  <2>3. IsFiniteSet(Held)
    BY SseHubAssumption, FS_Subset DEF Held
  <2>4. Cardinality(Held') = Cardinality(Held) - 1
    BY <2>2, <2>3, FS_RemoveElement
  <2>5. connCount = Cardinality(Held)
    BY <1>1, <1>8, <1>10 DEF MapInv, history
  <2> QED
    BY <1>1, <2>4, <2>5
<1>11. isClosed' \in [Lines -> BOOLEAN] /\ connCount' \in Int
  BY <1>1 DEF MapInv
<1> QED
  BY <1>6, <1>7, <1>9, <1>10, <1>11 DEF MapInv

(* The loop is done with the line, or goes on to delete the user.           *)
LEMMA LeftMap ==
    ASSUME Inv, Inv', MapInv, UnregisterClose \/ UnregisterDelete PROVE MapInv'
<1>1. PICK l, o :
         /\ l = unreg.l /\ o = unreg.o /\ unreg.at \in {"close", "delete"}
         /\ \/ unreg' = [unreg EXCEPT !.at = "delete"] /\ left' = left
            \/ unreg' = [Idle EXCEPT !.at = "tell"] /\ left' = left \union {l}
         /\ \/ connections' = connections
            \/ connections' = [connections EXCEPT ![UserOf[l]] = 0]
         /\ UNCHANGED <<line, isClosed, queues, heap, connCount, reg, closing, added, hasty>>
  BY DEF UnregisterClose, UnregisterDelete, lineVars, mapVars
<1>2. /\ l \in Lines /\ o \in 1 .. Len(heap) /\ unreg \in OpSet
      /\ \A u \in Users : connections'[u] = connections[u] \/ (u = UserOf[l] /\ connections'[u] = 0)
  BY <1>1, MapTyped DEF Inv, Typed
<1>3. \/ unreg'.at = "delete" /\ unreg'.l = l /\ unreg'.o = o /\ left' = left
      \/ unreg'.at = "tell" /\ left' = left \union {l}
  BY <1>1, <1>2, ToldTyped DEF OpSet
<1>4. \A k : /\ Registering(k)' <=> Registering(k)
             /\ Waits(k)' <=> Waits(k)
             /\ Queued(k)' <=> Queued(k)
             /\ \A p : In(k, p)' <=> In(k, p)
  BY <1>1 DEF Registering, Waits, Queued, In, queues
<1>5. \A k : /\ (Unregistering(k) <=> k = l) /\ (Removed(k) <=> k = l)
             /\ Unregistering(k)' => k = l /\ left' = left
             /\ Removed(k)' \/ k \in left' <=> k = l \/ k \in left
             /\ Unregistering(k)' \/ k \in left' <=> k = l \/ k \in left
  <2>1. \A k : (Unregistering(k) <=> k = l) /\ (Removed(k) <=> k = l)
    BY <1>1 DEF Unregistering, Removed
  <2>2. CASE unreg'.at = "delete" /\ unreg'.l = l /\ unreg'.o = o /\ left' = left
    BY <2>1, <2>2 DEF Unregistering, Removed
  <2>3. CASE unreg'.at = "tell" /\ left' = left \union {l}
    <3>1. \A k : ~Unregistering(k)' /\ ~Removed(k)'
      BY <2>3 DEF Unregistering, Removed
    <3> QED
      BY <2>1, <2>3, <3>1
  <2> QED
    BY <1>3, <2>2, <2>3
<1>6. Owned'
  <2>1. Owned
    BY DEF MapInv
  <2>2. \A v \in Users : connections'[v] # 0 => heap'[connections'[v]].user = v
    BY <1>1, <1>2, <2>1 DEF Owned
  <2>3. unreg'.at \in {"remove", "close", "delete"} => heap'[unreg'.o].user = UserOf[unreg'.l]
    BY <1>1, <1>3, <2>1 DEF Owned
  <2> QED
    BY <1>1, <2>1, <2>2, <2>3 DEF Owned
<1>7. \A k : (Leaving(k) <=> Queued(k) \/ Unregistering(k))
             /\ (Leaving(k)' <=> Queued(k)' \/ Unregistering(k)')
  BY DEF Leaving, Queued, Unregistering
<1>8. QueueOnce' /\ \A k \in Lines : Ends(k)'
  <2>1. QueueOnce'
    BY <1>1 DEF MapInv, QueueOnce, queues
  <2>2. ASSUME NEW k \in Lines PROVE Ends(k)'
    <3>1. Ends(k)
      BY DEF MapInv
    <3>2. /\ Unregistering(k)' \/ k \in left' <=> k = l \/ k \in left
          /\ Unregistering(k)' => k = l /\ left' = left
          /\ Unregistering(k) <=> k = l
      BY <1>5
    <3>3. Leaving(k)' \/ k \in left' => Leaving(k) \/ k \in left
      BY <1>4, <1>7, <3>2
    <3>4. Queued(k)' => ~Unregistering(k)' /\ k \notin left'
      BY <1>4, <3>1, <3>2 DEF Ends
    <3>5. Unregistering(k)' => k \notin left'
      BY <3>1, <3>2 DEF Ends
    <3>6. isClosed'[k] => line'[k] \in After
      BY <1>1, <3>1 DEF Ends
    <3>7. Leaving(k)' \/ k \in left' => line'[k] = "ended"
      BY <1>1, <3>1, <3>3 DEF Ends
    <3> QED
      BY <3>4, <3>5, <3>6, <3>7 DEF Ends
  <2> QED
    BY <2>1, <2>2
<1>9. HubClosed' <=> HubClosed
  BY <1>1 DEF HubClosed
<1>10. ASSUME ~HubClosed', NEW k \in Lines, UserOf[k] \notin hasty' PROVE Served(k)'
  <2>1. Served(k) /\ Calm(k)
    BY <1>1, <1>9, <1>10 DEF Inv, MapInv
  <2>2. CASE k = l \/ k \in left
    <3>1. Once(k)
      BY DEF Inv
    <3>2. Leaving(k) \/ k \in left
      BY <1>5, <1>7, <2>2
    <3>3. k \in added /\ ~Registering(k)
      BY <2>1, <3>1, <3>2 DEF Calm, Once
    <3> QED
      BY <1>1, <1>4, <1>5, <1>7, <2>1, <2>2, <3>3 DEF Served
  <2>3. CASE k # l /\ k \notin left
    <3>1. connections'[UserOf[k]] = connections[UserOf[k]] \/ (k \notin added /\ ~Registering(k))
      BY <1>1, <1>2, <1>5, <1>10, <2>3, Alone, MapTyped
    <3>2. k \in added => In(k, connections[UserOf[k]])
      BY <1>5, <2>1, <2>3 DEF Served
    <3>3. k \in added => In(k, connections[UserOf[k]])'
      BY <1>1, <3>1, <3>2 DEF In
    <3>4. Registering(k)' => connections'[UserOf[k]] = reg'.o
      BY <1>1, <1>4, <2>1, <3>1 DEF Served
    <3>5. line'[k] = "ended" => Leaving(k)' \/ k \in left'
      BY <1>1, <1>4, <1>5, <1>7, <2>1, <2>3 DEF Served
    <3> QED
      BY <1>1, <1>4, <2>1, <3>3, <3>4, <3>5 DEF Served
  <2> QED
    BY <2>2, <2>3
<1>11. Held' = Held
  BY <1>1, <1>5 DEF Held
<1> QED
  BY <1>1, <1>6, <1>8, <1>9, <1>10, <1>11 DEF MapInv

LEMMA MapNext == Inv /\ Inv' /\ MapInv /\ [Next]_vars => MapInv'
<1> SUFFICES ASSUME Inv, Inv', MapInv, [Next]_vars PROVE MapInv'
  OBVIOUS
<1>1. CASE \E l \in Lines : Serve(l) \/ Runs(l) \/ Wakes(l) \/ TakeDone(l)
  <2>1. PICK l \in Lines : Serve(l) \/ Runs(l) \/ Wakes(l) \/ TakeDone(l)
    BY <1>1
  <2>2. CASE Serve(l)
    BY <2>2, ElseMap
  <2>3. CASE Runs(l)
    BY <2>3, RegisterMap, UnregisterMap, GoroutineMap DEF Runs
  <2>4. CASE Wakes(l) \/ TakeDone(l)
    BY <2>4, GoroutineMap DEF Wakes
  <2> QED
    BY <2>1, <2>2, <2>3, <2>4
<1>2. CASE RegisterLoop \/ UnregisterLoop \/ AppReads
  BY <1>2, RegisterTakeMap, addMap, UnregisterTakeMap, removeMap, LeftMap, TellMap
     DEF RegisterLoop, UnregisterLoop
<1>3. CASE Close \/ Closes
  BY <1>3, ElseMap, CloseMap DEF Closes
<1>4. CASE (\E s \in Senders : Begin(s)) \/ (\E a \in Actors : Operates(a)) \/ UNCHANGED vars
  BY <1>4, ElseMap
<1> QED
  BY <1>1, <1>2, <1>3, <1>4 DEF Next

(* At rest the map has every served line of a user who is not hasty, and    *)
(* the count is that of the lines served (hub.go, NewHub).                  *)
THEOREM SseMapIsExact == Spec => []MapIsExact
<1>1. Init => Inv /\ MapInv
  BY InitInv, MapInit
<1>2. (Inv /\ MapInv) /\ [Next]_vars => (Inv /\ MapInv)'
  BY NextInv, MapNext
<1>3. Inv /\ MapInv => MapIsExact
  <2> SUFFICES ASSUME Inv, MapInv, AtRest PROVE MapIsExact
    BY DEF MapIsExact
  <2>1. \A l : ~Waits(l) /\ ~Registering(l) /\ ~Queued(l) /\ ~Unregistering(l) /\ ~Removed(l)
    BY IdleTyped DEF AtRest, Waits, Registering, Queued, Unregistering, Removed
  <2>2. \A l : ~Leaving(l)
    BY <2>1 DEF Leaving, Queued, Unregistering
  <2>3. ASSUME NEW l \in Lines, Serving(l), UserOf[l] \notin hasty
        PROVE  In(l, connections[UserOf[l]])
    <3>1. Served(l) /\ Ends(l)
      BY <2>3 DEF MapInv, AtRest
    <3> QED
      BY <2>1, <2>3, <3>1 DEF Served, Ends, Serving
  <2>4. hasty = {} => Held = {l \in Lines : l \in added /\ line[l] # "ended"}
    <3>1. ASSUME hasty = {}, NEW l \in Lines PROVE l \in left <=> line[l] = "ended"
      <4>1. Served(l) /\ Ends(l)
        BY <3>1 DEF MapInv, AtRest
      <4> QED
        BY <2>2, <4>1 DEF Served, Ends
    <3> QED
      BY <2>1, <3>1 DEF Held
  <2>5. hasty = {} => connCount = Cardinality(Held)
    BY DEF MapInv, AtRest
  <2>6. \A l \in Lines : Serving(l) /\ UserOf[l] \notin hasty =>
            /\ connections[UserOf[l]] # 0
            /\ l \in heap[connections[UserOf[l]]].lines
    BY <2>3 DEF In
  <2> QED
    BY <2>4, <2>5, <2>6 DEF MapIsExact
<1> QED
  BY <1>1, <1>2, <1>3, PTL DEF Spec

=============================================================================
