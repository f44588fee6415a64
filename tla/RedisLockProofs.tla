---------------------------- MODULE RedisLockProofs ----------------------------
(***************************************************************************)
(* The promises of the Redis lock: a held key goes away by expiry only, a  *)
(* lost key is not regained, and, while Redis answers in time and no       *)
(* command fails, auto-extended locks exclude each other.  For any number  *)
(* of callers and resources and any time to live.                          *)
(***************************************************************************)
EXTENDS RedisLock, TLAPS

KeySet == [owner : Callers \union {None}, ttl : 0 .. Ttl]
CallSet == [mode : Modes, resource : Resources, auto : AutoChoices, expired : BOOLEAN]
Ops == {"setnx", "refresh", "release"}
ExtPlaces == {"none", "sleep", "refresh", "sending", "exited"}

(* The variables without the clocks.                                        *)
Typed ==
    /\ store \in [KeyNames -> KeySet]
    /\ stray \subseteq Ops \X Callers
    /\ faults \in Nat
    /\ closed \subseteq Lockers
    /\ call \in [Callers -> CallSet]
    /\ pc \in [Callers -> Labels]
    /\ cmd \in [Callers -> CmdStates]
    /\ released \in [Callers -> BOOLEAN]
    /\ cancelled \in [Callers -> BOOLEAN]
    /\ chCancelDone \in [Callers -> {"nil", "empty", "full"}]
    /\ ext \in [Callers -> ExtPlaces]
    /\ extCmd \in [Callers -> CmdStates]

Clocks ==
    /\ age \in [Callers -> Nat]
    /\ extTimer \in [Callers -> Nat]
    /\ extAge \in [Callers -> Nat]

(* What its own goroutine and the auto-extend goroutine of a caller know of *)
(* each other.                                                              *)
Shape(p) ==
    /\ cmd[p] # "none" <=> pc[p] \in {"setnx", "extend", "release"}
    /\ extCmd[p] # "none" <=> ext[p] = "refresh"
    /\ pc[p] \in {"start", "setnx", "backoff"} => ext[p] = "none"
    /\ pc[p] \in {"start", "setnx", "backoff", "held", "extend"} =>
          ~released[p] /\ ~cancelled[p]

(* A command that was given up names a caller that gave it up.              *)
Strays ==
    /\ \A p \in Callers : <<"setnx", p>> \in stray => pc[p] \in {"failed", "crashed"}
    /\ \A p \in Callers : <<"release", p>> \in stray => pc[p] \in {"done", "crashed"}

Inv == Typed /\ Clocks /\ Strays /\ \A p \in Callers : Shape(p)
(* A step of the caller's goroutine to l.                                   *)
LEMMA CallerMove ==
    ASSUME Inv, NEW p \in Callers, NEW l \in Labels, NEW c \in CmdStates,
           c # "none" <=> l \in {"setnx", "extend", "release"},
           pc' = [pc EXCEPT ![p] = l], cmd' = [cmd EXCEPT ![p] = c],
           age' = [age EXCEPT ![p] = 0],
           pc[p] \notin {"failed", "done", "crashed"},
           UNCHANGED <<store, stray, closed, call, extCmd, extAge>>,
           faults' \in Nat,
           released' \in [Callers -> BOOLEAN], cancelled' \in [Callers -> BOOLEAN],
           chCancelDone' \in [Callers -> {"nil", "empty", "full"}],
           ext' \in [Callers -> ExtPlaces], extTimer' \in [Callers -> Nat],
           \A q \in Callers \ {p} : /\ released'[q] = released[q] /\ ext'[q] = ext[q]
                                    /\ cancelled'[q] = cancelled[q],
           ext'[p] = ext[p] \/ (ext[p] # "refresh" /\ ext'[p] = "sleep" /\ l = "held"),
           l \in {"start", "setnx", "backoff"} => pc[p] \in {"start", "setnx", "backoff"},
           l \in {"start", "setnx", "backoff", "held", "extend"} =>
               /\ pc[p] \in {"start", "setnx", "backoff", "held", "extend"}
               /\ released' = released /\ cancelled' = cancelled
    PROVE  Inv'
<1>2. Typed'
  BY DEF Inv, Typed
<1>3. Clocks'
  BY DEF Inv, Clocks
<1>4. Strays'
  BY DEF Inv, Typed, Strays
<1>5. Shape(p)'
  BY DEF Inv, Typed, Shape
<1>6. ASSUME NEW q \in Callers \ {p} PROVE Shape(q)'
  BY DEF Inv, Typed, Shape
<1> QED
  BY <1>2, <1>3, <1>4, <1>5, <1>6 DEF Inv

LEMMA GotoMove ==
    ASSUME Inv, NEW p \in Callers,
           NEW l \in {"backoff", "held", "unlocking", "done", "failed"}, Goto(p, l),
           pc[p] \notin {"failed", "done", "crashed"},
           UNCHANGED <<store, stray, closed, call, extCmd, extAge>>,
           faults' \in Nat,
           released' \in [Callers -> BOOLEAN], cancelled' \in [Callers -> BOOLEAN],
           chCancelDone' \in [Callers -> {"nil", "empty", "full"}],
           ext' \in [Callers -> ExtPlaces], extTimer' \in [Callers -> Nat],
           \A q \in Callers \ {p} : /\ released'[q] = released[q] /\ ext'[q] = ext[q]
                                    /\ cancelled'[q] = cancelled[q],
           ext'[p] = ext[p] \/ (ext[p] # "refresh" /\ ext'[p] = "sleep" /\ l = "held"),
           l = "backoff" => pc[p] \in {"start", "setnx", "backoff"},
           l \in {"backoff", "held"} =>
               /\ pc[p] \in {"start", "setnx", "backoff", "held", "extend"}
               /\ released' = released /\ cancelled' = cancelled
    PROVE  Inv'
<1>1. l \in Labels /\ "none" \in CmdStates
  BY DEF Labels, CmdStates
<1>2. /\ pc' = [pc EXCEPT ![p] = l] /\ cmd' = [cmd EXCEPT ![p] = "none"]
      /\ age' = [age EXCEPT ![p] = 0]
  BY DEF Goto
<1> QED
  BY <1>1, <1>2, CallerMove

LEMMA SendMove ==
    ASSUME Inv, NEW p \in Callers, NEW l \in {"setnx", "extend", "release"}, Send(p, l),
           pc[p] \notin {"failed", "done", "crashed"},
           UNCHANGED <<store, stray, closed, call, extCmd, extAge, ext, extTimer>>,
           faults' \in Nat,
           released' \in [Callers -> BOOLEAN], cancelled' \in [Callers -> BOOLEAN],
           chCancelDone' \in [Callers -> {"nil", "empty", "full"}],
           \A q \in Callers \ {p} : /\ released'[q] = released[q]
                                    /\ cancelled'[q] = cancelled[q],
           l = "setnx" => pc[p] \in {"start", "setnx", "backoff"},
           l \in {"setnx", "extend"} =>
               /\ pc[p] \in {"start", "setnx", "backoff", "held", "extend"}
               /\ released' = released /\ cancelled' = cancelled
    PROVE  Inv'
<1>1. l \in Labels /\ "sent" \in CmdStates
  BY DEF Labels, CmdStates
<1>2. /\ pc' = [pc EXCEPT ![p] = l] /\ cmd' = [cmd EXCEPT ![p] = "sent"]
      /\ age' = [age EXCEPT ![p] = 0]
  BY DEF Send
<1>3. ext' \in [Callers -> ExtPlaces] /\ extTimer' \in [Callers -> Nat]
  BY DEF Inv, Typed, Clocks
<1> QED
  BY <1>1, <1>2, <1>3, CallerMove

LEMMA Constants ==
    /\ Ttl \in Nat /\ Ttl # 0 /\ ExtendInterval \in Nat /\ MaxDelay \in Nat /\ None \notin Callers
BY RedisLockAssumption DEF ExtendInterval

LEMMA Parts ==
    ASSUME Inv
    PROVE  /\ released \in [Callers -> BOOLEAN] /\ cancelled \in [Callers -> BOOLEAN]
           /\ chCancelDone \in [Callers -> {"nil", "empty", "full"}]
           /\ ext \in [Callers -> ExtPlaces] /\ extTimer \in [Callers -> Nat]
           /\ extCmd \in [Callers -> CmdStates] /\ extAge \in [Callers -> Nat]
           /\ faults \in Nat
BY DEF Inv, Typed, Clocks

LEMMA StartInv == ASSUME Inv, NEW p \in Callers, Start(p) PROVE Inv'
<1>1. /\ UNCHANGED <<store, stray, faults, closed, call, released, cancelled, chCancelDone>>
      /\ UNCHANGED <<ext, extTimer, extCmd, extAge>>
  BY DEF Start, extVars
<1>2. pc[p] = "start" /\ (Goto(p, "failed") \/ Send(p, "setnx"))
  BY DEF Start
<1>3. CASE Goto(p, "failed")
  BY <1>1, <1>2, <1>3, Parts, GotoMove
<1>4. CASE Send(p, "setnx")
  BY <1>1, <1>2, <1>4, Parts, SendMove
<1> QED
  BY <1>2, <1>3, <1>4

LEMMA UnlockInv == ASSUME Inv, NEW p \in Callers, Unlock(p) PROVE Inv'
<1>1. /\ UNCHANGED <<store, stray, faults, closed, call, chCancelDone>>
      /\ UNCHANGED <<ext, extTimer, extCmd, extAge>>
  BY DEF Unlock, extVars
<1>2. /\ pc[p] = "held"
      /\ released' = [released EXCEPT ![p] = TRUE]
      /\ cancelled' \in {cancelled, [cancelled EXCEPT ![p] = TRUE]}
  BY DEF Unlock
<1>3. /\ released' \in [Callers -> BOOLEAN] /\ cancelled' \in [Callers -> BOOLEAN]
      /\ \A q \in Callers \ {p} : released'[q] = released[q] /\ cancelled'[q] = cancelled[q]
  BY <1>2, Parts
<1>4. CASE Goto(p, "unlocking")
  BY <1>1, <1>2, <1>3, <1>4, Parts, GotoMove
<1>5. CASE Send(p, "release")
  BY <1>1, <1>2, <1>3, <1>5, Parts, SendMove
<1> QED
  BY <1>4, <1>5 DEF Unlock
LEMMA AcquiredInv == ASSUME Inv, NEW p \in Callers, Acquired(p) PROVE Inv'
<1>1. /\ UNCHANGED <<store, stray, faults, closed, call, released, cancelled>>
      /\ UNCHANGED <<extCmd, extAge>>
      /\ pc[p] = "setnx" /\ Goto(p, "held")
  BY DEF Acquired
<1>2. ext[p] = "none"
  BY <1>1 DEF Inv, Shape
<1>3. /\ ext' \in {ext, [ext EXCEPT ![p] = "sleep"]}
      /\ extTimer' \in {extTimer, [extTimer EXCEPT ![p] = ExtendInterval]}
      /\ chCancelDone' \in {chCancelDone, [chCancelDone EXCEPT ![p] = "empty"]}
  BY DEF Acquired
<1>4. /\ ext' \in [Callers -> ExtPlaces] /\ extTimer' \in [Callers -> Nat]
      /\ chCancelDone' \in [Callers -> {"nil", "empty", "full"}]
      /\ \A q \in Callers \ {p} : ext'[q] = ext[q]
      /\ ext'[p] = ext[p] \/ ext'[p] = "sleep"
  BY <1>3, Parts, Constants DEF ExtPlaces
<1> QED
  BY <1>1, <1>2, <1>4, Parts, GotoMove

LEMMA RefusedInv == ASSUME Inv, NEW p \in Callers, Refused(p) PROVE Inv'
<1>1. /\ UNCHANGED <<store, stray, faults, closed, call, released, cancelled, chCancelDone>>
      /\ UNCHANGED <<ext, extTimer, extCmd, extAge>>
  BY DEF Refused, extVars
<1>2. pc[p] = "setnx" /\ (Goto(p, "failed") \/ Goto(p, "backoff"))
  BY DEF Refused
<1>3. CASE Goto(p, "failed")
  BY <1>1, <1>2, <1>3, Parts, GotoMove
<1>4. CASE Goto(p, "backoff")
  BY <1>1, <1>2, <1>4, Parts, GotoMove
<1> QED
  BY <1>2, <1>3, <1>4

LEMMA RetryInv == ASSUME Inv, NEW p \in Callers, Retry(p) PROVE Inv'
<1>1. /\ UNCHANGED <<store, stray, faults, closed, call, released, cancelled, chCancelDone>>
      /\ UNCHANGED <<ext, extTimer, extCmd, extAge>>
  BY DEF Retry, extVars
<1>2. pc[p] = "backoff" /\ (Goto(p, "failed") \/ Send(p, "setnx"))
  BY DEF Retry
<1>3. CASE Goto(p, "failed")
  BY <1>1, <1>2, <1>3, Parts, GotoMove
<1>4. CASE Send(p, "setnx")
  BY <1>1, <1>2, <1>4, Parts, SendMove
<1> QED
  BY <1>2, <1>3, <1>4

LEMMA ExtendInv ==
    ASSUME Inv, NEW p \in Callers, Extend(p) \/ ExtendReturns(p) PROVE Inv'
<1>1. /\ UNCHANGED <<store, stray, faults, closed, call, released, cancelled, chCancelDone>>
      /\ UNCHANGED <<ext, extTimer, extCmd, extAge>>
  BY DEF Extend, ExtendReturns, extVars
<1>2. \/ pc[p] = "held" /\ Send(p, "extend")
      \/ pc[p] = "extend" /\ Goto(p, "held")
  BY DEF Extend, ExtendReturns
<1>3. CASE pc[p] = "held" /\ Send(p, "extend")
  BY <1>1, <1>3, Parts, SendMove
<1>4. CASE pc[p] = "extend" /\ Goto(p, "held")
  BY <1>1, <1>4, Parts, GotoMove
<1> QED
  BY <1>2, <1>3, <1>4

(* Unlock goes on.                                                          *)
LEMMA WaitEndsInv ==
    ASSUME Inv, NEW p \in Callers, GoroutineDone(p) \/ WaitTimesOut(p) PROVE Inv'
<1>1. /\ UNCHANGED <<store, stray, faults, closed, call, released, cancelled>>
      /\ UNCHANGED <<ext, extTimer, extCmd, extAge>>
      /\ pc[p] = "unlocking" /\ Send(p, "release")
      /\ chCancelDone' \in {chCancelDone, [chCancelDone EXCEPT ![p] = "empty"]}
  BY DEF GoroutineDone, WaitTimesOut, extVars
<1>2. chCancelDone' \in [Callers -> {"nil", "empty", "full"}]
  BY <1>1, Parts
<1> QED
  BY <1>1, <1>2, Parts, SendMove

LEMMA UnlockReturnsInv == ASSUME Inv, NEW p \in Callers, UnlockReturns(p) PROVE Inv'
<1>1. /\ UNCHANGED <<store, stray, faults, closed, call, released, cancelled>>
      /\ UNCHANGED <<ext, extTimer, extCmd, extAge>>
      /\ pc[p] = "release" /\ Goto(p, "done")
      /\ chCancelDone' = [chCancelDone EXCEPT ![p] = "nil"]
  BY DEF UnlockReturns, extVars
<1>2. chCancelDone' \in [Callers -> {"nil", "empty", "full"}]
  BY <1>1, Parts
<1> QED
  BY <1>1, <1>2, Parts, GotoMove

(* The command of a call that fails may still be on its way; the caller     *)
(* never holds the lock again.                                              *)
LEMMA FailsInv == ASSUME Inv, NEW p \in Callers, Fails(p) PROVE Inv'
<1>1. /\ UNCHANGED <<store, closed, call, released, cancelled>>
      /\ UNCHANGED <<ext, extTimer, extCmd, extAge>>
      /\ chCancelDone' \in {chCancelDone, [chCancelDone EXCEPT ![p] = "nil"]}
      /\ faults' \in {faults, faults + 1}
  BY DEF Fails, Fault, extVars
<1>2. PICK l \in {"failed", "held", "done"} :
         /\ Goto(p, l)
         /\ \/ pc[p] = "setnx" /\ l = "failed"
            \/ pc[p] = "extend" /\ l = "held"
            \/ pc[p] = "release" /\ l = "done"
  BY DEF Fails
<1>3. /\ pc' = [pc EXCEPT ![p] = l] /\ cmd' = [cmd EXCEPT ![p] = "none"]
      /\ age' = [age EXCEPT ![p] = 0]
  BY <1>2 DEF Goto
<1>4. stray' \subseteq stray \cup {<<Op(p), p>>}
  BY DEF Fails
<1>5. \/ pc[p] = "setnx" /\ l = "failed" /\ Op(p) = "setnx"
      \/ pc[p] = "extend" /\ l = "held" /\ Op(p) = "refresh"
      \/ pc[p] = "release" /\ l = "done" /\ Op(p) = "release"
  BY <1>2 DEF Op
<1>6. Typed'
  <2>1. stray' \subseteq Ops \X Callers
    BY <1>4, <1>5 DEF Inv, Typed, Ops
  <2>2. l \in Labels /\ "none" \in CmdStates
    BY DEF Labels, CmdStates
  <2>3. chCancelDone' \in [Callers -> {"nil", "empty", "full"}] /\ faults' \in Nat
    BY <1>1, Parts
  <2> QED
    BY <1>1, <1>3, <2>1, <2>2, <2>3 DEF Inv, Typed
<1>7. Clocks'
  BY <1>1, <1>3 DEF Inv, Clocks
<1>8. Strays'
  <2> SUFFICES ASSUME NEW q \in Callers
               PROVE  /\ <<"setnx", q>> \in stray' => pc'[q] \in {"failed", "crashed"}
                      /\ <<"release", q>> \in stray' => pc'[q] \in {"done", "crashed"}
    BY DEF Strays
  <2>1. pc \in [Callers -> Labels]
    BY DEF Inv, Typed
  <2>2. CASE q = p
    BY <1>3, <1>4, <1>5, <2>1, <2>2 DEF Inv, Strays
  <2>3. CASE q # p
    BY <1>3, <1>4, <2>1, <2>3 DEF Inv, Strays
  <2> QED
    BY <2>2, <2>3
<1>9. Shape(p)'
  BY <1>1, <1>3, <1>5 DEF Inv, Typed, Shape
<1>10. ASSUME NEW q \in Callers \ {p} PROVE Shape(q)'
  BY <1>1, <1>3 DEF Inv, Typed, Shape
<1> QED
  BY <1>6, <1>7, <1>8, <1>9, <1>10 DEF Inv

-----------------------------------------------------------------------------
(* The auto-extend goroutine goes to l.                                     *)
LEMMA ExtMove ==
    ASSUME Inv, NEW p \in Callers, NEW l \in ExtPlaces \ {"none"}, NEW timer \in Nat,
           ExtGoto(p, l, timer), ext[p] # "none",
           UNCHANGED <<store, closed, callerVars>>,
           stray' \subseteq stray \cup {<<"refresh", p>>},
           faults' \in Nat, chCancelDone' \in [Callers -> {"nil", "empty", "full"}]
    PROVE  Inv'
<1>1. UNCHANGED <<call, pc, cmd, age, released, cancelled>>
  BY DEF callerVars
<1> DEFINE c == IF l = "refresh" THEN "sent" ELSE "none"
<1>2. /\ ext' = [ext EXCEPT ![p] = l] /\ extTimer' = [extTimer EXCEPT ![p] = timer]
      /\ extCmd' = [extCmd EXCEPT ![p] = c] /\ extAge' = [extAge EXCEPT ![p] = 0]
  BY DEF ExtGoto
<1>3. c \in CmdStates /\ (c # "none" <=> l = "refresh")
  BY DEF CmdStates
<1> HIDE DEF c
<1>4. Typed'
  <2>1. stray' \subseteq Ops \X Callers
    BY DEF Inv, Typed, Ops
  <2> QED
    BY <1>1, <1>2, <1>3, <2>1 DEF Inv, Typed
<1>5. Clocks'
  BY <1>1, <1>2 DEF Inv, Clocks
<1>6. Strays'
  BY <1>1 DEF Inv, Strays
<1>7. Shape(p)'
  BY <1>1, <1>2, <1>3 DEF Inv, Typed, Shape
<1>8. ASSUME NEW q \in Callers \ {p} PROVE Shape(q)'
  BY <1>1, <1>2 DEF Inv, Typed, Shape
<1> QED
  BY <1>4, <1>5, <1>6, <1>7, <1>8 DEF Inv

LEMMA ExtStepInv ==
    ASSUME Inv, NEW p \in Callers, ExtStep(p) \/ AutoExtendFails(p) PROVE Inv'
<1>1. /\ UNCHANGED <<store, closed, callerVars>>
      /\ stray' \subseteq stray \cup {<<"refresh", p>>}
      /\ faults' \in {faults, faults + 1}
      /\ chCancelDone' \in {chCancelDone, [chCancelDone EXCEPT ![p] = "full"]}
      /\ ext[p] \in {"sleep", "refresh", "sending"}
      /\ \E l \in {"sleep", "refresh", "sending", "exited"}, timer \in {0, ExtendInterval} :
            ExtGoto(p, l, timer)
  BY DEF ExtStep, AutoExtend, AutoExtendCancelled, AutoExtended, AutoExtendExits,
         AutoExtendFails, Fault
<1>2. faults' \in Nat /\ chCancelDone' \in [Callers -> {"nil", "empty", "full"}]
  BY <1>1, Parts
<1>3. PICK l \in ExtPlaces \ {"none"}, timer \in Nat : ExtGoto(p, l, timer)
  BY <1>1, Constants DEF ExtPlaces
<1> QED
  BY <1>1, <1>2, <1>3, ExtMove
-----------------------------------------------------------------------------
(* The server.                                                              *)

Stored == store[EmptyResource]

(* What a command does to the key of the locks.                             *)
LEMMA EffectOf ==
    ASSUME Inv, NEW op \in Ops, NEW p \in Callers, store' = Effect(op, p)
    PROVE  /\ store' \in [KeyNames -> KeySet]
           /\ \/ Stored' = Stored
              \/ op = "setnx" /\ Stored = NoKey /\ Stored' = Key(p)
              \/ op = "refresh" /\ Owns(p) /\ Stored' = Key(p)
              \/ op = "release" /\ Owns(p) /\ Stored' = NoKey
<1>1. store \in [KeyNames -> KeySet] /\ EmptyResource \in KeyNames
  BY DEF Inv, Typed, KeyNames
<1>2. NoKey \in KeySet /\ Key(p) \in KeySet
  BY Constants DEF NoKey, Key, KeySet
<1>3. CASE op = "setnx"
  BY <1>1, <1>2, <1>3 DEF Effect, SetNX, KeyOf, Stored
<1>4. CASE op = "refresh"
  BY <1>1, <1>2, <1>4 DEF Effect, luaRefresh, Owns, KeyOf, Stored
<1>5. CASE op = "release"
  BY <1>1, <1>2, <1>5 DEF Effect, luaRelease, Owns, KeyOf, Stored
<1> QED
  BY <1>3, <1>4, <1>5 DEF Ops

LEMMA OwnsStored == \A p \in Callers : Owns(p) <=> Stored.owner = p
BY DEF Owns, KeyOf, Stored

LEMMA KeyOwner ==
    ASSUME NEW p \in Callers
    PROVE  NoKey.owner = None /\ NoKey.ttl = 0 /\ Key(p).owner = p /\ Key(p).ttl = Ttl
BY DEF NoKey, Key

LEMMA ServeInv == ASSUME Inv, NEW p \in Callers, Serve(p) PROVE Inv'
<1>1. /\ UNCHANGED <<stray, faults, closed, call, pc, age, released, cancelled, chCancelDone>>
      /\ UNCHANGED <<ext, extTimer, extCmd, extAge>>
      /\ cmd[p] = "sent" /\ store' = Effect(Op(p), p)
      /\ cmd' = [cmd EXCEPT ![p] = Answer(Op(p), p)]
  BY DEF Serve, extVars
<1>2. Op(p) \in Ops
  <2>1. pc[p] \in {"setnx", "extend", "release"}
    BY <1>1 DEF Inv, Shape
  <2> QED
    BY <2>1 DEF Op, Ops
<1>3. store' \in [KeyNames -> KeySet]
  BY <1>1, <1>2, EffectOf
<1>4. Answer(Op(p), p) \in CmdStates /\ Answer(Op(p), p) # "none"
  BY DEF Answer, CmdStates
<1>5. Typed'
  BY <1>1, <1>3, <1>4 DEF Inv, Typed
<1>6. Clocks' /\ Strays'
  BY <1>1 DEF Inv, Clocks, Strays
<1>7. ASSUME NEW q \in Callers PROVE Shape(q)'
  BY <1>1, <1>4 DEF Inv, Typed, Shape
<1> QED
  BY <1>5, <1>6, <1>7 DEF Inv

LEMMA ServeExtInv == ASSUME Inv, NEW p \in Callers, ServeExt(p) PROVE Inv'
<1>1. /\ UNCHANGED <<stray, faults, closed, call, pc, cmd, age, released, cancelled, chCancelDone>>
      /\ UNCHANGED <<ext, extTimer, extAge>>
      /\ extCmd[p] = "sent" /\ store' = Effect("refresh", p)
      /\ extCmd' = [extCmd EXCEPT ![p] = Answer("refresh", p)]
  BY DEF ServeExt, callerVars
<1>2. store' \in [KeyNames -> KeySet]
  BY <1>1, EffectOf DEF Ops
<1>3. Answer("refresh", p) \in CmdStates /\ Answer("refresh", p) # "none"
  BY DEF Answer, CmdStates
<1>4. Typed'
  BY <1>1, <1>2, <1>3 DEF Inv, Typed
<1>5. Clocks' /\ Strays'
  BY <1>1 DEF Inv, Clocks, Strays
<1>6. ASSUME NEW q \in Callers PROVE Shape(q)'
  BY <1>1, <1>3 DEF Inv, Typed, Shape
<1> QED
  BY <1>4, <1>5, <1>6 DEF Inv

LEMMA ResendInv == ASSUME Inv, NEW p \in Callers, Resend(p) PROVE Inv'
<1>1. /\ UNCHANGED <<store, stray, closed, call, pc, age, released, cancelled, chCancelDone>>
      /\ UNCHANGED <<ext, extTimer, extCmd, extAge>>
      /\ cmd[p] \in {"yes", "no"} /\ cmd' = [cmd EXCEPT ![p] = "sent"] /\ faults' = faults + 1
  BY DEF Resend, extVars
<1>2. Typed'
  BY <1>1 DEF Inv, Typed, CmdStates
<1>3. Clocks' /\ Strays'
  BY <1>1 DEF Inv, Clocks, Strays
<1>4. ASSUME NEW q \in Callers PROVE Shape(q)'
  BY <1>1 DEF Inv, Typed, Shape
<1> QED
  BY <1>2, <1>3, <1>4 DEF Inv

LEMMA StrayInv == ASSUME Inv, ServeStray \/ DropStray PROVE Inv'
<1>1. /\ UNCHANGED <<faults, closed, call, pc, cmd, age, released, cancelled, chCancelDone>>
      /\ UNCHANGED <<ext, extTimer, extCmd, extAge>>
      /\ stray' \subseteq stray
  BY DEF ServeStray, DropStray, callerVars, extVars
<1>2. store' \in [KeyNames -> KeySet]
  <2>1. CASE DropStray
    BY <2>1 DEF DropStray, Inv, Typed
  <2>2. CASE ServeStray
    <3>1. PICK c \in stray : store' = Effect(c[1], c[2])
      BY <2>2 DEF ServeStray
    <3>2. c[1] \in Ops /\ c[2] \in Callers
      BY DEF Inv, Typed
    <3> QED
      BY <3>1, <3>2, EffectOf
  <2> QED
    BY <2>1, <2>2
<1>3. Typed'
  BY <1>1, <1>2 DEF Inv, Typed
<1>4. Clocks' /\ Strays'
  BY <1>1 DEF Inv, Clocks, Strays
<1>5. ASSUME NEW q \in Callers PROVE Shape(q)'
  BY <1>1 DEF Inv, Shape
<1> QED
  BY <1>3, <1>4, <1>5 DEF Inv

LEMMA CrashInv == ASSUME Inv, NEW p \in Callers, Crash(p) PROVE Inv'
<1>1. /\ UNCHANGED <<store, faults, closed, call, released, cancelled, chCancelDone>>
      /\ pc' = [pc EXCEPT ![p] = "crashed"] /\ cmd' = [cmd EXCEPT ![p] = "none"]
      /\ age' = [age EXCEPT ![p] = 0]
      /\ ext' = [ext EXCEPT ![p] = "none"] /\ extCmd' = [extCmd EXCEPT ![p] = "none"]
      /\ extTimer' = [extTimer EXCEPT ![p] = 0] /\ extAge' = [extAge EXCEPT ![p] = 0]
      /\ stray' = stray \union (IF cmd[p] = "sent" THEN {<<Op(p), p>>} ELSE {})
                        \union (IF extCmd[p] = "sent" THEN {<<"refresh", p>>} ELSE {})
  BY DEF Crash, Goto, ExtGoto
<1>2. stray' \subseteq stray \union {<<o, p>> : o \in Ops}
  <2>1. ASSUME cmd[p] = "sent" PROVE Op(p) \in Ops
    <3>1. pc[p] \in {"setnx", "extend", "release"}
      BY <2>1 DEF Inv, Shape
    <3> QED
      BY <3>1 DEF Op, Ops
  <2>2. "refresh" \in Ops
    BY DEF Ops
  <2> QED
    BY <1>1, <2>1, <2>2
<1>3. Typed'
  <2>1. stray' \subseteq Ops \X Callers
    BY <1>2 DEF Inv, Typed
  <2>2. "crashed" \in Labels /\ "none" \in CmdStates /\ "none" \in ExtPlaces
    BY DEF Labels, CmdStates, ExtPlaces
  <2> QED
    BY <1>1, <2>1, <2>2 DEF Inv, Typed
<1>4. Clocks'
  BY <1>1 DEF Inv, Clocks
<1>5. Strays'
  <2> SUFFICES ASSUME NEW q \in Callers
               PROVE  /\ <<"setnx", q>> \in stray' => pc'[q] \in {"failed", "crashed"}
                      /\ <<"release", q>> \in stray' => pc'[q] \in {"done", "crashed"}
    BY DEF Strays
  <2>1. pc \in [Callers -> Labels]
    BY DEF Inv, Typed
  <2>2. CASE q = p
    BY <1>1, <2>1, <2>2
  <2>3. CASE q # p
    BY <1>1, <1>2, <2>1, <2>3 DEF Inv, Strays
  <2> QED
    BY <2>2, <2>3
<1>6. ASSUME NEW q \in Callers PROVE Shape(q)'
  BY <1>1 DEF Inv, Typed, Shape
<1> QED
  BY <1>3, <1>4, <1>5, <1>6 DEF Inv

LEMMA ExpireInv == ASSUME Inv, NEW p \in Callers, Expire(p) PROVE Inv'
<1>1. /\ UNCHANGED <<store, stray, faults, closed, pc, cmd, age, released, cancelled, chCancelDone>>
      /\ UNCHANGED <<ext, extTimer, extCmd, extAge>>
      /\ call' = [call EXCEPT ![p].expired = TRUE]
  BY DEF Expire, extVars
<1>2. Typed'
  <2>1. call' \in [Callers -> CallSet]
    BY <1>1 DEF Inv, Typed, CallSet
  <2> QED
    BY <1>1, <2>1 DEF Inv, Typed
<1>3. Clocks' /\ Strays'
  BY <1>1 DEF Inv, Clocks, Strays
<1>4. ASSUME NEW q \in Callers PROVE Shape(q)'
  BY <1>1 DEF Inv, Shape
<1> QED
  BY <1>2, <1>3, <1>4 DEF Inv

LEMMA CloseInv == ASSUME Inv, NEW l \in Lockers, Close(l) PROVE Inv'
<1>1. /\ UNCHANGED <<store, stray, faults, call, pc, cmd, age, released, cancelled, chCancelDone>>
      /\ UNCHANGED <<ext, extTimer, extCmd, extAge>>
      /\ closed' = closed \union {l}
  BY DEF Close, callerVars, extVars
<1>2. Typed' /\ Clocks' /\ Strays'
  BY <1>1 DEF Inv, Typed, Clocks, Strays
<1>3. ASSUME NEW q \in Callers PROVE Shape(q)'
  BY <1>1 DEF Inv, Shape
<1> QED
  BY <1>2, <1>3 DEF Inv

(* A key loses a tick of its time to live, and ends with the last one.      *)
LEMMA DecayOf ==
    ASSUME NEW k \in KeySet
    PROVE  /\ Decay(k) \in KeySet
           /\ k.ttl > 1 => Decay(k).owner = k.owner /\ Decay(k).ttl = k.ttl - 1
           /\ k.ttl = 1 => Decay(k) = NoKey
           /\ k.ttl = 0 => Decay(k) = k
<1>1. k.owner \in Callers \union {None} /\ k.ttl \in 0 .. Ttl /\ k = [owner |-> k.owner, ttl |-> k.ttl]
  BY DEF KeySet
<1>2. CASE k.ttl > 1
  <2>1. Decay(k) = [owner |-> k.owner, ttl |-> k.ttl - 1]
    BY <1>1, <1>2 DEF Decay
  <2>2. k.ttl - 1 \in 0 .. Ttl
    BY <1>1, <1>2, Constants
  <2> QED
    BY <1>1, <1>2, <2>1, <2>2 DEF KeySet
<1>3. CASE k.ttl = 1
  BY <1>3, Constants DEF Decay, NoKey, KeySet
<1>4. CASE k.ttl = 0
  BY <1>4 DEF Decay
<1> QED
  BY <1>1, <1>2, <1>3, <1>4, Constants

LEMMA TickInv == ASSUME Inv, Tick PROVE Inv'
<1>1. /\ UNCHANGED <<stray, faults, closed, call, pc, cmd, released, cancelled, chCancelDone>>
      /\ UNCHANGED <<ext, extCmd>>
      /\ store' = [k \in KeyNames |-> Decay(store[k])]
      /\ extTimer' = [p \in Callers |-> IF extTimer[p] > 0 THEN extTimer[p] - 1 ELSE 0]
      /\ \/ UNCHANGED <<age, extAge>>
         \/ /\ age' = [p \in Callers |-> IF cmd[p] # "none" THEN age[p] + 1 ELSE 0]
            /\ extAge' = [p \in Callers |-> IF extCmd[p] # "none" THEN extAge[p] + 1 ELSE 0]
  BY DEF Tick
<1>2. store' \in [KeyNames -> KeySet]
  BY <1>1, DecayOf DEF Inv, Typed
<1>3. Typed'
  BY <1>1, <1>2 DEF Inv, Typed
<1>4. Clocks'
  BY <1>1 DEF Inv, Clocks
<1>5. Strays'
  BY <1>1 DEF Inv, Strays
<1>6. ASSUME NEW q \in Callers PROVE Shape(q)'
  BY <1>1 DEF Inv, Shape
<1> QED
  BY <1>3, <1>4, <1>5, <1>6 DEF Inv

LEMMA InitInv == Init => Inv
<1> SUFFICES ASSUME Init PROVE Inv
  OBVIOUS
<1>1. Typed
  <2>1. NoKey \in KeySet
    BY Constants DEF NoKey, KeySet
  <2>2. call \in [Callers -> CallSet]
    BY DEF Init, CallSet
  <2> QED
    BY <2>1, <2>2 DEF Init, Typed, Labels, CmdStates, ExtPlaces
<1>2. Clocks /\ Strays
  BY DEF Init, Clocks, Strays
<1>3. ASSUME NEW p \in Callers PROVE Shape(p)
  BY DEF Init, Shape
<1> QED
  BY <1>1, <1>2, <1>3 DEF Inv

LEMMA NextInv == ASSUME Inv, [Next]_vars PROVE Inv'
<1>1. ASSUME NEW p \in Callers, CallerStep(p) PROVE Inv'
  BY <1>1, AcquiredInv, RefusedInv, RetryInv, ExtendInv, WaitEndsInv, UnlockReturnsInv
     DEF CallerStep
<1>2. CASE UNCHANGED vars
  <2>1. Typed' /\ Clocks' /\ Strays'
    BY <1>2 DEF vars, callerVars, extVars, Inv, Typed, Clocks, Strays
  <2>2. ASSUME NEW q \in Callers PROVE Shape(q)'
    BY <1>2 DEF vars, callerVars, extVars, Inv, Shape
  <2> QED
    BY <2>1, <2>2 DEF Inv
<1> QED
  BY <1>1, <1>2, StartInv, ExtendInv, UnlockInv, ExpireInv, ExtStepInv, ServeInv, ServeExtInv,
     FailsInv, ResendInv, CrashInv, StrayInv, CloseInv, TickInv DEF Next

LEMMA Invariance == Spec => []Inv
BY InitInv, NextInv, PTL DEF Spec
-----------------------------------------------------------------------------
(* What commands may do to the key: nothing, a SetNX on a free key, and a   *)
(* refresh or a release by the owner.                                       *)
KeyStep ==
    \/ Stored' = Stored
    \/ \E p \in Callers : /\ pc[p] \in {"setnx", "failed", "crashed"}
                          /\ Stored = NoKey /\ Stored' = Key(p)
    \/ \E p \in Callers : Owns(p) /\ Stored' = Key(p)
    \/ \E p \in Callers : /\ pc[p] \in {"release", "done", "crashed"}
                          /\ Owns(p) /\ Stored' = NoKey

LEMMA ServedKeyStep ==
    ASSUME Inv, ServeStray \/ \E p \in Callers : Serve(p) \/ ServeExt(p)
    PROVE  KeyStep
<1>1. ASSUME NEW op \in Ops, NEW p \in Callers, store' = Effect(op, p),
             op = "setnx" => pc[p] \in {"setnx", "failed", "crashed"},
             op = "release" => pc[p] \in {"release", "done", "crashed"}
      PROVE  KeyStep
  BY <1>1, EffectOf DEF KeyStep
<1>2. ASSUME NEW p \in Callers, Serve(p)
      PROVE  /\ Op(p) \in Ops /\ store' = Effect(Op(p), p)
             /\ Op(p) = "setnx" => pc[p] = "setnx"
             /\ Op(p) = "release" => pc[p] = "release"
  <2>1. pc[p] \in {"setnx", "extend", "release"}
    BY <1>2 DEF Serve, Inv, Shape
  <2> QED
    BY <1>2, <2>1 DEF Serve, Op, Ops
<1>3. ASSUME NEW p \in Callers, ServeExt(p)
      PROVE  "refresh" \in Ops /\ store' = Effect("refresh", p)
  BY <1>3 DEF ServeExt, Ops
<1>4. CASE ServeStray
  <2>1. PICK c \in stray : store' = Effect(c[1], c[2])
    BY <1>4 DEF ServeStray
  <2>2. c[1] \in Ops /\ c[2] \in Callers /\ c = <<c[1], c[2]>>
    BY DEF Inv, Typed
  <2>3. /\ c[1] = "setnx" => pc[c[2]] \in {"failed", "crashed"}
        /\ c[1] = "release" => pc[c[2]] \in {"done", "crashed"}
    BY <2>2 DEF Inv, Strays
  <2> QED
    BY <1>1, <2>1, <2>2, <2>3
<1> QED
  BY <1>1, <1>2, <1>3, <1>4

LEMMA StoreStep ==
    ASSUME Inv, [Next]_vars
    PROVE  KeyStep \/ (Tick /\ Stored' = Decay(Stored))
<1>1. CASE Tick
  BY <1>1 DEF Tick, Stored, KeyNames
<1>2. CASE \E p \in Callers : \/ Start(p) \/ Extend(p) \/ Unlock(p) \/ Expire(p)
                              \/ CallerStep(p) \/ ExtStep(p) \/ Fails(p)
                              \/ AutoExtendFails(p) \/ Resend(p) \/ Crash(p)
  <2>1. store' = store
    BY <1>2 DEF Start, Extend, Unlock, Expire, CallerStep, Acquired, Refused, Retry,
           ExtendReturns, GoroutineDone, WaitTimesOut, UnlockReturns, ExtStep, AutoExtend,
           AutoExtendCancelled, AutoExtended, AutoExtendExits, Fails, AutoExtendFails,
           Resend, Crash
  <2> QED
    BY <2>1 DEF Stored, KeyStep
<1>3. CASE DropStray \/ (\E l \in Lockers : Close(l)) \/ UNCHANGED vars
  <2>1. store' = store
    BY <1>3 DEF DropStray, Close, vars
  <2> QED
    BY <2>1 DEF Stored, KeyStep
<1> QED
  BY <1>1, <1>2, <1>3, ServedKeyStep DEF Next

LEMMA StoredTyped ==
    ASSUME Inv PROVE Stored \in KeySet /\ Stored.ttl \in Nat /\ NoKey.owner \notin Callers
<1>1. Stored \in KeySet
  BY DEF Inv, Typed, Stored, KeyNames
<1> QED
  BY <1>1, Constants DEF KeySet, NoKey

(* The key of a caller that holds the lock, and goes on holding it, goes    *)
(* away by expiry only: no release, refresh or late command of another      *)
(* caller touches it.                                                       *)
THEOREM HeldKeysOnlyExpire == Spec => HeldKeyOnlyExpires
<1>1. ASSUME Inv, [Next]_vars
      PROVE  \A p \in Callers : Holds(p) /\ Holds(p)' /\ Owns(p) =>
                 Owns(p)' \/ store[KeyOf(p)].ttl = 1
  <2> SUFFICES ASSUME NEW p \in Callers, Holds(p), Owns(p), Stored.ttl # 1
               PROVE  Stored'.owner = p
    BY OwnsStored DEF Owns, KeyOf, Stored
  <2>1. Stored.owner = p /\ Stored \in KeySet /\ Stored # NoKey /\ Stored.ttl \in Nat
    BY <1>1, OwnsStored, StoredTyped
  <2>2. pc[p] \notin {"release", "done", "crashed"}
    BY DEF Holds
  <2>3. ASSUME NEW q \in Callers, Owns(q) PROVE q = p
    BY <2>1, <2>3, OwnsStored
  <2>4. Decay(Stored).owner = p
    BY <2>1, DecayOf
  <2> QED
    BY <1>1, <2>1, <2>2, <2>3, <2>4, StoreStep, KeyOwner DEF KeyStep
<1> QED
  BY <1>1, Invariance, PTL DEF Spec, HeldKeyOnlyExpires

(* A caller comes to own the key only while its SetNX is under way or was   *)
(* given up: once it lost the key, no late refresh gives it back.           *)
THEOREM LostKeysAreNotRegained == Spec => NeverRegained
<1>1. ASSUME Inv, [Next]_vars
      PROVE  \A p \in Callers : ~Owns(p) /\ Owns(p)' => pc[p] \in {"setnx", "failed", "crashed"}
  <2> SUFFICES ASSUME NEW p \in Callers, Stored.owner # p, Stored'.owner = p
               PROVE  pc[p] \in {"setnx", "failed", "crashed"}
    BY OwnsStored DEF Owns, KeyOf, Stored
  <2>1. Stored \in KeySet /\ Stored.ttl \in Nat /\ p # NoKey.owner
    BY <1>1, StoredTyped
  <2>2. Decay(Stored).owner # p
    BY <2>1, DecayOf
  <2> QED
    BY <1>1, <2>1, <2>2, StoreStep, KeyOwner, OwnsStored DEF KeyStep
<1> QED
  BY <1>1, Invariance, PTL DEF Spec, NeverRegained
-----------------------------------------------------------------------------
(* Mutual exclusion.                                                        *)

(* Redis answers within MaxDelay, no command fails, and the time to live    *)
(* leaves room for a refresh after the interval: the last command may have  *)
(* run MaxDelay before its answer, and the next one runs MaxDelay after it  *)
(* was sent.                                                                *)
Punctual == Timely /\ MaxFaults = 0 /\ ExtendInterval + 2 * MaxDelay < Ttl

(* The caller has the lock, or has been granted it, and the client of its   *)
(* Locker is open.                                                          *)
Claims(p) ==
    ~Closed(p) /\ call[p].auto /\ (Holds(p) \/ (pc[p] = "setnx" /\ cmd[p] = "yes"))

Single == \A p, q \in Callers : Claims(p) /\ Claims(q) => p = q

Bounded == \A p \in Callers : age[p] <= MaxDelay /\ extAge[p] <= MaxDelay

(* The key is the caller's and outlives what must happen before the next    *)
(* refresh.                                                                 *)
Fresh(p) ==
    /\ Stored.owner = p
    /\ pc[p] = "setnx" => Stored.ttl + age[p] >= Ttl
    /\ Holds(p) =>
          \/ ext[p] = "sleep" /\ Stored.ttl > extTimer[p] + MaxDelay
          \/ ext[p] = "refresh" /\ extCmd[p] = "sent" /\ Stored.ttl + extAge[p] > MaxDelay
          \/ ext[p] = "refresh" /\ extCmd[p] = "yes" /\ Stored.ttl + extAge[p] >= Ttl

Safe == Single /\ Bounded /\ \A p \in Callers : Claims(p) => Fresh(p)

Same(p) ==
    /\ call'[p].auto = call[p].auto
    /\ pc'[p] = pc[p] /\ cmd'[p] = cmd[p] /\ age'[p] = age[p]
    /\ ext'[p] = ext[p] /\ extTimer'[p] = extTimer[p]
    /\ extCmd'[p] = extCmd[p] /\ extAge'[p] = extAge[p]

LEMMA Quantities ==
    ASSUME Inv
    PROVE  /\ Stored \in KeySet /\ Stored.ttl \in Nat /\ Stored.ttl <= Ttl
           /\ \A p \in Callers : age[p] \in Nat /\ extTimer[p] \in Nat /\ extAge[p] \in Nat
<1>1. Stored \in KeySet
  BY StoredTyped
<1>2. Stored.ttl \in 0 .. Ttl
  BY <1>1 DEF KeySet
<1> QED
  BY <1>1, <1>2, Constants DEF Inv, Clocks

(* The key of a claimant stays, and its time to live does not shrink.       *)
LEMMA Kept ==
    ASSUME Inv, KeyStep, NEW p \in Callers, Claims(p), Stored.owner = p
    PROVE  Stored'.owner = p /\ Stored'.ttl >= Stored.ttl
<1>1. pc[p] \notin {"release", "done", "crashed"}
  BY DEF Claims, Closed, Holds
<1>2. Stored # NoKey /\ Stored.ttl \in Nat /\ Stored.ttl <= Ttl
  BY Quantities, StoredTyped
<1>3. ASSUME NEW q \in Callers, Owns(q) PROVE q = p
  BY <1>3, OwnsStored
<1>4. Key(p).owner = p /\ Key(p).ttl = Ttl
  BY KeyOwner
<1> QED
  BY <1>1, <1>2, <1>3, <1>4 DEF KeyStep

LEMMA FreshSame ==
    ASSUME Inv, Inv', KeyStep, NEW p \in Callers, Claims(p), Same(p), Fresh(p)
    PROVE  Fresh(p)'
<1>1. Stored'.owner = p /\ Stored'.ttl >= Stored.ttl
  BY Kept DEF Fresh
<1>2. Stored.ttl \in Nat /\ age[p] \in Nat /\ extTimer[p] \in Nat /\ extAge[p] \in Nat
  BY Quantities
<1>3. Stored'.ttl \in Nat
  <2>1. Stored' \in KeySet
    BY DEF Inv, Typed, Stored, KeyNames
  <2> QED
    BY <2>1, Constants DEF KeySet
<1> QED
  BY <1>1, <1>2, <1>3, Constants DEF Fresh, Same, Holds

(* A step of caller p.                                                      *)
LEMMA OneStep ==
    ASSUME Inv, Inv', Safe, KeyStep, NEW p \in Callers,
           \A q \in Callers \ {p} : Same(q), closed' = closed,
           age'[p] <= MaxDelay /\ extAge'[p] <= MaxDelay,
           Claims(p)' => Claims(p) \/ Stored = NoKey,
           Claims(p)' => Fresh(p)'
    PROVE  Safe'
<1>1. \A q \in Callers \ {p} : Claims(q)' => Claims(q)
  BY DEF Same, Claims, Closed, Holds
<1>2. Stored = NoKey => \A q \in Callers : ~Claims(q)
  BY StoredTyped DEF Safe, Fresh
<1>3. Single'
  BY <1>1, <1>2 DEF Safe, Single
<1>4. Bounded'
  BY DEF Safe, Bounded, Same
<1>5. ASSUME NEW q \in Callers \ {p}, Claims(q)' PROVE Fresh(q)'
  BY <1>1, <1>5, FreshSame DEF Safe
<1> QED
  BY <1>3, <1>4, <1>5 DEF Safe
(* Steps that leave store and closed alone, and after which the caller has  *)
(* no claim, or the claim it had.                                           *)
LEMMA ClaimKept ==
    ASSUME Inv, Inv', Safe, store' = store, closed' = closed, NEW p \in Callers,
           \A q \in Callers \ {p} : Same(q),
           age'[p] \in {0, age[p]}, extAge'[p] = extAge[p],
           \/ ~Claims(p)'
           \/ /\ Claims(p) /\ Holds(p) /\ Holds(p)'
              /\ UNCHANGED <<ext[p], extTimer[p], extCmd[p]>>
    PROVE  Safe'
<1>1. KeyStep /\ Stored' = Stored
  BY DEF KeyStep, Stored
<1>2. age'[p] <= MaxDelay /\ extAge'[p] <= MaxDelay
  BY Constants DEF Safe, Bounded
<1>3. ASSUME Claims(p)' PROVE Fresh(p)'
  <2>1. Fresh(p) /\ Holds(p) /\ Holds(p)' /\ UNCHANGED <<ext[p], extTimer[p], extCmd[p]>>
    BY <1>3 DEF Safe
  <2>2. pc'[p] # "setnx"
    BY <2>1 DEF Holds
  <2> QED
    BY <1>1, <2>1, <2>2 DEF Fresh
<1> QED
  BY <1>1, <1>2, <1>3, OneStep

(* The caller's goroutine, but for the answers "yes" and "no" of SetNX.     *)
LEMMA CallerSafe ==
    ASSUME Punctual, Inv, Inv', Safe, NEW p \in Callers,
           \/ Start(p) \/ Refused(p) \/ Retry(p) \/ Extend(p) \/ ExtendReturns(p) \/ Unlock(p)
           \/ GoroutineDone(p) \/ WaitTimesOut(p) \/ UnlockReturns(p) \/ Fails(p)
    PROVE  Safe'
<1>1. /\ UNCHANGED <<store, closed, call, ext, extTimer, extCmd, extAge>>
      /\ \E l \in Labels : Goto(p, l) \/ Send(p, l)
  BY DEF Start, Refused, Retry, Extend, ExtendReturns, Unlock, GoroutineDone, WaitTimesOut,
         UnlockReturns, Fails, extVars, Labels
<1>2. /\ \A q \in Callers \ {p} : pc'[q] = pc[q] /\ cmd'[q] = cmd[q] /\ age'[q] = age[q]
      /\ age'[p] = 0 /\ cmd'[p] # "yes"
  BY <1>1 DEF Goto, Send, Inv, Typed, Clocks
<1>3. \A q \in Callers \ {p} : Same(q)
  BY <1>1, <1>2 DEF Same
<1>4. ~Holds(p)' \/ (Holds(p) /\ Holds(p)')
  BY DEF Start, Refused, Retry, Extend, ExtendReturns, Unlock, GoroutineDone, WaitTimesOut,
         UnlockReturns, Fails, Goto, Send, Holds, Inv, Typed
<1>5. \/ ~Claims(p)'
      \/ Claims(p) /\ Holds(p) /\ Holds(p)' /\ UNCHANGED <<ext[p], extTimer[p], extCmd[p]>>
  BY <1>1, <1>2, <1>4 DEF Claims, Closed
<1> QED
  BY <1>1, <1>2, <1>3, <1>5, ClaimKept

(* Lock returns MaxDelay after its SetNX ran, at the latest.                *)
LEMMA AcquiredSafe ==
    ASSUME Punctual, Inv, Inv', Safe, NEW p \in Callers, Acquired(p)
    PROVE  Safe'
<1>1. /\ UNCHANGED <<store, closed, call, extCmd, extAge>>
      /\ pc[p] = "setnx" /\ cmd[p] = "yes" /\ Goto(p, "held")
  BY DEF Acquired
<1>2. /\ pc' = [pc EXCEPT ![p] = "held"] /\ cmd' = [cmd EXCEPT ![p] = "none"]
      /\ age' = [age EXCEPT ![p] = 0]
  BY <1>1 DEF Goto
<1>3. /\ \A q \in Callers \ {p} : ext'[q] = ext[q] /\ extTimer'[q] = extTimer[q]
      /\ call[p].auto => ext'[p] = "sleep" /\ extTimer'[p] = ExtendInterval
  BY DEF Acquired, Inv, Typed, Clocks
<1>4. \A q \in Callers \ {p} : Same(q)
  BY <1>1, <1>2, <1>3 DEF Same, Inv, Typed, Clocks
<1>5. KeyStep /\ Stored' = Stored
  BY <1>1 DEF KeyStep, Stored
<1>6. pc'[p] = "held" /\ age'[p] = 0
  BY <1>2 DEF Inv, Typed, Clocks
<1>7. age'[p] <= MaxDelay /\ extAge'[p] <= MaxDelay
  BY <1>1, <1>6, Constants DEF Safe, Bounded
<1>8. Claims(p)' => Claims(p)
  BY <1>1 DEF Claims, Closed
<1>9. ASSUME Claims(p)' PROVE Fresh(p)'
  <2>1. Fresh(p) /\ call[p].auto
    BY <1>1, <1>8, <1>9 DEF Safe, Claims
  <2>2. Stored.ttl + age[p] >= Ttl /\ age[p] <= MaxDelay /\ Stored.owner = p
    BY <1>1, <2>1 DEF Fresh, Safe, Bounded
  <2>3. Stored.ttl > ExtendInterval + MaxDelay
    BY <2>2, Quantities, Constants DEF Punctual
  <2> QED
    BY <1>3, <1>5, <1>6, <2>1, <2>2, <2>3 DEF Fresh
<1> QED
  BY <1>1, <1>4, <1>5, <1>7, <1>8, <1>9, OneStep

(* The refresh is sent when the timer fires, and the timer set again        *)
(* MaxDelay after the refresh ran, at the latest.                           *)
LEMMA ExtSafe ==
    ASSUME Punctual, Inv, Inv', Safe, NEW p \in Callers, ExtStep(p) \/ AutoExtendFails(p)
    PROVE  Safe'
<1>1. /\ UNCHANGED <<store, closed, call, pc, cmd, age, released>>
      /\ \E l \in ExtPlaces, timer \in Nat : ExtGoto(p, l, timer)
  BY Constants DEF ExtStep, AutoExtend, AutoExtendCancelled, AutoExtended, AutoExtendExits,
         AutoExtendFails, callerVars, ExtPlaces
<1>2. /\ \A q \in Callers \ {p} : /\ ext'[q] = ext[q] /\ extTimer'[q] = extTimer[q]
                                  /\ extCmd'[q] = extCmd[q] /\ extAge'[q] = extAge[q]
      /\ extAge'[p] = 0
  BY <1>1 DEF ExtGoto, Inv, Typed, Clocks
<1>3. \A q \in Callers \ {p} : Same(q)
  BY <1>1, <1>2 DEF Same
<1>4. KeyStep /\ Stored' = Stored
  BY <1>1 DEF KeyStep, Stored
<1>5. age'[p] <= MaxDelay /\ extAge'[p] <= MaxDelay
  BY <1>1, <1>2, Constants DEF Safe, Bounded
<1>6. Claims(p)' => Claims(p)
  BY <1>1 DEF Claims, Closed, Holds
<1>7. ASSUME Claims(p)' PROVE Fresh(p)'
  <2>1. Fresh(p) /\ Claims(p)
    BY <1>1, <1>6, <1>7 DEF Safe
  <2>2. ext[p] # "none"
    BY DEF ExtStep, AutoExtend, AutoExtendCancelled, AutoExtended, AutoExtendExits,
           AutoExtendFails
  <2>3. Holds(p) /\ pc[p] # "setnx" /\ ~released[p] /\ ~cancelled[p]
    BY <2>1, <2>2 DEF Claims, Closed, Holds, Inv, Shape
  <2>4. Holds(p)' /\ pc'[p] # "setnx"
    BY <1>1, <2>3 DEF Holds
  <2>5. ~(faults < MaxFaults)
    BY Parts DEF Punctual
  <2>6. CASE AutoExtend(p)
    <3>1. ext'[p] = "refresh" /\ extCmd'[p] = "sent" /\ extTimer[p] = 0 /\ ext[p] = "sleep"
      BY <2>3, <2>6 DEF AutoExtend, ExtGoto, Inv, Typed
    <3>2. Stored.ttl > MaxDelay
      BY <2>1, <2>3, <3>1, Constants DEF Fresh
    <3> QED
      BY <1>2, <1>4, <2>1, <2>4, <3>1, <3>2, Quantities DEF Fresh
  <2>7. CASE AutoExtended(p)
    <3>1. ext[p] = "refresh" /\ extCmd[p] = "yes" /\ Stored.ttl + extAge[p] >= Ttl
      BY <2>1, <2>3, <2>7 DEF AutoExtended, Fresh
    <3>2. ext'[p] = "sleep" /\ extTimer'[p] = ExtendInterval
      BY <2>3, <2>7, <3>1 DEF AutoExtended, ExtGoto, Inv, Typed, Clocks
    <3>3. extAge[p] <= MaxDelay
      BY DEF Safe, Bounded
    <3>4. Stored.ttl > ExtendInterval + MaxDelay
      BY <3>1, <3>3, Quantities, Constants DEF Punctual
    <3> QED
      BY <1>4, <2>1, <2>4, <3>2, <3>4 DEF Fresh
  <2>8. ~AutoExtendCancelled(p) /\ ~AutoExtendFails(p)
    BY <2>1, <2>3, <2>5 DEF AutoExtendCancelled, AutoExtendFails, Fault, Claims
  <2>9. ~AutoExtendExits(p)
    BY <2>1, <2>3 DEF AutoExtendExits, Fresh
  <2> QED
    BY <2>6, <2>7, <2>8, <2>9 DEF ExtStep
<1> QED
  BY <1>1, <1>3, <1>4, <1>5, <1>6, <1>7, OneStep
(* A SetNX is answered "yes" only when the key is free, and then nobody has *)
(* a claim.                                                                 *)
LEMMA ServeSafe ==
    ASSUME Punctual, Inv, Inv', Safe, NEW p \in Callers, Serve(p)
    PROVE  Safe'
<1>1. /\ UNCHANGED <<closed, call, pc, age, ext, extTimer, extCmd, extAge>>
      /\ cmd[p] = "sent" /\ store' = Effect(Op(p), p)
      /\ cmd' = [cmd EXCEPT ![p] = Answer(Op(p), p)]
  BY DEF Serve, extVars
<1>2. KeyStep
  BY ServedKeyStep
<1>3. \A q \in Callers \ {p} : Same(q)
  BY <1>1 DEF Same, Inv, Typed
<1>4. age'[p] <= MaxDelay /\ extAge'[p] <= MaxDelay
  BY <1>1 DEF Safe, Bounded
<1>5. CASE Claims(p)
  <2>1. Holds(p) /\ pc[p] # "setnx" /\ Fresh(p)
    BY <1>1, <1>5 DEF Claims, Safe, Holds
  <2>2. Stored'.owner = p /\ Stored'.ttl >= Stored.ttl
    BY <1>2, <1>5, <2>1, Kept DEF Fresh
  <2>3. Stored.ttl \in Nat /\ extTimer[p] \in Nat /\ extAge[p] \in Nat
    BY Quantities
  <2>4. Stored'.ttl \in Nat
    <3>1. Stored' \in KeySet
      BY DEF Inv, Typed, Stored, KeyNames
    <3> QED
      BY <3>1, Constants DEF KeySet
  <2>5. Holds(p)' /\ pc'[p] # "setnx"
    BY <1>1, <2>1 DEF Holds
  <2>6. Fresh(p)'
    BY <1>1, <2>1, <2>2, <2>3, <2>4, <2>5, Constants DEF Fresh
  <2> QED
    BY <1>1, <1>2, <1>3, <1>4, <1>5, <2>6, OneStep
<1>6. CASE ~Claims(p) /\ Claims(p)'
  <2>1. pc[p] = "setnx" /\ cmd'[p] = "yes" /\ ~Holds(p)'
    BY <1>1, <1>6 DEF Claims, Closed, Holds
  <2>2. Op(p) = "setnx" /\ "setnx" \in Ops
    BY <2>1 DEF Op, Ops
  <2>3. Stored = NoKey
    BY <1>1, <2>1, <2>2 DEF Answer, KeyOf, Stored, Inv, Typed
  <2>4. Stored' = Key(p)
    BY <1>1, <2>2, <2>3 DEF Effect, SetNX, KeyOf, Stored, Inv, Typed, KeyNames
  <2>5. Stored'.owner = p /\ Stored'.ttl = Ttl
    BY <2>4, KeyOwner
  <2>6. Fresh(p)'
    BY <1>1, <2>1, <2>5, Quantities, Constants DEF Fresh
  <2> QED
    BY <1>1, <1>2, <1>3, <1>4, <2>3, <2>6, OneStep
<1>7. CASE ~Claims(p)'
  BY <1>1, <1>2, <1>3, <1>4, <1>7, OneStep
<1> QED
  BY <1>5, <1>6, <1>7

(* A refresh of the owner is answered "yes".                                *)
LEMMA ServeExtSafe ==
    ASSUME Punctual, Inv, Inv', Safe, NEW p \in Callers, ServeExt(p)
    PROVE  Safe'
<1>1. /\ UNCHANGED <<closed, call, pc, cmd, age, ext, extTimer, extAge>>
      /\ extCmd[p] = "sent" /\ store' = Effect("refresh", p)
      /\ extCmd' = [extCmd EXCEPT ![p] = Answer("refresh", p)]
  BY DEF ServeExt, callerVars
<1>2. KeyStep
  BY ServedKeyStep
<1>3. \A q \in Callers \ {p} : Same(q)
  BY <1>1 DEF Same, Inv, Typed
<1>4. age'[p] <= MaxDelay /\ extAge'[p] <= MaxDelay
  BY <1>1 DEF Safe, Bounded
<1>5. Claims(p)' => Claims(p)
  BY <1>1 DEF Claims, Closed, Holds
<1>6. ASSUME Claims(p) PROVE Fresh(p)'
  <2>1. Fresh(p) /\ ext[p] = "refresh"
    BY <1>1, <1>6 DEF Safe, Inv, Shape
  <2>2. Holds(p) /\ pc[p] # "setnx"
    BY <1>6, <2>1 DEF Claims, Closed, Holds, Inv, Shape
  <2>3. Owns(p)
    BY <2>1, OwnsStored DEF Fresh
  <2>4. Stored' = Key(p)
    BY <1>1, <2>3 DEF Effect, luaRefresh, KeyOf, Stored, Inv, Typed, KeyNames
  <2>5. Stored'.owner = p /\ Stored'.ttl = Ttl
    BY <2>4, KeyOwner
  <2>6. extCmd'[p] = "yes" /\ ext'[p] = "refresh" /\ extAge'[p] = extAge[p] /\ pc'[p] # "setnx"
    BY <1>1, <2>1, <2>2, <2>3 DEF Answer, Inv, Typed
  <2> QED
    BY <2>5, <2>6, Quantities, Constants DEF Fresh
<1> QED
  BY <1>1, <1>2, <1>3, <1>4, <1>5, <1>6, OneStep

(* Steps that leave all callers as they are.                                *)
LEMMA AllSame ==
    ASSUME Inv, Inv', Safe, KeyStep, \A q \in Callers : Same(q), closed \subseteq closed'
    PROVE  Safe'
<1>1. \A q \in Callers : Claims(q)' => Claims(q)
  BY DEF Same, Claims, Closed, Holds
<1>2. Single' /\ Bounded'
  BY <1>1 DEF Safe, Single, Bounded, Same
<1>3. ASSUME NEW q \in Callers, Claims(q)' PROVE Fresh(q)'
  BY <1>1, <1>3, FreshSame DEF Safe
<1> QED
  BY <1>2, <1>3 DEF Safe

LEMMA SurroundingsSafe ==
    ASSUME Punctual, Inv, Inv', Safe,
           ServeStray \/ DropStray \/ (\E l \in Lockers : Close(l)) \/ UNCHANGED vars
    PROVE  Safe'
<1>1. UNCHANGED <<call, pc, cmd, age, ext, extTimer, extCmd, extAge>>
  BY DEF ServeStray, DropStray, Close, vars, callerVars, extVars
<1>2. \A q \in Callers : Same(q)
  BY <1>1 DEF Same
<1>3. KeyStep
  BY ServedKeyStep DEF DropStray, Close, vars, KeyStep, Stored
<1>4. closed \subseteq closed'
  BY DEF ServeStray, DropStray, Close, vars
<1> QED
  BY <1>2, <1>3, <1>4, AllSame

LEMMA ExpireSafe ==
    ASSUME Punctual, Inv, Inv', Safe, NEW p \in Callers, Expire(p)
    PROVE  Safe'
<1>1. /\ UNCHANGED <<store, closed, pc, cmd, age, ext, extTimer, extCmd, extAge>>
      /\ call' = [call EXCEPT ![p].expired = TRUE]
  BY DEF Expire, extVars
<1>2. \A q \in Callers : call'[q].auto = call[q].auto
  BY <1>1 DEF Inv, Typed, CallSet
<1>3. \A q \in Callers : Same(q)
  BY <1>1, <1>2 DEF Same
<1>4. KeyStep
  BY <1>1 DEF KeyStep, Stored
<1> QED
  BY <1>1, <1>3, <1>4, AllSame

LEMMA CrashSafe ==
    ASSUME Punctual, Inv, Inv', Safe, NEW p \in Callers, Crash(p)
    PROVE  Safe'
<1>1. /\ UNCHANGED <<store, closed, call>>
      /\ Goto(p, "crashed") /\ ExtGoto(p, "none", 0)
  BY DEF Crash
<1>2. \A q \in Callers \ {p} : Same(q)
  BY <1>1 DEF Goto, ExtGoto, Same, Inv, Typed, Clocks
<1>3. pc'[p] = "crashed" /\ age'[p] = 0 /\ extAge'[p] = 0
  BY <1>1 DEF Goto, ExtGoto, Inv, Typed, Clocks
<1>4. ~Claims(p)'
  BY <1>3 DEF Claims, Closed, Holds
<1>5. KeyStep
  BY <1>1 DEF KeyStep, Stored
<1> QED
  BY <1>1, <1>2, <1>3, <1>4, <1>5, Constants, OneStep

(* Time passes only when nothing is due: no key of a claimant is at its     *)
(* last tick.                                                               *)
LEMMA TickSafe ==
    ASSUME Punctual, Inv, Inv', Safe, Tick
    PROVE  Safe'
<1>1. /\ UNCHANGED <<closed, call, pc, cmd, ext, extCmd>>
      /\ Prompt
      /\ age' = [p \in Callers |-> IF cmd[p] # "none" THEN age[p] + 1 ELSE 0]
      /\ extAge' = [p \in Callers |-> IF extCmd[p] # "none" THEN extAge[p] + 1 ELSE 0]
      /\ extTimer' = [p \in Callers |-> IF extTimer[p] > 0 THEN extTimer[p] - 1 ELSE 0]
  BY DEF Tick, Punctual
<1>2. Stored' = Decay(Stored)
  BY DEF Tick, Stored, KeyNames
<1>3. \A p \in Callers : Claims(p)' <=> Claims(p)
  BY <1>1 DEF Claims, Closed, Holds
<1>4. Single'
  BY <1>3 DEF Safe, Single
<1>5. Bounded'
  <2> SUFFICES ASSUME NEW p \in Callers PROVE age'[p] <= MaxDelay /\ extAge'[p] <= MaxDelay
    BY DEF Bounded
  <2>1. age[p] \in Nat /\ extAge[p] \in Nat
    BY Quantities
  <2>2. /\ cmd[p] # "none" => age[p] < MaxDelay
        /\ extCmd[p] # "none" => extAge[p] < MaxDelay
    BY <1>1 DEF Prompt
  <2> QED
    BY <1>1, <2>1, <2>2, Constants
<1>6. ASSUME NEW p \in Callers, Claims(p)' PROVE Fresh(p)'
  <2>1. Fresh(p) /\ Claims(p)
    BY <1>1, <1>3, <1>6 DEF Safe
  <2>2. /\ Stored \in KeySet /\ Stored.ttl \in Nat /\ age[p] \in Nat /\ extTimer[p] \in Nat
        /\ extAge[p] \in Nat
    BY Quantities
  <2>3. /\ cmd[p] # "none" => age[p] < MaxDelay
        /\ extCmd[p] # "none" => extAge[p] < MaxDelay
        /\ ext[p] = "sleep" => extTimer[p] # 0
    BY <1>1 DEF Prompt
  <2>4. Holds(p)' <=> Holds(p)
    BY <1>1 DEF Holds
  <2>5. CASE pc[p] = "setnx"
    <3>1. cmd[p] = "yes" /\ ~Holds(p)
      BY <2>1, <2>5 DEF Claims, Closed, Holds
    <3>2. Stored.ttl + age[p] >= Ttl /\ age[p] < MaxDelay
      BY <2>1, <2>3, <2>5, <3>1 DEF Fresh
    <3>3. Stored.ttl > 1
      <4>1. 2 * MaxDelay < Ttl
        BY Constants DEF Punctual
      <4> QED
        BY <2>2, <3>2, <4>1, Constants
    <3>4. Stored'.owner = Stored.owner /\ Stored'.ttl = Stored.ttl - 1
      BY <1>2, <2>2, <3>3, DecayOf
    <3>5. age'[p] = age[p] + 1
      BY <1>1, <3>1
    <3>6. Stored'.ttl + age'[p] >= Ttl
      BY <2>2, <3>2, <3>4, <3>5, Constants
    <3> QED
      BY <2>1, <2>4, <3>1, <3>4, <3>6 DEF Fresh
  <2>6. CASE pc[p] # "setnx"
    <3>1. Holds(p) /\ pc'[p] # "setnx"
      BY <1>1, <2>1, <2>6 DEF Claims, Closed
    <3>2. CASE ext[p] = "sleep"
      <4>1. Stored.ttl > extTimer[p] + MaxDelay /\ extTimer[p] > 0
        BY <2>1, <2>2, <2>3, <3>1, <3>2 DEF Fresh
      <4>2. Stored.ttl > 1 /\ extTimer'[p] = extTimer[p] - 1
        BY <1>1, <2>2, <4>1, Constants
      <4>3. Stored'.owner = Stored.owner /\ Stored'.ttl = Stored.ttl - 1
        BY <1>2, <2>2, <4>2, DecayOf
      <4>4. Stored'.ttl > extTimer'[p] + MaxDelay
        BY <2>2, <4>1, <4>2, <4>3, Constants
      <4> QED
        BY <1>1, <2>1, <3>1, <3>2, <4>3, <4>4 DEF Fresh
    <3>3. CASE ext[p] = "refresh"
      <4>1. extCmd[p] # "none" /\ extAge[p] < MaxDelay /\ extAge'[p] = extAge[p] + 1
        BY <1>1, <2>3, <3>3 DEF Inv, Shape
      <4>2. \/ extCmd[p] = "sent" /\ Stored.ttl + extAge[p] > MaxDelay
            \/ extCmd[p] = "yes" /\ Stored.ttl + extAge[p] >= Ttl
        BY <2>1, <3>1, <3>3 DEF Fresh
      <4>3. Stored.ttl > 1
        <5>1. 2 * MaxDelay < Ttl
          BY Constants DEF Punctual
        <5> QED
          BY <2>2, <4>1, <4>2, <5>1, Constants
      <4>4. Stored'.owner = Stored.owner /\ Stored'.ttl = Stored.ttl - 1
        BY <1>2, <2>2, <4>3, DecayOf
      <4>5. Stored'.ttl + extAge'[p] = Stored.ttl + extAge[p]
        BY <2>2, <4>1, <4>4
      <4> QED
        BY <1>1, <2>1, <3>1, <3>3, <4>2, <4>4, <4>5 DEF Fresh
    <3> QED
      BY <2>1, <3>1, <3>2, <3>3 DEF Fresh
  <2> QED
    BY <2>5, <2>6
<1> QED
  BY <1>4, <1>5, <1>6 DEF Safe

LEMMA NextSafe ==
    ASSUME Punctual, Inv, Inv', Safe, [Next]_vars
    PROVE  Safe'
<1>1. ASSUME NEW p \in Callers, Resend(p) PROVE FALSE
  BY <1>1, Parts DEF Resend, Punctual
<1>2. ASSUME NEW p \in Callers, CallerStep(p) PROVE Safe'
  BY <1>2, CallerSafe, AcquiredSafe DEF CallerStep
<1> QED
  BY <1>1, <1>2, CallerSafe, ExpireSafe, ExtSafe, ServeSafe, ServeExtSafe, CrashSafe,
     SurroundingsSafe, TickSafe DEF Next

LEMMA InitSafe == Init => Safe
<1> SUFFICES ASSUME Init PROVE Safe
  OBVIOUS
<1>1. \A p \in Callers : pc[p] = "start" /\ age[p] = 0 /\ extAge[p] = 0
  BY DEF Init
<1>2. \A p \in Callers : ~Claims(p)
  BY <1>1 DEF Claims, Closed, Holds
<1> QED
  BY <1>1, <1>2, Constants DEF Safe, Single, Bounded

(* While Redis answers within MaxDelay and no command fails, two callers    *)
(* with auto-extension never hold the lock at the same time, however long   *)
(* they keep it, whichever of them crash, and whatever Lockers are closed   *)
(* but their own.                                                           *)
THEOREM AutoExtendedLocksExclude ==
    ASSUME Punctual PROVE Spec => []MutualExclusion
<1>1. Init => Safe
  BY InitSafe
<1>2. Inv /\ Inv' /\ Safe /\ [Next]_vars => Safe'
  BY NextSafe
<1>3. Safe => MutualExclusion
  BY DEF Safe, Single, Claims, MutualExclusion
<1> QED
  BY <1>1, <1>2, <1>3, Invariance, PTL DEF Spec

=============================================================================
