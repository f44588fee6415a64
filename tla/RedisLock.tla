------------------------------ MODULE RedisLock ------------------------------
(***************************************************************************)
(* The Redis lock of pkg/distribute/locker.go: Locker.TryLock and          *)
(* Locker.Lock, Lock.Extend, Lock.Unlock, the auto-extend goroutine, and   *)
(* Locker.Close.                                                           *)
(*                                                                         *)
(* A caller is one call of TryLock or Lock and the Lock object it returns; *)
(* mergeOptions gives each a fresh uuid as owner, so the caller itself     *)
(* stands for the owner.  A process that locks twice is two callers.       *)
(*                                                                         *)
(* A Redis command is sent, executed by the server, and answered in three  *)
(* steps.  Time is a Tick that ages the keys, the auto-extend timers and   *)
(* the commands under way.                                                 *)
(***************************************************************************)
EXTENDS Integers

CONSTANTS
    Callers,
    None,           \* no owner
    Resources,      \* names passed to TryLock and Lock
    Ttl,            \* opt.Ttl, in ticks
    Modes,          \* the calls made: subset of {"try", "lock", "noretry"}
    AutoChoices,    \* values of ~disableAutoExtend in use
    MayExtend,      \* do holders call Extend themselves?
    Timely,         \* are commands answered within MaxDelay and timers prompt?
    MaxDelay,       \* bound on a command's round trip when Timely
    MaxFaults,      \* bound: commands that fail or lose their reply
    MayCrash,       \* callers whose process may crash
    Lockers,        \* the Locker objects, each with a Redis client of its own
    LockerOf,       \* the Locker each caller uses
    MayClose        \* Lockers on which Close may be called

ASSUME RedisLockAssumption ==
    /\ None \notin Callers
    /\ Ttl \in Nat \ {0}
    /\ Modes \subseteq {"try", "lock", "noretry"}
    /\ AutoChoices \subseteq BOOLEAN
    /\ MayExtend \in BOOLEAN
    /\ Timely \in BOOLEAN
    /\ MaxDelay \in Nat
    /\ MaxFaults \in Nat
    /\ MayCrash \subseteq Callers
    /\ LockerOf \in [Callers -> Lockers]
    /\ MayClose \subseteq Lockers

VARIABLES
    store,      \* the Redis keys: owner and remaining time to live
    stray,      \* commands given up by their sender, still on their way
    faults,
    closed,     \* the Lockers with redisClient = nil
    call,       \* call[p]: mode, resource, auto-extension and deadline state
    pc,         \* where the caller's own goroutine is
    cmd,        \* its Redis command: "none", "sent", "yes" or "no"
    age,        \* how long that command has been under way
    released,   \* Lock.released
    cancelled,  \* the context of the auto-extend goroutine
    chCancelDone,   \* "nil", "empty" or "full": a channel with one slot
    ext,        \* where the auto-extend goroutine is
    extTimer,   \* time left in its time.After
    extCmd,     \* its Redis command
    extAge

callerVars == <<call, pc, cmd, age, released, cancelled>>
extVars    == <<ext, extTimer, extCmd, extAge>>
vars       == <<store, stray, faults, closed, callerVars, chCancelDone, extVars>>

(* opt.Ttl / 3 * 2, in Go's integer division.                               *)
ExtendInterval == (Ttl \div 3) * 2

(* The client of the caller's Locker is closed: Lock keeps a pointer to the *)
(* same client, so what the holder does with it fails as well.              *)
Closed(p) == LockerOf[p] \in closed

NoKey == [owner |-> None, ttl |-> 0]

Key(p) == [owner |-> p, ttl |-> Ttl]

EmptyResource == "empty"

KeyNames == Resources \union {EmptyResource}

(* opt.Resource, the key of every command.  mergeOptions builds a fresh     *)
(* LockOptions and nobody stores the resource argument in it, so the key is *)
(* the empty string whatever the resource.                                  *)
KeyOf(p) == EmptyResource

-----------------------------------------------------------------------------
(* External: the three commands, as the server runs them.                   *)

(* Mutant: a key without a time to live.                                    *)
SetNXForever(p) ==
    IF store[KeyOf(p)] = NoKey
    THEN [store EXCEPT ![KeyOf(p)] = [owner |-> p, ttl |-> 0]] ELSE store

SetNX(p) ==
    IF store[KeyOf(p)] = NoKey THEN [store EXCEPT ![KeyOf(p)] = Key(p)] ELSE store

Owns(p) == store[KeyOf(p)].owner = p

(* Mutant: a refresh without the comparison of the script.                  *)
RefreshBlind(p) == [store EXCEPT ![KeyOf(p)] = Key(p)]

(* Mutant: a refresh that does not set the time to live.                    *)
RefreshNothing(p) == store

(* luaRefresh: compare with the owner, then pexpire.                        *)
luaRefresh(p) == IF Owns(p) THEN [store EXCEPT ![KeyOf(p)] = Key(p)] ELSE store

(* Mutant: a plain DEL.                                                     *)
ReleaseBlind(p) == [store EXCEPT ![KeyOf(p)] = NoKey]

(* luaRelease: compare with the owner, then del.                            *)
luaRelease(p) == IF Owns(p) THEN [store EXCEPT ![KeyOf(p)] = NoKey] ELSE store

Effect(op, p) ==
    CASE op = "setnx"   -> SetNX(p)
      [] op = "refresh" -> luaRefresh(p)
      [] op = "release" -> luaRelease(p)

Answer(op, p) ==
    IF op = "setnx" THEN IF store[KeyOf(p)] = NoKey THEN "yes" ELSE "no"
    ELSE IF Owns(p) THEN "yes" ELSE "no"

(* The command the caller waits for.                                        *)
Op(p) ==
    CASE pc[p] = "setnx"   -> "setnx"
      [] pc[p] = "extend"  -> "refresh"
      [] pc[p] = "release" -> "release"

-----------------------------------------------------------------------------
Init ==
    /\ store = [k \in KeyNames |-> NoKey]
    /\ stray = {}
    /\ faults = 0
    /\ closed = {}
    /\ call \in [Callers -> [mode : Modes, resource : Resources,
                             auto : AutoChoices, expired : {FALSE}]]
    /\ pc = [p \in Callers |-> "start"]
    /\ cmd = [p \in Callers |-> "none"]
    /\ age = [p \in Callers |-> 0]
    /\ released = [p \in Callers |-> FALSE]
    /\ cancelled = [p \in Callers |-> FALSE]
    /\ chCancelDone = [p \in Callers |-> "nil"]
    /\ ext = [p \in Callers |-> "none"]
    /\ extTimer = [p \in Callers |-> 0]
    /\ extCmd = [p \in Callers |-> "none"]
    /\ extAge = [p \in Callers |-> 0]

(* The caller's goroutine goes to l, with or without a command sent.        *)
Goto(p, l) ==
    /\ pc' = [pc EXCEPT ![p] = l]
    /\ cmd' = [cmd EXCEPT ![p] = "none"]
    /\ age' = [age EXCEPT ![p] = 0]

Send(p, l) ==
    /\ pc' = [pc EXCEPT ![p] = l]
    /\ cmd' = [cmd EXCEPT ![p] = "sent"]
    /\ age' = [age EXCEPT ![p] = 0]

(* TryLock and Lock: with a client, send SetNX; without one, return         *)
(* ErrClientIsNil.                                                          *)
Start(p) ==
    /\ pc[p] = "start"
    /\ IF Closed(p) THEN Goto(p, "failed") ELSE Send(p, "setnx")
    /\ UNCHANGED <<store, stray, faults, closed, call, released, cancelled,
                   chCancelDone, extVars>>

(* SetNX answered true: return the Lock, its auto-extend goroutine started. *)
Acquired(p) ==
    /\ pc[p] = "setnx" /\ cmd[p] = "yes"
    /\ Goto(p, "held")
    /\ IF call[p].auto
       THEN /\ chCancelDone' = [chCancelDone EXCEPT ![p] = "empty"]
            /\ ext' = [ext EXCEPT ![p] = "sleep"]
            /\ extTimer' = [extTimer EXCEPT ![p] = ExtendInterval]
       ELSE UNCHANGED <<chCancelDone, ext, extTimer>>
    /\ UNCHANGED <<store, stray, faults, closed, call, released, cancelled,
                   extCmd, extAge>>

(* SetNX answered false: TryLock returns nil, Lock backs off.  A backoff of *)
(* NoRetry, 0, becomes 10ms like any shorter one.                           *)
Refused(p) ==
    /\ pc[p] = "setnx" /\ cmd[p] = "no"
    /\ Goto(p, IF call[p].mode = "try" THEN "failed" ELSE "backoff")
    /\ UNCHANGED <<store, stray, faults, closed, call, released, cancelled,
                   chCancelDone, extVars>>

(* The deadline of the context made by lockWithOptions passes.              *)
Expire(p) ==
    /\ pc[p] \in {"setnx", "backoff"} /\ call[p].mode # "try"
    /\ ~call[p].expired
    /\ call' = [call EXCEPT ![p].expired = TRUE]
    /\ UNCHANGED <<store, stray, faults, closed, pc, cmd, age, released,
                   cancelled, chCancelDone, extVars>>

(* Mutant: the loop does not look at its context.                           *)
RetryForever(p) ==
    /\ pc[p] = "backoff"
    /\ ~Closed(p)
    /\ Send(p, "setnx")
    /\ UNCHANGED <<store, stray, faults, closed, call, released, cancelled,
                   chCancelDone, extVars>>

(* After the backoff, or when the deadline passed: the head of the loop     *)
(* fails without a client or with an expired context, else tries again.     *)
Retry(p) ==
    /\ pc[p] = "backoff"
    /\ IF Closed(p) \/ call[p].expired THEN Goto(p, "failed") ELSE Send(p, "setnx")
    /\ UNCHANGED <<store, stray, faults, closed, call, released, cancelled,
                   chCancelDone, extVars>>

(* Lock.Extend called by the holder.                                        *)
Extend(p) ==
    /\ MayExtend /\ pc[p] = "held"
    /\ Send(p, "extend")
    /\ UNCHANGED <<store, stray, faults, closed, call, released, cancelled,
                   chCancelDone, extVars>>

ExtendReturns(p) ==
    /\ pc[p] = "extend" /\ cmd[p] \in {"yes", "no"}
    /\ Goto(p, "held")
    /\ UNCHANGED <<store, stray, faults, closed, call, released, cancelled,
                   chCancelDone, extVars>>

(* Lock.Unlock: mark the lock released, cancel the goroutine and wait for   *)
(* it, or, without auto-extension, send the release at once.  A second call *)
(* finds the lock released and returns; nothing changes.                    *)
Unlock(p) ==
    /\ pc[p] = "held"
    /\ released' = [released EXCEPT ![p] = TRUE]
    /\ IF call[p].auto
       THEN cancelled' = [cancelled EXCEPT ![p] = TRUE] /\ Goto(p, "unlocking")
       ELSE UNCHANGED cancelled /\ Send(p, "release")
    /\ UNCHANGED <<store, stray, faults, closed, call, chCancelDone, extVars>>

(* The goroutine's message, or the timeout of one second, ends the wait.    *)
(* A runnable goroutine is scheduled well within a second, so the timeout   *)
(* comes first only while the goroutine waits for Redis.                    *)
GoroutineDone(p) ==
    /\ pc[p] = "unlocking" /\ chCancelDone[p] = "full"
    /\ chCancelDone' = [chCancelDone EXCEPT ![p] = "empty"]
    /\ Send(p, "release")
    /\ UNCHANGED <<store, stray, faults, closed, call, released, cancelled,
                   extVars>>

WaitTimesOut(p) ==
    /\ pc[p] = "unlocking" /\ ext[p] = "refresh"
    /\ Send(p, "release")
    /\ UNCHANGED <<store, stray, faults, closed, call, released, cancelled,
                   chCancelDone, extVars>>

(* Unlock returns; its deferred function drops the channel.                 *)
UnlockReturns(p) ==
    /\ pc[p] = "release" /\ cmd[p] \in {"yes", "no"}
    /\ Goto(p, "done")
    /\ chCancelDone' = [chCancelDone EXCEPT ![p] = "nil"]
    /\ UNCHANGED <<store, stray, faults, closed, call, released, cancelled,
                   extVars>>

(* A command fails, on a fault or because the client is closed or its       *)
(* context is done.                                                         *)
Fault(p, contextDone) ==
    IF Closed(p) \/ contextDone THEN UNCHANGED faults
    ELSE faults < MaxFaults /\ faults' = faults + 1

(* TryLock, Lock, Extend or Unlock returns the error.  The server may have  *)
(* run the command, or may run it later.                                    *)
Fails(p) ==
    /\ cmd[p] # "none"
    /\ Fault(p, call[p].expired /\ pc[p] = "setnx")
    /\ stray' = IF cmd[p] = "sent" THEN stray \union {<<Op(p), p>>} ELSE stray
    /\ \/ pc[p] = "setnx" /\ Goto(p, "failed") /\ UNCHANGED chCancelDone
       \/ pc[p] = "extend" /\ Goto(p, "held") /\ UNCHANGED chCancelDone
       \/ /\ pc[p] = "release"
          /\ Goto(p, "done")
          /\ chCancelDone' = [chCancelDone EXCEPT ![p] = "nil"]
    /\ UNCHANGED <<store, closed, call, released, cancelled, extVars>>

-----------------------------------------------------------------------------
(* The auto-extend goroutine.                                               *)

ExtGoto(p, l, timer) ==
    /\ ext' = [ext EXCEPT ![p] = l]
    /\ extTimer' = [extTimer EXCEPT ![p] = timer]
    /\ extCmd' = [extCmd EXCEPT ![p] = IF l = "refresh" THEN "sent" ELSE "none"]
    /\ extAge' = [extAge EXCEPT ![p] = 0]

(* The timer fires: Extend, unless the lock is released.                    *)
AutoExtend(p) ==
    /\ ext[p] = "sleep" /\ extTimer[p] = 0
    /\ ExtGoto(p, IF released[p] THEN "sending" ELSE "refresh", 0)
    /\ UNCHANGED <<store, stray, faults, closed, callerVars, chCancelDone>>

(* ctx.Done, in the select or, with the released flag, at the loop's head.  *)
AutoExtendCancelled(p) ==
    /\ ext[p] = "sleep" /\ cancelled[p]
    /\ ExtGoto(p, "sending", 0)
    /\ UNCHANGED <<store, stray, faults, closed, callerVars, chCancelDone>>

(* Extend returned: sleep again, or end when it was refused or released.    *)
AutoExtended(p) ==
    /\ ext[p] = "refresh" /\ extCmd[p] \in {"yes", "no"}
    /\ IF extCmd[p] = "yes" /\ ~released[p]
       THEN ExtGoto(p, "sleep", ExtendInterval)
       ELSE ExtGoto(p, "sending", 0)
    /\ UNCHANGED <<store, stray, faults, closed, callerVars, chCancelDone>>

(* Extend failed: any error ends the goroutine.                             *)
AutoExtendFails(p) ==
    /\ ext[p] = "refresh"
    /\ Fault(p, cancelled[p])
    /\ stray' = IF extCmd[p] = "sent" THEN stray \union {<<"refresh", p>>} ELSE stray
    /\ ExtGoto(p, "sending", 0)
    /\ UNCHANGED <<store, closed, callerVars, chCancelDone>>

(* The deferred send on l.chCancelDone: into the slot, or, when Unlock has  *)
(* set the field to nil, nowhere, for ever.                                 *)
AutoExtendExits(p) ==
    /\ ext[p] = "sending" /\ chCancelDone[p] = "empty"
    /\ chCancelDone' = [chCancelDone EXCEPT ![p] = "full"]
    /\ ExtGoto(p, "exited", 0)
    /\ UNCHANGED <<store, stray, faults, closed, callerVars>>

-----------------------------------------------------------------------------
(* External: the server, the network, the processes and time.               *)

(* A command is run and answered, over a client that is not closed.         *)
Serve(p) ==
    /\ cmd[p] = "sent" /\ ~Closed(p)
    /\ store' = Effect(Op(p), p)
    /\ cmd' = [cmd EXCEPT ![p] = Answer(Op(p), p)]
    /\ UNCHANGED <<stray, faults, closed, call, pc, age, released, cancelled,
                   chCancelDone, extVars>>

ServeExt(p) ==
    /\ extCmd[p] = "sent" /\ ~Closed(p)
    /\ store' = Effect("refresh", p)
    /\ extCmd' = [extCmd EXCEPT ![p] = Answer("refresh", p)]
    /\ UNCHANGED <<stray, faults, closed, callerVars, chCancelDone, ext,
                   extTimer, extAge>>

(* The answer is lost and the client library sends the command again.       *)
Resend(p) ==
    /\ cmd[p] \in {"yes", "no"} /\ faults < MaxFaults
    /\ faults' = faults + 1
    /\ cmd' = [cmd EXCEPT ![p] = "sent"]
    /\ UNCHANGED <<store, stray, closed, call, pc, age, released, cancelled,
                   chCancelDone, extVars>>

(* A command that was given up arrives after all, or never.                 *)
ServeStray ==
    \E c \in stray :
        /\ stray' = stray \ {c}
        /\ store' = Effect(c[1], c[2])
        /\ UNCHANGED <<faults, closed, callerVars, chCancelDone, extVars>>

DropStray ==
    \E c \in stray :
        /\ stray' = stray \ {c}
        /\ UNCHANGED <<store, faults, closed, callerVars, chCancelDone, extVars>>

(* The caller's process dies between any two of its steps.                  *)
Crash(p) ==
    /\ p \in MayCrash /\ pc[p] \notin {"start", "failed", "done", "crashed"}
    /\ stray' = stray \union (IF cmd[p] = "sent" THEN {<<Op(p), p>>} ELSE {})
                      \union (IF extCmd[p] = "sent" THEN {<<"refresh", p>>} ELSE {})
    /\ Goto(p, "crashed")
    /\ ExtGoto(p, "none", 0)
    /\ UNCHANGED <<store, faults, closed, call, released, cancelled, chCancelDone>>

(* Locker.Close: the client of this Locker is closed and forgotten; other   *)
(* Lockers, of this process or another, go on.                              *)
Close(l) ==
    /\ l \in MayClose \ closed
    /\ closed' = closed \union {l}
    /\ UNCHANGED <<store, stray, faults, callerVars, chCancelDone, extVars>>

(* When Timely, no command is under way longer than MaxDelay and the        *)
(* auto-extend timer fires when it is due.                                  *)
Prompt ==
    \A p \in Callers :
        /\ cmd[p] # "none" => age[p] < MaxDelay
        /\ extCmd[p] # "none" => extAge[p] < MaxDelay
        /\ ~ (ext[p] = "sleep" /\ extTimer[p] = 0)

(* A time to live of 0 is none at all.                                      *)
Decay(k) ==
    IF k.ttl = 0 THEN k
    ELSE IF k.ttl > 1 THEN [k EXCEPT !.ttl = @ - 1] ELSE NoKey

Tick ==
    /\ Timely => Prompt
    /\ store' = [k \in KeyNames |-> Decay(store[k])]
    /\ extTimer' = [p \in Callers |->
                       IF extTimer[p] > 0 THEN extTimer[p] - 1 ELSE 0]
    /\ IF Timely
       THEN /\ age' = [p \in Callers |-> IF cmd[p] # "none" THEN age[p] + 1 ELSE 0]
            /\ extAge' = [p \in Callers |->
                             IF extCmd[p] # "none" THEN extAge[p] + 1 ELSE 0]
       ELSE UNCHANGED <<age, extAge>>
    /\ UNCHANGED <<stray, faults, closed, call, pc, cmd, released, cancelled,
                   chCancelDone, ext, extCmd>>

-----------------------------------------------------------------------------
(* What the caller's goroutine does by itself once the call has begun.      *)
CallerStep(p) ==
    \/ Acquired(p) \/ Refused(p) \/ Retry(p) \/ ExtendReturns(p)
    \/ GoroutineDone(p) \/ WaitTimesOut(p) \/ UnlockReturns(p)

ExtStep(p) ==
    \/ AutoExtend(p) \/ AutoExtendCancelled(p) \/ AutoExtended(p)
    \/ AutoExtendExits(p)

Next ==
    \/ \E p \in Callers :
          \/ Start(p) \/ Extend(p) \/ Unlock(p) \/ Expire(p)
          \/ CallerStep(p) \/ ExtStep(p) \/ Serve(p) \/ ServeExt(p)
          \/ Fails(p) \/ AutoExtendFails(p) \/ Resend(p) \/ Crash(p)
    \/ ServeStray \/ DropStray \/ (\E l \in Lockers : Close(l)) \/ Tick

Spec == Init /\ [][Next]_vars

(* Goroutines run, the server answers, a closed client fails, deadlines     *)
(* pass and so does time.                                                   *)
(* Nobody is obliged to lock, to extend or to unlock.                       *)
Fairness ==
    /\ WF_vars(Tick)
    /\ \A p \in Callers :
          /\ WF_vars(CallerStep(p) \/ Serve(p) \/ (Closed(p) /\ Fails(p)))
          /\ WF_vars(ExtStep(p) \/ ServeExt(p) \/ (Closed(p) /\ AutoExtendFails(p)))
          /\ WF_vars(Expire(p))

FairSpec == Spec /\ Fairness

-----------------------------------------------------------------------------
Labels == {"start", "setnx", "backoff", "held", "extend", "unlocking",
           "release", "done", "failed", "crashed"}

CmdStates == {"none", "sent", "yes", "no"}

TypeOK ==
    /\ store \in [KeyNames -> [owner : Callers \union {None}, ttl : 0 .. Ttl]]
    /\ stray \subseteq {"setnx", "refresh", "release"} \X Callers
    /\ faults \in 0 .. MaxFaults
    /\ closed \subseteq Lockers
    /\ call \in [Callers -> [mode : Modes, resource : Resources,
                             auto : AutoChoices, expired : BOOLEAN]]
    /\ pc \in [Callers -> Labels]
    /\ cmd \in [Callers -> CmdStates]
    /\ \A p \in Callers : cmd[p] # "none" <=> pc[p] \in {"setnx", "extend", "release"}
    /\ age \in [Callers -> 0 .. MaxDelay]
    /\ released \in [Callers -> BOOLEAN]
    /\ cancelled \in [Callers -> BOOLEAN]
    /\ chCancelDone \in [Callers -> {"nil", "empty", "full"}]
    /\ ext \in [Callers -> {"none", "sleep", "refresh", "sending", "exited"}]
    /\ extTimer \in [Callers -> 0 .. ExtendInterval]
    /\ extCmd \in [Callers -> CmdStates]
    /\ extAge \in [Callers -> 0 .. MaxDelay]

(* The caller has a Lock in hand and has not called Unlock.                 *)
Holds(p) == pc[p] \in {"held", "extend"}

(* Two callers with auto-extension never hold the lock of one resource at   *)
(* the same time, as long as Redis answers in time: the goroutine refreshes *)
(* the key before it expires, however long the holder keeps the lock, and   *)
(* whatever Lockers other callers close.  A holder whose own Locker is      *)
(* closed is excepted: its refresh fails, nobody tells it, its key expires, *)
(* and a caller with another Locker acquires the lock beside it.            *)
MutualExclusion ==
    \A p, q \in Callers :
        /\ p # q
        /\ Holds(p) /\ Holds(q)
        /\ call[p].auto /\ call[q].auto
        /\ ~Closed(p) /\ ~Closed(q)
        => call[p].resource # call[q].resource

(* The key of a caller that holds the lock goes away by expiry only: no     *)
(* late Unlock, refresh or stray command of another caller removes or       *)
(* takes over a key that is not its own.                                    *)
HeldKeyOnlyExpires ==
    [][\A p \in Callers : Holds(p) /\ Holds(p)' /\ Owns(p) =>
           Owns(p)' \/ store[KeyOf(p)].ttl = 1]_vars

(* Nothing sets a key for a caller whose Lock call returned a lock: once it *)
(* lost the key, by expiry or by Unlock, no late refresh brings it back.    *)
NeverRegained ==
    [][\A p \in Callers : ~Owns(p) /\ Owns(p)' =>
           pc[p] \in {"setnx", "failed", "crashed"}]_vars

(* Every call of TryLock, Lock, Extend and Unlock returns, whatever fails:  *)
(* Lock by its deadline, Unlock by the timeout of its wait.                 *)
CallsReturn ==
    \A p \in Callers :
        pc[p] \in {"setnx", "backoff", "extend", "unlocking", "release"} ~>
            pc[p] \in {"held", "done", "failed", "crashed"}

(* A key whose owner is gone does not block the resource for ever: after a  *)
(* crash, a lost answer to SetNX or a failed release it expires.            *)
AbandonedKeyExpires ==
    \A p \in Callers :
        Owns(p) /\ pc[p] \in {"done", "failed", "crashed"} ~> ~Owns(p)

(* "等待自动续期协程退出": the auto-extend goroutine ends after Unlock.       *)
GoroutineExits ==
    \A p \in Callers : released[p] ~> ext[p] \in {"none", "exited"}

(* The comment on TryLock: it finds the task "already running" only when a  *)
(* call for the same resource was made before.                              *)
BusyMeansSameResource ==
    [][\A p \in Callers :
          /\ pc[p] = "setnx" /\ cmd[p] = "no" /\ pc'[p] = "failed"
          => \E q \in Callers \ {p} :
                call[q].resource = call[p].resource /\ pc[q] # "start"]_vars

(* "NoRetry acquire the lock only once": no second SetNX.                   *)
NoRetryTriesOnce ==
    [][\A p \in Callers : call[p].mode = "noretry" =>
           ~ (pc[p] = "backoff" /\ pc'[p] = "setnx")]_vars

=============================================================================
