------------------------------- MODULE RedLock --------------------------------
(***************************************************************************)
(* pkg/distribute/redlock.go: a redsync mutex over one Redis server, and   *)
(* the goroutine that extends it until Unlock.  Each caller locks once.    *)
(*                                                                         *)
(* Time is kept in countdowns: what is left of the life of the key, until  *)
(* the timer of the goroutine fires, until the answer to a command is due. *)
(* Redis answers within Delay and goroutines run when they may: the clock  *)
(* does not move past something that is due.                               *)
(***************************************************************************)
EXTENDS Integers

CONSTANTS
    RedCallers, NoCaller,
    Ttl,            \* RedLockerConfig.TTL
    Interval,       \* RedLockerConfig.AutoExtendInterval
    Delay,          \* the longest a command takes
    ExitWait,       \* the second that Unlock waits for the goroutine
    Tries,          \* RedLockerConfig.AcquireTries
    RedFaults       \* bound: commands that fail

ASSUME RedLockAssumption ==
    /\ {Ttl, Interval, Delay, ExitWait, Tries, RedFaults} \subseteq Nat
    /\ 0 < Delay /\ Delay < ExitWait
    /\ Interval + 2 * Delay < Ttl
    /\ NoCaller \notin RedCallers

VARIABLES
    key,        \* Redis: who set the key, and for how long it lives
    main,       \* the goroutine that locks and unlocks
    ext,        \* the goroutine that extends
    chans,      \* chAutoExtendDone, chExtendError: elements held; closed or not
    ctxDone,    \* the contexts the goroutines extend under that are done
    redFaults

redVars == <<key, main, ext, chans, ctxDone, redFaults>>

(* "answer" holds what an executed command will answer, "none" before.      *)
Idle == [at |-> "idle", left |-> 0, answer |-> "none", tries |-> 0]
NoChans == [done |-> 0, error |-> 0, open |-> FALSE]

RedInit ==
    /\ key = [by |-> NoCaller, left |-> 0]
    /\ main = [c \in RedCallers |-> Idle]
    /\ ext = [c \in RedCallers |-> Idle]
    /\ chans = [c \in RedCallers |-> NoChans]
    /\ ctxDone = {}
    /\ redFaults = 0

(* A command sent now.                                                      *)
Ask(at, tries) == [at |-> at, left |-> Delay, answer |-> "none", tries |-> tries]

Asking(g, c, at) == g[c].at = at /\ g[c].answer = "none"
Answered(g, c, at) == g[c].at = at /\ g[c].answer # "none"

NoKey == [by |-> NoCaller, left |-> 0]

-----------------------------------------------------------------------------
(* External: Redis executes the commands of redsync, which touch the key    *)
(* only if it holds the value of the caller.  A command may fail, and a     *)
(* failed one may have set the key.                                         *)
Executes(c) ==
    \/ /\ Asking(main, c, "set")
       /\ main' = [main EXCEPT ![c].answer = IF key.by = NoCaller THEN "yes" ELSE "no"]
       /\ key' = IF key.by = NoCaller THEN [by |-> c, left |-> Ttl] ELSE key
       /\ UNCHANGED <<ext, redFaults>>
    \/ /\ Asking(main, c, "delete") \/ Asking(main, c, "release")
       /\ main' = [main EXCEPT ![c].answer = IF key.by = c THEN "yes" ELSE "no"]
       /\ key' = IF key.by = c THEN NoKey ELSE key
       /\ UNCHANGED <<ext, redFaults>>
    \/ /\ Asking(ext, c, "extend")
       /\ ext' = [ext EXCEPT ![c].answer = IF key.by = c THEN "yes" ELSE "no"]
       /\ key' = IF key.by = c THEN [key EXCEPT !.left = Ttl] ELSE key
       /\ UNCHANGED <<main, redFaults>>
    \/ /\ redFaults < RedFaults
       /\ redFaults' = redFaults + 1
       /\ \/ /\ \E at \in {"set", "release", "delete"} : Asking(main, c, at)
             /\ main' = [main EXCEPT ![c].answer = "no"]
             /\ UNCHANGED ext
          \/ /\ Asking(ext, c, "extend")
             /\ ext' = [ext EXCEPT ![c].answer = "no"]
             /\ UNCHANGED main
       /\ \/ UNCHANGED key
          \/ /\ Asking(main, c, "set") /\ key.by = NoCaller
             /\ key' = [by |-> c, left |-> Ttl]

Executed(c) == Executes(c) /\ UNCHANGED <<chans, ctxDone>>

-----------------------------------------------------------------------------
RedLockCall(c) ==
    /\ main[c].at = "idle"
    /\ main' = [main EXCEPT ![c] = Ask("set", 1)]
    /\ UNCHANGED <<key, ext, chans, ctxDone, redFaults>>

autoExtend(c) ==
    /\ ext' = [ext EXCEPT ![c].at = "timer", ![c].left = Interval]
    /\ chans' = [chans EXCEPT ![c].open = TRUE]

(* The tries of redsync: a failed one releases what it may have set.  With  *)
(* the lock held, autoExtend starts the goroutine if that is configured.    *)
LockContext(c) ==
    /\ \/ /\ Answered(main, c, "set") /\ main[c].answer = "yes"
          /\ main' = [main EXCEPT ![c].at = "held", ![c].left = 0]
          /\ autoExtend(c) \/ UNCHANGED <<ext, chans>>
       \/ /\ Answered(main, c, "set") /\ main[c].answer = "no"
          /\ main' = [main EXCEPT ![c] = Ask("release", @.tries)]
          /\ UNCHANGED <<ext, chans>>
       \/ /\ Answered(main, c, "release")
          /\ main' = [main EXCEPT ![c] = IF @.tries < Tries THEN Ask("set", @.tries + 1)
                                         ELSE [@ EXCEPT !.at = "failed"]]
          /\ UNCHANGED <<ext, chans>>
    /\ UNCHANGED <<key, ctxDone, redFaults>>

-----------------------------------------------------------------------------
(* The goroutine of autoExtend.                                             *)

(* A send on a closed channel panics; the buffer of one is never full.      *)
Send(c, ch) ==
    IF chans[c].open
    THEN /\ chans' = [chans EXCEPT ![c][ch] = @ + 1]
         /\ ext' = [ext EXCEPT ![c].at = "ended"]
    ELSE /\ ext' = [ext EXCEPT ![c].at = "panic"]
         /\ UNCHANGED chans

ExtendDone(c) ==
    /\ ext[c].at = "timer"
    /\ c \in ctxDone
    /\ Send(c, "done")
    /\ UNCHANGED <<key, main, ctxDone, redFaults>>

(* The timer has fired; the command of a done context fails at once.        *)
ExtendTimer(c) ==
    /\ ext[c].at = "timer"
    /\ ext[c].left = 0
    /\ ext' = [ext EXCEPT ![c] =
                IF c \in ctxDone THEN [@ EXCEPT !.at = "extend", !.answer = "no"]
                ELSE Ask("extend", 0)]
    /\ UNCHANGED <<key, main, chans, ctxDone, redFaults>>

(* Mutant: a failed extension goes unreported.                              *)
ExtendAnswerSilent(c) ==
    /\ Answered(ext, c, "extend")
    /\ ext' = [ext EXCEPT ![c] = IF @.answer = "yes"
                                 THEN [@ EXCEPT !.at = "timer", !.left = Interval,
                                                !.answer = "none"]
                                 ELSE [@ EXCEPT !.at = "ended"]]
    /\ UNCHANGED <<key, main, chans, ctxDone, redFaults>>

ExtendAnswer(c) ==
    /\ Answered(ext, c, "extend")
    /\ IF ext[c].answer = "yes"
       THEN /\ ext' = [ext EXCEPT ![c] = [@ EXCEPT !.at = "timer", !.left = Interval,
                                                   !.answer = "none"]]
            /\ UNCHANGED chans
       ELSE Send(c, "error")
    /\ UNCHANGED <<key, main, ctxDone, redFaults>>

(* External: the caller's context is cancelled, and the goroutine's with it. *)
CtxCancelled(c) ==
    /\ main[c].at = "held"
    /\ c \notin ctxDone
    /\ ctxDone' = ctxDone \cup {c}
    /\ UNCHANGED <<key, main, ext, chans, redFaults>>

-----------------------------------------------------------------------------
(* Unlock.                                                                  *)
CancelExtend(c) ==
    /\ main[c].at = "held"
    /\ IF chans[c].open
       THEN /\ main' = [main EXCEPT ![c].at = "exit", ![c].left = ExitWait]
            /\ ctxDone' = ctxDone \cup {c}
       ELSE /\ main' = [main EXCEPT ![c] = Ask("delete", 0)]
            /\ UNCHANGED ctxDone
    /\ UNCHANGED <<key, ext, chans, redFaults>>

(* Mutant: Unlock does not wait for the goroutine.                          *)
ExitOrTimeoutNow(c) ==
    /\ main[c].at = "exit"
    /\ chans' = [chans EXCEPT ![c] = NoChans]
    /\ main' = [main EXCEPT ![c] = Ask("delete", 0)]
    /\ UNCHANGED <<key, ext, ctxDone, redFaults>>

ExitOrTimeout(c) ==
    /\ main[c].at = "exit"
    /\ \/ chans[c].done > 0
       \/ main[c].left = 0
    /\ chans' = [chans EXCEPT ![c] = NoChans]
    /\ main' = [main EXCEPT ![c] = Ask("delete", 0)]
    /\ UNCHANGED <<key, ext, ctxDone, redFaults>>

UnlockContext(c) ==
    /\ Answered(main, c, "delete")
    /\ main' = [main EXCEPT ![c].at = "unlocked"]
    /\ UNCHANGED <<key, ext, chans, ctxDone, redFaults>>

-----------------------------------------------------------------------------
(* External: the clock.  Due is an answer, a timer, or the end of a context. *)
Due(c) ==
    \/ main[c].at \in {"set", "release", "delete", "exit"} /\ main[c].left = 0
    \/ ext[c].at \in {"extend", "timer"} /\ ext[c].left = 0
    \/ ext[c].at = "timer" /\ c \in ctxDone

Down(n) == IF n = 0 THEN 0 ELSE n - 1

RedTick ==
    /\ \A c \in RedCallers : ~Due(c)
    /\ key' = IF key.left = 1 THEN NoKey ELSE [key EXCEPT !.left = Down(@)]
    /\ main' = [c \in RedCallers |-> [main[c] EXCEPT !.left = Down(@)]]
    /\ ext' = [c \in RedCallers |-> [ext[c] EXCEPT !.left = Down(@)]]
    /\ UNCHANGED <<chans, ctxDone, redFaults>>
    /\ <<key', main', ext'>> # <<key, main, ext>>

RedWork(c) ==
    \/ Executed(c) \/ LockContext(c)
    \/ ExtendDone(c) \/ ExtendTimer(c) \/ ExtendAnswer(c)
    \/ ExitOrTimeout(c) \/ UnlockContext(c)

RedNext ==
    \/ RedTick
    \/ \E c \in RedCallers : RedLockCall(c) \/ CtxCancelled(c) \/ CancelExtend(c) \/ RedWork(c)

-----------------------------------------------------------------------------
(* The goroutine never sends on a channel that Unlock has closed (it would  *)
(* panic): Unlock waits long enough for an extension under way.             *)
NoPanic == \A c \in RedCallers : ext[c].at # "panic"

(* A caller relies on the lock while it holds it, the goroutine extends it, *)
(* its context is not done and AutoExtendError has told it nothing.         *)
RedInside == {c \in RedCallers : /\ main[c].at = "held" /\ chans[c].open
                                 /\ c \notin ctxDone /\ chans[c].error = 0}
=============================================================================
