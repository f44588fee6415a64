----------------------------- MODULE LocksProofs -----------------------------
(***************************************************************************)
(* RedLock and EtcdLock implement AbstractLock, and the goroutine of       *)
(* RedLock does not panic: for any number of callers, processes, tries and *)
(* failing commands, and all times that satisfy RedLockAssumption.         *)
(***************************************************************************)
EXTENDS MCLocks, TLAPS

-----------------------------------------------------------------------------
(* RedLock.                                                                 *)

MainPlaces == {"idle", "set", "release", "failed", "held", "exit", "delete", "unlocked"}
ExtPlaces == {"idle", "timer", "extend", "ended"}
Answers == {"none", "yes", "no"}

MainStates == [at : MainPlaces, left : Nat, answer : Answers, tries : Nat]
ExtStates == [at : ExtPlaces, left : Nat, answer : Answers, tries : Nat]
ChanStates == [done : Nat, error : Nat, open : BOOLEAN]

(* There is no place "panic": that the goroutine does not reach it is part  *)
(* of what has to be shown.                                                 *)
RedTypeOK ==
    /\ key \in [by : RedCallers \cup {NoCaller}, left : Nat]
    /\ main \in [RedCallers -> MainStates]
    /\ ext \in [RedCallers -> ExtStates]
    /\ chans \in [RedCallers -> ChanStates]
    /\ ctxDone \subseteq RedCallers

(* The goroutine exists from the moment the lock is held, and its channels  *)
(* are open while it may send on them.                                      *)
ChannelsOpen(c) ==
    /\ main[c].at \in {"idle", "set", "release", "failed"} =>
          ext[c].at = "idle" /\ ~chans[c].open /\ chans[c].done = 0
    /\ ext[c].at \in {"timer", "extend"} => chans[c].open /\ chans[c].done = 0

(* Unlock, which waits for the goroutine, waits longer than the command     *)
(* under way.                                                               *)
ExitOutlasts(c) ==
    /\ ext[c].at = "extend" => ext[c].left <= Delay
    /\ main[c].at = "exit" =>
          /\ c \in ctxDone
          /\ ext[c].at = "timer" => 0 < main[c].left
          /\ ext[c].at = "extend" => ext[c].left < main[c].left

(* How long the key of a caller lives at least when its SET was answered.   *)
SetLasts(c) ==
    main[c].at = "set" =>
        /\ main[c].left <= Delay
        /\ main[c].answer = "yes" =>
              key.by = c /\ Ttl + main[c].left <= key.left + Delay

(* The same for a caller that relies on the lock, between two extensions    *)
(* and during one.                                                          *)
KeyLasts(c) ==
    c \in RedInside =>
        /\ key.by = c
        /\ ext[c].at \in {"timer", "extend"}
        /\ ext[c].at = "timer" =>
              Ttl + ext[c].left <= key.left + Delay + Interval
        /\ ext[c].at = "extend" /\ ext[c].answer = "yes" =>
              Ttl + ext[c].left <= key.left + Delay
        /\ ext[c].at = "extend" /\ ext[c].answer # "yes" =>
              Ttl + ext[c].left <= key.left + 2 * Delay + Interval

RedInv ==
    /\ RedTypeOK
    /\ \A c \in RedCallers : ChannelsOpen(c) /\ ExitOutlasts(c) /\ SetLasts(c) /\ KeyLasts(c)

LEMMA RedInitInv == RedInit => RedInv
<1> SUFFICES ASSUME RedInit PROVE RedInv
  OBVIOUS
<1>1. RedTypeOK
  BY RedLockAssumption DEF RedInit, RedTypeOK, MainStates, ExtStates, ChanStates, Idle, NoChans, MainPlaces, ExtPlaces, Answers
<1>2. ASSUME NEW c \in RedCallers
      PROVE  ChannelsOpen(c) /\ ExitOutlasts(c) /\ SetLasts(c) /\ KeyLasts(c)
  BY DEF RedInit, Idle, NoChans, ChannelsOpen, ExitOutlasts, SetLasts, KeyLasts, RedInside
<1> QED
  BY <1>1, <1>2 DEF RedInv

(* The constants are numbers, and those of RedLockAssumption in the form    *)
(* the arithmetic needs.                                                    *)
LEMMA Times ==
    /\ Ttl \in Nat /\ Interval \in Nat /\ Delay \in Nat /\ ExitWait \in Nat
    /\ 0 < Delay /\ Delay < ExitWait
    /\ Interval + 2 * Delay < Ttl
BY RedLockAssumption

(* What the invariant says of a caller depends on its own state, the key if *)
(* the caller has it, and its context.                                      *)
LEMMA OtherCaller ==
    ASSUME RedInv, NEW d \in RedCallers,
           main'[d] = main[d], ext'[d] = ext[d], chans'[d] = chans[d],
           d \in ctxDone' <=> d \in ctxDone,
           key.by = d => key' = key
    PROVE  /\ ChannelsOpen(d)' /\ ExitOutlasts(d)' /\ SetLasts(d)' /\ KeyLasts(d)'
           /\ d \in RedInside' <=> d \in RedInside
<1>1. d \in RedInside' <=> d \in RedInside
  BY DEF RedInside
<1>2. ChannelsOpen(d) /\ ExitOutlasts(d) /\ SetLasts(d) /\ KeyLasts(d)
  BY DEF RedInv
<1> QED
  BY <1>1, <1>2 DEF ChannelsOpen, ExitOutlasts, SetLasts, KeyLasts

(* One step of RedLock is one of AbstractLock, or none.                     *)
RedStep == [RedAbstract!LockNext]_(RedAbstract!lockVars)

(* A step of one caller that leaves the owner alone, and lets it rely on    *)
(* the lock only if it is the owner.                                        *)
LEMMA InsideStep ==
    ASSUME NEW c \in RedCallers, key'.by = key.by,
           \A d \in RedCallers \ {c} : d \in RedInside' <=> d \in RedInside,
           c \in RedInside' => c \in RedInside \/ key.by = c
    PROVE  RedStep
<1>1. RedInside \subseteq RedCallers /\ RedInside' \subseteq RedCallers
  BY DEF RedInside
<1>2. CASE c \in RedInside /\ c \notin RedInside'
  <2>1. RedInside' = RedInside \ {c}
    BY <1>1, <1>2
  <2> QED
    BY <2>1, <1>2 DEF RedStep, RedAbstract!LockNext, RedAbstract!Leave
<1>3. CASE c \notin RedInside /\ c \in RedInside'
  <2>1. RedInside' = RedInside \cup {c}
    BY <1>1, <1>3
  <2> QED
    BY <2>1, <1>3 DEF RedStep, RedAbstract!LockNext, RedAbstract!Enter
<1>4. CASE c \in RedInside <=> c \in RedInside'
  <2>1. RedInside' = RedInside
    BY <1>1, <1>4
  <2> QED
    BY <2>1 DEF RedStep, RedAbstract!lockVars
<1> QED
  BY <1>2, <1>3, <1>4

(* A step that passes the lock on, away from nobody who relies on it.       *)
LEMMA PassStep ==
    ASSUME RedInside' = RedInside, key.by \notin RedInside \/ key'.by = key.by,
           key'.by \in RedCallers \cup {NoCaller}
    PROVE  RedStep
<1>1. CASE key'.by = key.by
  BY <1>1 DEF RedStep, RedAbstract!lockVars
<1>2. CASE key'.by # key.by
  BY <1>2 DEF RedStep, RedAbstract!LockNext, RedAbstract!Pass
<1> QED
  BY <1>1, <1>2

(* The rest of the invariant, once the state of the caller that made the    *)
(* step is dealt with.                                                      *)
LEMMA CallerStep ==
    ASSUME RedInv, NEW c \in RedCallers, RedTypeOK',
           \A d \in RedCallers \ {c} :
               /\ main'[d] = main[d] /\ ext'[d] = ext[d] /\ chans'[d] = chans[d]
               /\ d \in ctxDone' <=> d \in ctxDone
               /\ key.by = d => key' = key,
           ChannelsOpen(c)', ExitOutlasts(c)', SetLasts(c)', KeyLasts(c)'
    PROVE  /\ RedInv'
           /\ \A d \in RedCallers \ {c} : d \in RedInside' <=> d \in RedInside
<1>1. \A d \in RedCallers \ {c} :
          /\ ChannelsOpen(d)' /\ ExitOutlasts(d)' /\ SetLasts(d)' /\ KeyLasts(d)'
          /\ d \in RedInside' <=> d \in RedInside
  BY OtherCaller
<1> QED
  BY <1>1 DEF RedInv

LEMMA RedLockCallInv ==
    ASSUME RedInv, NEW c \in RedCallers, RedLockCall(c)
    PROVE  RedInv' /\ RedStep
<1> USE DEF RedLockCall
<1>1. RedTypeOK'
  BY Times DEF RedInv, RedTypeOK, MainStates, ExtStates, ChanStates, Ask, MainPlaces, Answers
<1>2. main'[c] = Ask("set", 1)
  BY DEF RedInv, RedTypeOK, MainStates, ExtStates, ChanStates
<1>3. c \notin RedInside' /\ c \notin RedInside
  BY <1>2 DEF RedInside, Ask
<1>4. ChannelsOpen(c)' /\ ExitOutlasts(c)' /\ SetLasts(c)' /\ KeyLasts(c)'
  BY <1>2, <1>3, Times DEF RedInv, ChannelsOpen, ExitOutlasts, SetLasts, KeyLasts, Ask
<1>5. /\ RedInv'
      /\ \A d \in RedCallers \ {c} : d \in RedInside' <=> d \in RedInside
  BY <1>1, <1>4, CallerStep DEF RedInv, RedTypeOK, MainStates, ExtStates, ChanStates
<1> QED
  BY <1>3, <1>5, InsideStep

(* SET, DEL and the extension script, and those that fail.                  *)
LEMMA ExecutedInv ==
    ASSUME RedInv, NEW c \in RedCallers, Executed(c)
    PROVE  RedInv' /\ RedStep
<1>a. \E x \in Answers : main' = main \/ main' = [main EXCEPT ![c].answer = x]
  BY DEF Executed, Executes, Answers
<1>b. \E x \in Answers : ext' = ext \/ ext' = [ext EXCEPT ![c].answer = x]
  BY DEF Executed, Executes, Answers
<1>c. key' \in {key, NoKey, [by |-> c, left |-> Ttl], [key EXCEPT !.left = Ttl]}
  BY DEF Executed, Executes
<1>1. /\ RedTypeOK'
      /\ UNCHANGED <<chans, ctxDone>>
  <2>1. key' \in [by : RedCallers \cup {NoCaller}, left : Nat]
    BY <1>c, Times DEF RedInv, RedTypeOK, MainStates, ExtStates, ChanStates, NoKey
  <2>2. main' \in [RedCallers -> MainStates]
    BY <1>a DEF RedInv, RedTypeOK, MainStates, ExtStates, ChanStates
  <2>3. ext' \in [RedCallers -> ExtStates]
    BY <1>b DEF RedInv, RedTypeOK, MainStates, ExtStates, ChanStates
  <2> QED
    BY <2>1, <2>2, <2>3 DEF Executed, RedInv, RedTypeOK, MainStates, ExtStates, ChanStates
<1>2. \A d \in RedCallers : main'[d].at = main[d].at /\ main'[d].left = main[d].left
  BY <1>a DEF RedInv, RedTypeOK, MainStates, ExtStates, ChanStates
<1>3. \A d \in RedCallers : ext'[d].at = ext[d].at /\ ext'[d].left = ext[d].left
  BY <1>b DEF RedInv, RedTypeOK, MainStates, ExtStates, ChanStates
<1>4. RedInside' = RedInside
  BY <1>1, <1>2 DEF RedInside
<1>5. \A d \in RedCallers \ {c} : main'[d] = main[d] /\ ext'[d] = ext[d]
  BY <1>a, <1>b DEF RedInv, RedTypeOK, MainStates, ExtStates, ChanStates
<1>6. key' # key => key.by = NoCaller \/ key.by = c
  BY DEF Executed, Executes, Asking
<1>7. ChannelsOpen(c)' /\ ExitOutlasts(c)'
  BY <1>1, <1>2, <1>3 DEF RedInv, ChannelsOpen, ExitOutlasts
<1>8. ChannelsOpen(c) /\ ExitOutlasts(c) /\ SetLasts(c) /\ KeyLasts(c)
  BY DEF RedInv
<1>9. SetLasts(c)'
  <2> SUFFICES ASSUME main[c].at = "set", main'[c].answer = "yes"
               PROVE  key'.by = c /\ Ttl + main[c].left <= key'.left + Delay
    BY <1>2, <1>8 DEF SetLasts
  <2>1. CASE main[c].answer = "yes"
    <3>1. key' = key
      BY <2>1, <1>8 DEF Executed, Executes, Asking, ChannelsOpen
    <3> QED
      BY <3>1, <2>1, <1>8 DEF SetLasts
  <2>2. CASE main[c].answer # "yes"
    <3>1. key' = [by |-> c, left |-> Ttl]
      BY <2>2 DEF Executed, Executes, Asking, RedInv, RedTypeOK, MainStates, ExtStates, ChanStates
    <3> QED
      BY <3>1, <1>8, Times DEF SetLasts, RedInv, RedTypeOK, MainStates, ExtStates, ChanStates
  <2> QED
    BY <2>1, <2>2
<1>10. KeyLasts(c)'
  <2> SUFFICES ASSUME c \in RedInside PROVE KeyLasts(c)'
    BY <1>4 DEF KeyLasts
  <2>1. main[c].at = "held" /\ key.by = c /\ key.by # NoCaller
    BY <1>8, RedLockAssumption DEF RedInside, KeyLasts
  <2>2. CASE Asking(ext, c, "extend") /\ ext'[c].answer = "yes"
    <3>1. key' = [key EXCEPT !.left = Ttl]
      BY <2>1, <2>2 DEF Executed, Executes, Asking, RedInv, RedTypeOK, MainStates, ExtStates, ChanStates
    <3>2. key'.by = c /\ key'.left = Ttl
      BY <3>1, <2>1 DEF RedInv, RedTypeOK, MainStates, ExtStates, ChanStates
    <3> QED
      BY <3>2, <2>2, <1>3, <1>8, Times DEF KeyLasts, ExitOutlasts, Asking, RedInv, RedTypeOK, MainStates, ExtStates, ChanStates
  <2>3. CASE ~ (Asking(ext, c, "extend") /\ ext'[c].answer = "yes")
    <3>1. key' = key
      BY <2>1, <2>3 DEF Executed, Executes, Asking, RedInv, RedTypeOK, MainStates, ExtStates, ChanStates
    <3>2. ext'[c].answer = "yes" => ext[c].answer = "yes"
      BY <2>1, <2>3 DEF Executed, Executes, Asking, RedInv, RedTypeOK, MainStates, ExtStates, ChanStates
    <3>3. ext'[c].answer # "yes" => ext[c].answer # "yes" \/ ext[c].at # "extend"
      BY <2>1, <2>3 DEF Executed, Executes, Asking, RedInv, RedTypeOK, MainStates, ExtStates, ChanStates
    <3> QED
      BY <3>1, <3>2, <3>3, <1>3, <1>8 DEF KeyLasts
  <2> QED
    BY <2>2, <2>3
<1>11. RedInv'
  BY <1>1, <1>5, <1>6, <1>7, <1>9, <1>10, CallerStep, RedLockAssumption
<1>12. key.by \notin RedInside \/ key'.by = key.by
  <2> SUFFICES ASSUME key.by \in RedInside, key'.by # key.by PROVE FALSE
    OBVIOUS
  <2>1. key.by = c /\ main[c].at = "held"
    BY <1>6, RedLockAssumption DEF RedInside
  <2> QED
    BY <2>1, RedLockAssumption DEF Executed, Executes, Asking, RedInv, RedTypeOK, MainStates, ExtStates, ChanStates
<1> QED
  BY <1>1, <1>4, <1>11, <1>12, PassStep DEF RedTypeOK, MainStates, ExtStates, ChanStates

(* redsync is done with a try: the lock is held, with or without the        *)
(* goroutine, or the next command is sent.                                  *)
LEMMA LockContextInv ==
    ASSUME RedInv, NEW c \in RedCallers, LockContext(c)
    PROVE  RedInv' /\ RedStep
<1>0. ChannelsOpen(c) /\ ExitOutlasts(c) /\ SetLasts(c) /\ KeyLasts(c)
  BY DEF RedInv
<1>1. CASE /\ main[c].at = "set" /\ main[c].answer = "yes"
           /\ main' = [main EXCEPT ![c].at = "held", ![c].left = 0]
           /\ autoExtend(c)
  <2>1. RedTypeOK'
    <3>1. main' \in [RedCallers -> MainStates]
      BY <1>1 DEF RedInv, RedTypeOK, MainStates, MainPlaces
    <3>2. ext' \in [RedCallers -> ExtStates]
      BY <1>1, Times DEF autoExtend, RedInv, RedTypeOK, ExtStates, ExtPlaces
    <3>3. chans' \in [RedCallers -> ChanStates]
      BY <1>1 DEF autoExtend, RedInv, RedTypeOK, ChanStates
    <3> QED
      BY <3>1, <3>2, <3>3 DEF LockContext, RedInv, RedTypeOK
  <2>2. /\ main'[c].at = "held" /\ main'[c].left = 0
        /\ ext'[c].at = "timer" /\ ext'[c].left = Interval
        /\ chans'[c].open /\ chans'[c].done = 0
        /\ UNCHANGED <<key, ctxDone>>
    BY <1>0, <1>1 DEF LockContext, autoExtend, RedInv, RedTypeOK, MainStates, ExtStates, ChanStates, ChannelsOpen
  <2>3. key.by = c /\ Ttl <= key.left + Delay
    BY <1>0, <1>1, Times DEF SetLasts, RedInv, RedTypeOK, MainStates, ExtStates, ChanStates
  <2>4. ChannelsOpen(c)' /\ ExitOutlasts(c)' /\ SetLasts(c)'
    BY <2>2 DEF ChannelsOpen, ExitOutlasts, SetLasts
  <2>5. KeyLasts(c)'
    BY <2>2, <2>3, Times DEF KeyLasts, RedInv, RedTypeOK, MainStates, ExtStates, ChanStates
  <2>6. /\ RedInv'
        /\ \A d \in RedCallers \ {c} : d \in RedInside' <=> d \in RedInside
    BY <1>1, <2>1, <2>2, <2>4, <2>5, CallerStep DEF autoExtend, RedInv, RedTypeOK, MainStates, ExtStates, ChanStates
  <2> QED
    BY <2>2, <2>3, <2>6, InsideStep
<1>2. CASE /\ \E r \in MainStates :
                 /\ main' = [main EXCEPT ![c] = r]
                 /\ r.at \in {"set", "release"} => r.left = Delay /\ r.answer = "none"
                 /\ r.at = "held" \/ r.at \in {"set", "release", "failed"}
           /\ main[c].at \in {"set", "release"}
           /\ UNCHANGED <<key, ext, chans, ctxDone>>
  <2>1. RedTypeOK'
    BY <1>2 DEF RedInv, RedTypeOK, MainStates, ExtStates, ChanStates
  <2>2. /\ main'[c].at \in {"held", "set", "release", "failed"}
        /\ main'[c].at = "set" => main'[c].left = Delay /\ main'[c].answer = "none"
    BY <1>2 DEF RedInv, RedTypeOK, MainStates, ExtStates, ChanStates
  <2>3. c \notin RedInside' /\ c \notin RedInside
    BY <1>0, <1>2 DEF RedInside, ChannelsOpen
  <2>4. ChannelsOpen(c)' /\ ExitOutlasts(c)' /\ SetLasts(c)' /\ KeyLasts(c)'
    BY <1>0, <1>2, <2>2, <2>3, Times
       DEF ChannelsOpen, ExitOutlasts, SetLasts, KeyLasts
  <2>5. /\ RedInv'
        /\ \A d \in RedCallers \ {c} : d \in RedInside' <=> d \in RedInside
    BY <1>2, <2>1, <2>4, CallerStep DEF RedInv, RedTypeOK, MainStates, ExtStates, ChanStates
  <2> QED
    BY <1>2, <2>3, <2>5, InsideStep
<1>3. ASSUME Answered(main, c, "set"), main[c].answer = "yes",
             main' = [main EXCEPT ![c].at = "held", ![c].left = 0],
             UNCHANGED <<ext, chans>>
      PROVE  RedInv' /\ RedStep
  <2>1. main' = [main EXCEPT ![c] = [main[c] EXCEPT !.at = "held", !.left = 0]]
    BY <1>3 DEF RedInv, RedTypeOK, MainStates, ExtStates, ChanStates
  <2>2. [main[c] EXCEPT !.at = "held", !.left = 0]
            \in MainStates
    BY DEF RedInv, RedTypeOK, MainStates, ExtStates, ChanStates, MainPlaces
  <2> QED
    BY <1>2, <1>3, <2>1, <2>2 DEF LockContext, Answered, RedInv, RedTypeOK, MainStates, ExtStates, ChanStates
<1>4. ASSUME Answered(main, c, "set"),
             main' = [main EXCEPT ![c] = Ask("release", main[c].tries)],
             UNCHANGED <<ext, chans>>
      PROVE  RedInv' /\ RedStep
  <2>1. Ask("release", main[c].tries)
            \in MainStates
    BY Times DEF RedInv, RedTypeOK, MainStates, ExtStates, ChanStates, Ask, MainPlaces, Answers
  <2> QED
    BY <1>2, <1>4, <2>1 DEF LockContext, Answered, Ask
<1>5. ASSUME Answered(main, c, "release"), UNCHANGED <<ext, chans>>,
             main' = [main EXCEPT ![c] = IF main[c].tries < Tries
                                         THEN Ask("set", main[c].tries + 1)
                                         ELSE [main[c] EXCEPT !.at = "failed"]]
      PROVE  RedInv' /\ RedStep
  <2>1. /\ Ask("set", main[c].tries + 1) \in MainStates
        /\ [main[c] EXCEPT !.at = "failed"] \in MainStates
        /\ [main[c] EXCEPT !.at = "failed"].at = "failed"
    <3>1. main[c] \in MainStates
      BY DEF RedInv, RedTypeOK
    <3> QED
      BY <3>1, Times DEF Ask, MainStates, MainPlaces, Answers
  <2>2. CASE main[c].tries < Tries
    BY <1>2, <1>5, <2>1, <2>2 DEF LockContext, Answered, Ask
  <2>3. CASE ~ (main[c].tries < Tries)
    BY <1>2, <1>5, <2>1, <2>3 DEF LockContext, Answered
  <2> QED
    BY <2>2, <2>3
<1> QED
  BY <1>1, <1>3, <1>4, <1>5 DEF LockContext, Answered

(* A step of the goroutine.                                                 *)
LEMMA ExtendInv ==
    ASSUME RedInv, NEW c \in RedCallers,
           ExtendDone(c) \/ ExtendTimer(c) \/ ExtendAnswer(c)
    PROVE  RedInv' /\ RedStep
<1>0. ChannelsOpen(c) /\ ExitOutlasts(c) /\ SetLasts(c) /\ KeyLasts(c)
  BY DEF RedInv
<1>1. UNCHANGED <<key, main, ctxDone>>
  BY DEF ExtendDone, ExtendTimer, ExtendAnswer
<1>2. CASE /\ ext[c].at \in {"timer", "extend"}
           /\ ext' = [ext EXCEPT ![c].at = "ended"]
           /\ \/ c \in ctxDone /\ chans' = [chans EXCEPT ![c].done = @ + 1]
              \/ chans' = [chans EXCEPT ![c].error = @ + 1]
  <2>1. RedTypeOK'
    <3>1. ext' \in [RedCallers -> ExtStates]
      BY <1>2 DEF RedInv, RedTypeOK, ExtStates, ExtPlaces
    <3>2. chans' \in [RedCallers -> ChanStates]
      BY <1>2 DEF RedInv, RedTypeOK, ChanStates
    <3> QED
      BY <3>1, <3>2, <1>1 DEF RedInv, RedTypeOK
  <2>2. ext'[c].at = "ended"
    BY <1>2 DEF RedInv, RedTypeOK, MainStates, ExtStates, ChanStates
  <2>3. chans'[c].error # 0 \/ c \in ctxDone
    BY <1>2 DEF RedInv, RedTypeOK, MainStates, ExtStates, ChanStates
  <2>4. main[c].at \notin {"idle", "set", "release", "failed"}
    BY <1>0, <1>2 DEF ChannelsOpen
  <2>5. c \notin RedInside'
    BY <1>1, <2>3 DEF RedInside
  <2>6. ChannelsOpen(c)' /\ ExitOutlasts(c)' /\ SetLasts(c)' /\ KeyLasts(c)'
    BY <1>0, <1>1, <2>2, <2>4, <2>5 DEF ChannelsOpen, ExitOutlasts, SetLasts, KeyLasts
  <2>7. /\ RedInv'
        /\ \A d \in RedCallers \ {c} : d \in RedInside' <=> d \in RedInside
    BY <1>1, <1>2, <2>1, <2>6, CallerStep DEF RedInv, RedTypeOK, MainStates, ExtStates, ChanStates
  <2> QED
    BY <1>1, <2>5, <2>7, InsideStep
<1>3. CASE ExtendDone(c)
  BY <1>0, <1>2, <1>3 DEF ExtendDone, Send, ChannelsOpen
<1>4. CASE ExtendAnswer(c) /\ ext[c].answer # "yes"
  BY <1>0, <1>2, <1>4 DEF ExtendAnswer, Answered, Send, ChannelsOpen
<1>5. CASE ExtendAnswer(c) /\ ext[c].answer = "yes"
  <2>1. /\ ext[c].at = "extend"
        /\ ext' = [ext EXCEPT ![c] = [ext[c] EXCEPT !.at = "timer", !.left = Interval,
                                                    !.answer = "none"]]
        /\ UNCHANGED chans
    BY <1>5 DEF ExtendAnswer, Answered
  <2>2. RedTypeOK'
    <3>1. ext' \in [RedCallers -> ExtStates]
      BY <2>1, Times DEF RedInv, RedTypeOK, ExtStates, ExtPlaces, Answers
    <3> QED
      BY <3>1, <1>1, <2>1 DEF RedInv, RedTypeOK
  <2>3. ext'[c].at = "timer" /\ ext'[c].left = Interval
    BY <2>1 DEF RedInv, RedTypeOK, MainStates, ExtStates, ChanStates
  <2>4. c \in RedInside' <=> c \in RedInside
    BY <1>1, <2>1 DEF RedInside
  <2>5. ChannelsOpen(c)' /\ SetLasts(c)'
    BY <1>0, <1>1, <2>1, <2>3 DEF ChannelsOpen, SetLasts
  <2>6. ExitOutlasts(c)'
    BY <1>0, <1>1, <2>1, <2>3 DEF ExitOutlasts, RedInv, RedTypeOK, MainStates, ExtStates, ChanStates
  <2>7. KeyLasts(c)'
    BY <1>0, <1>1, <1>5, <2>1, <2>3, <2>4, Times DEF KeyLasts, RedInv, RedTypeOK, MainStates, ExtStates, ChanStates
  <2>8. /\ RedInv'
        /\ \A d \in RedCallers \ {c} : d \in RedInside' <=> d \in RedInside
    BY <1>1, <2>1, <2>2, <2>5, <2>6, <2>7, CallerStep DEF RedInv, RedTypeOK, MainStates, ExtStates, ChanStates
  <2> QED
    BY <1>1, <2>4, <2>8, InsideStep
<1>6. CASE ExtendTimer(c)
  <2> DEFINE r == IF c \in ctxDone THEN [ext[c] EXCEPT !.at = "extend", !.answer = "no"]
                  ELSE Ask("extend", 0)
  <2>1. /\ ext[c].at = "timer" /\ ext[c].left = 0
        /\ ext' = [ext EXCEPT ![c] = r]
        /\ UNCHANGED chans
    BY <1>6 DEF ExtendTimer
  <2>2. /\ r \in ExtStates
        /\ r.at = "extend" /\ r.answer # "yes"
        /\ r.left = IF c \in ctxDone THEN 0 ELSE Delay
    BY <2>1, Times DEF RedInv, RedTypeOK, MainStates, ExtStates, ChanStates, ExtPlaces, Answers, Ask
  <2> HIDE DEF r
  <2>3. RedTypeOK'
    BY <1>1, <2>1, <2>2 DEF RedInv, RedTypeOK, MainStates, ExtStates, ChanStates
  <2>4. ext'[c] = r
    BY <2>1 DEF RedInv, RedTypeOK, MainStates, ExtStates, ChanStates
  <2>5. c \in RedInside' <=> c \in RedInside
    BY <1>1, <2>1 DEF RedInside
  <2>6. ChannelsOpen(c)' /\ SetLasts(c)'
    BY <1>0, <1>1, <2>1, <2>2, <2>4 DEF ChannelsOpen, SetLasts
  <2>7. ExitOutlasts(c)'
    BY <1>0, <1>1, <2>1, <2>2, <2>4, Times DEF ExitOutlasts
  <2>8. KeyLasts(c)'
    BY <1>0, <1>1, <2>1, <2>2, <2>4, <2>5, Times DEF KeyLasts, RedInside, RedInv, RedTypeOK, MainStates, ExtStates, ChanStates
  <2>9. /\ RedInv'
        /\ \A d \in RedCallers \ {c} : d \in RedInside' <=> d \in RedInside
    BY <1>1, <2>1, <2>3, <2>6, <2>7, <2>8, CallerStep DEF RedInv, RedTypeOK, MainStates, ExtStates, ChanStates
  <2> QED
    BY <1>1, <2>5, <2>9, InsideStep
<1> QED
  BY <1>3, <1>4, <1>5, <1>6

(* The caller's context is cancelled.                                       *)
LEMMA CtxCancelledInv ==
    ASSUME RedInv, NEW c \in RedCallers, CtxCancelled(c)
    PROVE  RedInv' /\ RedStep
<1> USE DEF CtxCancelled
<1>1. RedTypeOK'
  BY DEF RedInv, RedTypeOK
<1>2. c \notin RedInside'
  BY DEF RedInside
<1>3. ChannelsOpen(c)' /\ ExitOutlasts(c)' /\ SetLasts(c)' /\ KeyLasts(c)'
  BY <1>2 DEF RedInv, ChannelsOpen, ExitOutlasts, SetLasts, KeyLasts
<1>4. /\ RedInv'
      /\ \A d \in RedCallers \ {c} : d \in RedInside' <=> d \in RedInside
  BY <1>1, <1>3, CallerStep
<1> QED
  BY <1>2, <1>4, InsideStep

(* Unlock and its parts: the caller does not rely on the lock any more.     *)
LEMMA UnlockInv ==
    ASSUME RedInv, NEW c \in RedCallers,
           CancelExtend(c) \/ ExitOrTimeout(c) \/ UnlockContext(c)
    PROVE  RedInv' /\ RedStep
<1>0. ChannelsOpen(c) /\ ExitOutlasts(c) /\ SetLasts(c) /\ KeyLasts(c)
  BY DEF RedInv
<1>1. UNCHANGED <<key, ext>>
  BY DEF CancelExtend, ExitOrTimeout, UnlockContext
<1>2. main' \in [RedCallers -> MainStates]
  <2>1. Ask("delete", 0) \in MainStates
    BY Times DEF Ask, MainStates, MainPlaces, Answers
  <2> QED
    BY <2>1, Times DEF CancelExtend, ExitOrTimeout, UnlockContext, RedInv, RedTypeOK,
                       MainStates, MainPlaces
<1>3. chans' \in [RedCallers -> ChanStates]
  <2>1. chans' = chans \/ chans' = [chans EXCEPT ![c] = NoChans]
    BY DEF CancelExtend, ExitOrTimeout, UnlockContext
  <2>2. NoChans \in ChanStates
    BY DEF NoChans, ChanStates
  <2> QED
    BY <2>1, <2>2 DEF RedInv, RedTypeOK
<1>4. RedTypeOK'
  BY <1>1, <1>2, <1>3 DEF CancelExtend, ExitOrTimeout, UnlockContext, RedInv, RedTypeOK
<1>5. main'[c].at \in {"exit", "delete", "unlocked"}
  BY DEF CancelExtend, ExitOrTimeout, UnlockContext, RedInv, RedTypeOK, MainStates, Ask
<1>6. c \notin RedInside'
  BY <1>5 DEF RedInside
<1>7. ChannelsOpen(c)'
  <2>1. CASE ExitOrTimeout(c)
    <3>1. ext[c].at \notin {"timer", "extend"}
      BY <1>0, <2>1 DEF ExitOrTimeout, ChannelsOpen, ExitOutlasts, RedInv, RedTypeOK,
                        ExtStates, MainStates
    <3> QED
      BY <3>1, <1>1, <1>5 DEF ChannelsOpen
  <2>2. CASE CancelExtend(c) \/ UnlockContext(c)
    BY <1>0, <1>1, <1>5, <2>2 DEF CancelExtend, UnlockContext, ChannelsOpen
  <2> QED
    BY <2>1, <2>2
<1>8. ExitOutlasts(c)'
  <2>1. CASE main'[c].at = "exit"
    <3>1. main'[c].left = ExitWait /\ c \in ctxDone'
      BY <2>1 DEF CancelExtend, ExitOrTimeout, UnlockContext, RedInv, RedTypeOK,
                  MainStates, Ask
    <3> QED
      BY <3>1, <1>0, <1>1, Times DEF ExitOutlasts, RedInv, RedTypeOK, ExtStates
  <2>2. CASE main'[c].at # "exit"
    BY <2>2, <1>0, <1>1 DEF ExitOutlasts
  <2> QED
    BY <2>1, <2>2
<1>9. SetLasts(c)' /\ KeyLasts(c)'
  BY <1>5, <1>6 DEF SetLasts, KeyLasts
<1>10. \A d \in RedCallers \ {c} :
           /\ main'[d] = main[d] /\ chans'[d] = chans[d]
           /\ d \in ctxDone' <=> d \in ctxDone
  BY DEF CancelExtend, ExitOrTimeout, UnlockContext, RedInv, RedTypeOK
<1>11. /\ RedInv'
       /\ \A d \in RedCallers \ {c} : d \in RedInside' <=> d \in RedInside
  BY <1>1, <1>4, <1>7, <1>8, <1>9, <1>10, CallerStep
<1> QED
  BY <1>1, <1>6, <1>11, InsideStep

(* A countdown stays a number, and stops at 0.                              *)
LEMMA DownCounts ==
    ASSUME NEW n \in Nat
    PROVE  Down(n) \in Nat /\ Down(n) <= n /\ (n # 0 => Down(n) = n - 1)
BY DEF Down

(* A tick: nothing is due, so the key of a caller that relies on it, or     *)
(* will, has more than one tick to live.                                    *)
LEMMA TickInv == ASSUME RedInv, RedTick PROVE RedInv' /\ RedStep
<1> USE DEF RedTick
<1>1. \A c \in RedCallers :
          /\ main'[c].at = main[c].at /\ main'[c].answer = main[c].answer
          /\ main'[c].tries = main[c].tries /\ main'[c].left = Down(main[c].left)
          /\ ext'[c].at = ext[c].at /\ ext'[c].answer = ext[c].answer
          /\ ext'[c].tries = ext[c].tries /\ ext'[c].left = Down(ext[c].left)
  BY DEF RedInv, RedTypeOK, MainStates, ExtStates
<1>2. \A n \in Nat : Down(n) \in Nat /\ Down(n) <= n /\ (n # 0 => Down(n) = n - 1)
  BY DownCounts
<1>3. RedTypeOK'
  <2>1. main' \in [RedCallers -> MainStates] /\ ext' \in [RedCallers -> ExtStates]
    BY <1>2 DEF RedInv, RedTypeOK, MainStates, ExtStates
  <2>2. key' \in [by : RedCallers \cup {NoCaller}, left : Nat]
    <3>1. key.left \in Nat /\ Down(key.left) \in Nat
      BY <1>2 DEF RedInv, RedTypeOK
    <3> QED
      BY <3>1 DEF RedInv, RedTypeOK, NoKey
  <2> QED
    BY <2>1, <2>2 DEF RedInv, RedTypeOK
<1>4. RedInside' = RedInside
  BY <1>1 DEF RedInside
<1>5. /\ key.left = 1 => key' = NoKey
      /\ key.left # 1 => key'.by = key.by /\ key'.left = Down(key.left)
  BY DEF RedInv, RedTypeOK
<1>6. ASSUME NEW c \in RedCallers
      PROVE  /\ ChannelsOpen(c)' /\ ExitOutlasts(c)' /\ SetLasts(c)' /\ KeyLasts(c)'
             /\ c \in RedInside => key.left > 1
  <2>0. ChannelsOpen(c) /\ ExitOutlasts(c) /\ SetLasts(c) /\ KeyLasts(c)
    BY DEF RedInv
  <2>1. /\ main[c].at \in {"set", "exit"} => main[c].left # 0
        /\ ext[c].at \in {"extend", "timer"} => ext[c].left # 0
        /\ ext[c].at = "timer" => c \notin ctxDone
    BY DEF Due
  <2>2. main[c].left \in Nat /\ ext[c].left \in Nat /\ key.left \in Nat
    BY DEF RedInv, RedTypeOK, MainStates, ExtStates
  <2>3. ChannelsOpen(c)'
    BY <1>1, <2>0 DEF ChannelsOpen
  <2>4. ExitOutlasts(c)'
    BY <1>1, <1>2, <2>0, <2>1, <2>2, Times DEF ExitOutlasts
  <2>5. SetLasts(c)'
    <3>1. CASE main[c].at = "set" /\ main[c].answer = "yes"
      <4>1. key.left > 1
        BY <3>1, <2>0, <2>1, <2>2, Times DEF SetLasts
      <4>2. key'.by = key.by /\ key'.left = key.left - 1
        BY <4>1, <1>2, <1>5, <2>2
      <4>3. main'[c].at = "set" /\ main'[c].left = main[c].left - 1
        BY <3>1, <1>1, <1>2, <2>1, <2>2
      <4> QED
        BY <3>1, <4>2, <4>3, <2>0, <2>2, Times DEF SetLasts
    <3>2. CASE ~ (main[c].at = "set" /\ main[c].answer = "yes")
      BY <3>2, <1>1, <1>2, <2>0, <2>2, Times DEF SetLasts
    <3> QED
      BY <3>1, <3>2
  <2>6. c \in RedInside => key.left > 1
    <3> SUFFICES ASSUME c \in RedInside PROVE key.left > 1
      OBVIOUS
    <3>1. ext[c].at \in {"timer", "extend"} /\ ext[c].left >= 1
      BY <2>0, <2>1, <2>2 DEF KeyLasts
    <3>2. Ttl + ext[c].left <= key.left + 2 * Delay + Interval
      BY <2>0, <2>2, <3>1, Times DEF KeyLasts
    <3> QED
      BY <3>1, <3>2, <2>2, Times
  <2>7. KeyLasts(c)'
    <3> SUFFICES ASSUME c \in RedInside PROVE KeyLasts(c)'
      BY <1>4 DEF KeyLasts
    <3>1. key'.by = c /\ key'.left = key.left - 1
      BY <1>2, <1>5, <2>0, <2>2, <2>6 DEF KeyLasts
    <3>2. ext'[c].left = ext[c].left - 1 /\ ext[c].at \in {"timer", "extend"}
      BY <1>1, <1>2, <2>0, <2>1, <2>2 DEF KeyLasts
    <3> QED
      BY <3>1, <3>2, <1>1, <2>0, <2>2, Times DEF KeyLasts
  <2> QED
    BY <2>3, <2>4, <2>5, <2>6, <2>7
<1>7. RedInv'
  BY <1>3, <1>6 DEF RedInv
<1>8. key.by \notin RedInside \/ key'.by = key.by
  BY <1>5, <1>6 DEF RedInside, RedInv, RedTypeOK
<1> QED
  BY <1>3, <1>4, <1>7, <1>8, PassStep DEF RedTypeOK

LEMMA RedNextInv ==
    RedInv /\ [Next]_vars => RedInv' /\ RedStep
<1> SUFFICES ASSUME RedInv, [Next]_vars PROVE RedInv' /\ RedStep
  OBVIOUS
<1>1. CASE UNCHANGED redVars
  <2>1. RedInside' = RedInside
    BY <1>1 DEF redVars, RedInside
  <2>2. RedStep
    BY <1>1, <2>1 DEF redVars, RedStep, RedAbstract!lockVars
  <2>3. RedInv'
    BY <1>1, <2>1 DEF redVars, RedInv, RedTypeOK, ChannelsOpen, ExitOutlasts, SetLasts,
                      KeyLasts
  <2> QED
    BY <2>2, <2>3
<1>2. CASE RedNext
  <2>1. CASE RedTick
    BY <2>1, TickInv
  <2>2. ASSUME NEW c \in RedCallers,
               RedLockCall(c) \/ CtxCancelled(c) \/ CancelExtend(c) \/ RedWork(c)
        PROVE  RedInv' /\ RedStep
    BY <2>2, RedLockCallInv, CtxCancelledInv, UnlockInv, ExecutedInv, LockContextInv,
       ExtendInv DEF RedWork
  <2> QED
    BY <1>2, <2>1, <2>2 DEF RedNext
<1> QED
  BY <1>1, <1>2 DEF Next, vars

LEMMA RedInvariance == Spec => []RedInv
<1>1. Init => RedInv
  BY RedInitInv DEF Init
<1> QED
  BY <1>1, RedNextInv, PTL DEF Spec

(* The goroutine of RedLock never sends on a channel that Unlock closed:    *)
(* Unlock waits longer than an extension takes.                             *)
THEOREM ExtenderNeverPanics == Spec => []NoPanic
<1>1. RedInv => NoPanic
  BY DEF RedInv, RedTypeOK, ExtStates, ExtPlaces, NoPanic
<1> QED
  BY <1>1, RedInvariance, PTL

(* RedLock implements AbstractLock: at most the owner of the key relies on  *)
(* the lock, and the key does not pass on while it does.                    *)
THEOREM RedLockCorrect == Spec => RedImplementsLock
<1>1. Init => RedAbstract!LockInit
  BY DEF Init, RedInit, RedAbstract!LockInit, RedInside, Idle
<1>2. RedInv /\ [Next]_vars => [RedAbstract!LockNext]_(RedAbstract!lockVars)
  BY RedNextInv DEF RedStep
<1> QED
  BY <1>1, <1>2, RedInvariance, PTL DEF Spec, RedImplementsLock
-----------------------------------------------------------------------------
(* EtcdLock.                                                                *)

EtcdPlaces == {"idle", "put", "wait", "close", "held", "leaving", "session",
               "failed", "unlocked", "stuck", "crashed"}

EtcdTypeOK ==
    /\ revision \in [EtcdCallers -> Nat]
    /\ lastRevision \in Nat
    /\ pc \in [EtcdCallers -> EtcdPlaces]

(* The keys were created one after the other.                               *)
Ordered ==
    /\ \A c \in EtcdCallers : revision[c] <= lastRevision
    /\ \A c, d \in EtcdCallers : c # d /\ revision[c] = revision[d] => revision[c] = 0

(* The lease of a caller that waits for the lock or has it is renewed, and  *)
(* the key of one that has it is the oldest.                                *)
HeldIsOldest ==
    \A c \in EtcdCallers :
        /\ pc[c] \in {"put", "wait", "held"} => c \in renewed
        /\ pc[c] = "held" => Oldest(c)

EtcdInv == EtcdTypeOK /\ Ordered /\ HeldIsOldest

(* The caller with the oldest key is the owner, before a step and after it. *)
LEMMA OldestOwns ==
    ASSUME EtcdTypeOK, Ordered, NEW c \in EtcdCallers, Oldest(c)
    PROVE  EtcdOwner = c
<1>1. \A d \in EtcdCallers : Oldest(d) => d = c
  <2> SUFFICES ASSUME NEW d \in EtcdCallers, Oldest(d) PROVE d = c
    OBVIOUS
  <2>1. revision[c] <= revision[d] /\ revision[d] <= revision[c] /\ revision[c] # 0
    BY DEF Oldest
  <2>2. revision[c] = revision[d]
    BY <2>1 DEF EtcdTypeOK
  <2> QED
    BY <2>1, <2>2 DEF Ordered
<1> QED
  BY <1>1 DEF EtcdOwner

LEMMA OldestOwnsAfter ==
    ASSUME EtcdTypeOK', Ordered', NEW c \in EtcdCallers, Oldest(c)'
    PROVE  EtcdOwner' = c
<1>1. \A d \in EtcdCallers : Oldest(d)' => d = c
  <2> SUFFICES ASSUME NEW d \in EtcdCallers, Oldest(d)' PROVE d = c
    OBVIOUS
  <2>1. revision'[c] <= revision'[d] /\ revision'[d] <= revision'[c] /\ revision'[c] # 0
    BY DEF Oldest
  <2>2. revision'[c] = revision'[d]
    BY <2>1 DEF EtcdTypeOK
  <2> QED
    BY <2>1, <2>2 DEF Ordered
<1> QED
  BY <1>1 DEF EtcdOwner

(* One step of EtcdLock is one of AbstractLock, or none.                    *)
EtcdStep == [EtcdAbstract!LockNext]_(EtcdAbstract!lockVars)

(* A step that nobody enters or leaves by: if the owner is inside, its key  *)
(* is the oldest after the step too.                                        *)
LEMMA KeysStep ==
    ASSUME EtcdInv, EtcdInv', EtcdInside' = EtcdInside
    PROVE  EtcdStep
<1>1. CASE EtcdOwner \in EtcdInside
  <2>1. EtcdOwner \in EtcdCallers /\ pc'[EtcdOwner] = "held"
    BY <1>1 DEF EtcdInside
  <2>2. ASSUME NEW c \in EtcdCallers, pc'[c] = "held"
        PROVE  EtcdOwner' = c
    BY <2>2, OldestOwnsAfter DEF EtcdInv, HeldIsOldest
  <2>3. EtcdOwner' = EtcdOwner
    BY <2>1, <2>2
  <2> QED
    BY <2>3 DEF EtcdStep, EtcdAbstract!lockVars
<1>2. CASE EtcdOwner \notin EtcdInside
  <2>1. EtcdOwner' \in EtcdCallers \cup {NoCaller}
    BY DEF EtcdOwner
  <2> QED
    BY <1>2, <2>1 DEF EtcdStep, EtcdAbstract!LockNext, EtcdAbstract!Pass
<1> QED
  BY <1>1, <1>2

(* The keys do not change, and nobody is held that was not.                 *)
LEMMA SameKeys ==
    ASSUME EtcdInv, UNCHANGED keys, pc' \in [EtcdCallers -> EtcdPlaces],
           \A c \in EtcdCallers :
               /\ pc'[c] \in {"put", "wait", "held"} => c \in renewed'
               /\ pc'[c] = "held" => pc[c] = "held"
    PROVE  EtcdInv'
<1>1. revision' = revision /\ lastRevision' = lastRevision
  BY DEF keys
<1>2. \A c \in EtcdCallers : Oldest(c)' <=> Oldest(c)
  BY <1>1 DEF Oldest
<1> QED
  BY <1>1, <1>2 DEF EtcdInv, EtcdTypeOK, Ordered, HeldIsOldest

(* A caller that does not hold the lock, and will not, creates its key or   *)
(* loses it.                                                                *)
LEMMA OneKey ==
    ASSUME EtcdInv, NEW c \in EtcdCallers, Put(c) \/ Delete(c),
           pc' \in [EtcdCallers -> EtcdPlaces],
           pc[c] # "held", pc'[c] # "held",
           pc'[c] \in {"put", "wait"} => c \in renewed',
           \A d \in EtcdCallers \ {c} : pc'[d] = pc[d] /\ (d \in renewed => d \in renewed')
    PROVE  EtcdInv' /\ EtcdInside' = EtcdInside
<1>1. EtcdTypeOK'
  BY DEF EtcdInv, EtcdTypeOK, Put, Delete
<1>2. \A d \in EtcdCallers \ {c} : revision'[d] = revision[d]
  BY DEF EtcdInv, EtcdTypeOK, Put, Delete
<1>3. /\ lastRevision <= lastRevision'
      /\ revision'[c] = 0 \/ (revision'[c] = lastRevision' /\ lastRevision' = lastRevision + 1)
  BY DEF EtcdInv, EtcdTypeOK, Put, Delete
<1>4. Ordered'
  <2>1. \A d \in EtcdCallers : revision[d] \in Nat /\ revision[d] <= lastRevision
    BY DEF EtcdInv, EtcdTypeOK, Ordered
  <2>2. lastRevision \in Nat /\ lastRevision' \in Nat
    BY <1>1 DEF EtcdInv, EtcdTypeOK
  <2>3. \A d \in EtcdCallers : revision'[d] <= lastRevision'
    BY <1>2, <1>3, <2>1, <2>2
  <2>4. \A d, e \in EtcdCallers :
            d # e /\ revision'[d] = revision'[e] => revision'[d] = 0
    <3> SUFFICES ASSUME NEW d \in EtcdCallers, NEW e \in EtcdCallers,
                        d # e, revision'[d] = revision'[e], revision'[d] # 0
                 PROVE  FALSE
      OBVIOUS
    <3>1. CASE d # c /\ e # c
      BY <3>1, <1>2 DEF EtcdInv, Ordered
    <3>2. CASE d = c
      BY <3>2, <1>2, <1>3, <2>1, <2>2
    <3>3. CASE e = c
      BY <3>3, <1>2, <1>3, <2>1, <2>2
    <3> QED
      BY <3>1, <3>2, <3>3
  <2> QED
    BY <2>3, <2>4 DEF Ordered
<1>5. ASSUME NEW d \in EtcdCallers, pc'[d] = "held"
      PROVE  Oldest(d)'
  <2>1. d # c /\ Oldest(d)
    BY <1>5 DEF EtcdInv, HeldIsOldest
  <2>2. revision'[d] = revision[d] /\ revision[d] # 0
    BY <2>1, <1>2 DEF Oldest
  <2>3. ASSUME NEW e \in EtcdCallers, revision'[e] # 0
        PROVE  revision'[d] <= revision'[e]
    <3>1. CASE e = c
      BY <3>1, <2>2, <2>3, <1>3 DEF EtcdInv, EtcdTypeOK, Ordered
    <3>2. CASE e # c
      BY <3>2, <2>1, <2>2, <2>3, <1>2 DEF Oldest
    <3> QED
      BY <3>1, <3>2
  <2> QED
    BY <2>2, <2>3 DEF Oldest
<1>6. HeldIsOldest'
  BY <1>5 DEF EtcdInv, HeldIsOldest
<1>7. EtcdInside' = EtcdInside
  BY DEF EtcdInside
<1> QED
  BY <1>1, <1>4, <1>6, <1>7 DEF EtcdInv

(* A caller moves on and does not change the keys.                          *)
LEMMA MoveOn ==
    ASSUME EtcdInv, NEW c \in EtcdCallers, UNCHANGED keys,
           NEW at \in EtcdPlaces \ {"held"}, Go(c, at), pc[c] # "held",
           at \in {"put", "wait"} => c \in renewed',
           \A d \in EtcdCallers \ {c} : d \in renewed => d \in renewed'
    PROVE  EtcdInv' /\ EtcdInside' = EtcdInside
<1>1. pc' \in [EtcdCallers -> EtcdPlaces] /\ pc'[c] = at
  BY DEF EtcdInv, EtcdTypeOK, Go
<1>2. \A d \in EtcdCallers \ {c} : pc'[d] = pc[d]
  BY DEF EtcdInv, EtcdTypeOK, Go
<1>3. EtcdInside' = EtcdInside
  BY <1>1, <1>2 DEF EtcdInside
<1>4. \A d \in EtcdCallers :
          /\ pc'[d] \in {"put", "wait", "held"} => d \in renewed'
          /\ pc'[d] = "held" => pc[d] = "held"
  BY <1>1, <1>2 DEF EtcdInv, HeldIsOldest
<1> QED
  BY <1>1, <1>3, <1>4, SameKeys

LEMMA KeyMoves ==
    ASSUME EtcdInv, NEW c \in EtcdCallers, Put(c) \/ Delete(c),
           NEW at \in EtcdPlaces \ {"held"}, Go(c, at), pc[c] # "held",
           at \in {"put", "wait"} => c \in renewed',
           \A d \in EtcdCallers \ {c} : d \in renewed => d \in renewed'
    PROVE  EtcdInv' /\ EtcdInside' = EtcdInside
<1>1. pc' \in [EtcdCallers -> EtcdPlaces] /\ pc'[c] = at
  BY DEF EtcdInv, EtcdTypeOK, Go
<1>2. \A d \in EtcdCallers \ {c} : pc'[d] = pc[d]
  BY DEF EtcdInv, EtcdTypeOK, Go
<1> QED
  BY <1>1, <1>2, OneKey

LEMMA EtcdInitInv == EtcdInit => EtcdInv /\ EtcdAbstract!LockInit
<1> SUFFICES ASSUME EtcdInit PROVE EtcdInv /\ EtcdAbstract!LockInit
  OBVIOUS
<1>1. EtcdInv
  BY DEF EtcdInit, EtcdInv, EtcdTypeOK, EtcdPlaces, Ordered, HeldIsOldest
<1>2. EtcdOwner = NoCaller /\ EtcdInside = {}
  BY DEF EtcdInit, EtcdOwner, Oldest, EtcdInside
<1> QED
  BY <1>1, <1>2 DEF EtcdAbstract!LockInit

(* The steps nobody enters or leaves by: the commands of Lock and Unlock,   *)
(* and the lapse of a lease.                                                *)
LEMMA CommandInv ==
    ASSUME EtcdInv, NEW c \in EtcdCallers,
           \/ NewSession(c) \/ CreateKey(c) \/ LockTimeout(c) \/ CloseFailed(c)
           \/ UnlockKey(c) \/ UnlockSession(c) \/ Lapse(c)
    PROVE  EtcdInv' /\ EtcdInside' = EtcdInside
<1>1. CASE NewSession(c)
  BY <1>1, MoveOn DEF NewSession, Works, Fails, EtcdPlaces
<1>2. CASE CreateKey(c)
  <2>1. c \in renewed /\ renewed' = renewed /\ pc[c] # "held"
    BY <1>2 DEF CreateKey, EtcdInv, HeldIsOldest
  <2>2. CASE UNCHANGED keys /\ Go(c, "close")
    BY <2>1, <2>2, MoveOn DEF EtcdPlaces
  <2>3. CASE Put(c) /\ (Go(c, "wait") \/ Go(c, "close"))
    BY <2>1, <2>3, KeyMoves DEF EtcdPlaces
  <2> QED
    BY <1>2, <2>2, <2>3 DEF CreateKey
<1>3. CASE LockTimeout(c)
  <2>1. renewed' = renewed /\ pc[c] # "held" /\ Go(c, "close")
    BY <1>3 DEF LockTimeout
  <2>2. Delete(c) \/ UNCHANGED keys
    BY <1>3 DEF LockTimeout
  <2> QED
    BY <2>1, <2>2, MoveOn, KeyMoves DEF EtcdPlaces
<1>4. CASE CloseFailed(c) \/ UnlockSession(c)
  <2>1. /\ renewed' = renewed \ {c} /\ pc[c] # "held"
        /\ Go(c, "failed") \/ Go(c, "unlocked")
    BY <1>4 DEF CloseFailed, UnlockSession, Revoke
  <2>2. Delete(c) \/ UNCHANGED keys
    BY <1>4 DEF CloseFailed, UnlockSession, Revoke, keys
  <2> QED
    BY <2>1, <2>2, MoveOn, KeyMoves DEF EtcdPlaces
<1>5. CASE UnlockKey(c)
  <2>1. /\ renewed' = renewed /\ pc[c] # "held"
        /\ Go(c, "session") \/ Go(c, "stuck")
    BY <1>5 DEF UnlockKey
  <2>2. Delete(c) \/ UNCHANGED keys
    BY <1>5 DEF UnlockKey
  <2> QED
    BY <2>1, <2>2, MoveOn, KeyMoves DEF EtcdPlaces
<1>6. CASE Lapse(c)
  <2>1. pc[c] \notin {"put", "wait", "held"}
    BY <1>6 DEF Lapse, EtcdInv, HeldIsOldest
  <2>2. Delete(c) /\ pc' = pc /\ renewed' = renewed
    BY <1>6 DEF Lapse
  <2> QED
    BY <2>1, <2>2, OneKey DEF EtcdInv, EtcdTypeOK
<1> QED
  BY <1>1, <1>2, <1>3, <1>4, <1>5, <1>6

LEMMA SameOwner == ASSUME UNCHANGED keys PROVE EtcdOwner' = EtcdOwner
<1>1. revision' = revision
  BY DEF keys
<1> QED
  BY <1>1 DEF EtcdOwner, Oldest

LEMMA AcquiredInv ==
    ASSUME EtcdInv, NEW c \in EtcdCallers, Acquired(c)
    PROVE  EtcdInv' /\ EtcdStep
<1> USE DEF Acquired, Go
<1>1. EtcdOwner = c /\ EtcdOwner' = EtcdOwner
  BY OldestOwns, SameOwner DEF EtcdInv
<1>2. EtcdInside' = EtcdInside \cup {c}
  BY DEF EtcdInside, EtcdInv, EtcdTypeOK
<1>3. EtcdStep
  BY <1>1, <1>2 DEF EtcdStep, EtcdAbstract!LockNext, EtcdAbstract!Enter
<1>4. EtcdTypeOK' /\ Ordered'
  BY DEF keys, EtcdInv, EtcdTypeOK, EtcdPlaces, Ordered
<1>5. \A d \in EtcdCallers : Oldest(d)' <=> Oldest(d)
  BY DEF keys, Oldest
<1>6. HeldIsOldest'
  BY <1>5 DEF EtcdInv, EtcdTypeOK, HeldIsOldest
<1> QED
  BY <1>3, <1>4, <1>6 DEF EtcdInv

LEMMA EtcdUnlockInv ==
    ASSUME EtcdInv, NEW c \in EtcdCallers, EtcdUnlock(c)
    PROVE  EtcdInv' /\ EtcdStep
<1> USE DEF EtcdUnlock, Go
<1>1. pc' \in [EtcdCallers -> EtcdPlaces] /\ pc'[c] = "leaving"
  BY DEF EtcdInv, EtcdTypeOK, EtcdPlaces
<1>2. \A d \in EtcdCallers \ {c} : pc'[d] = pc[d]
  BY DEF EtcdInv, EtcdTypeOK
<1>3. EtcdInv'
  BY <1>1, <1>2, SameKeys DEF EtcdInv, HeldIsOldest
<1>4. EtcdInside' = EtcdInside \ {c} /\ c \in EtcdInside
  BY <1>1, <1>2 DEF EtcdInside
<1>5. EtcdOwner' = EtcdOwner
  BY SameOwner
<1> QED
  BY <1>3, <1>4, <1>5 DEF EtcdStep, EtcdAbstract!LockNext, EtcdAbstract!Leave

(* A process stops.  Of its callers, at most one was inside.                *)
LEMMA StoppedInv ==
    ASSUME EtcdInv, NEW p \in Procs, EtcdClose(p) \/ EtcdCrash(p)
    PROVE  EtcdInv' /\ EtcdStep
<1>1. CASE EtcdClose(p)
  <2>1. /\ UNCHANGED keys /\ pc' = pc
        /\ renewed' = {c \in renewed : ProcOf[c] # p}
    BY <1>1 DEF EtcdClose, Stopped
  <2>2. \A c \in EtcdCallers : pc[c] \in {"put", "wait", "held"} => c \in renewed'
    BY <1>1, <2>1 DEF EtcdClose, EtcdInv, HeldIsOldest
  <2>3. EtcdInv'
    BY <2>1, <2>2, SameKeys DEF EtcdInv, EtcdTypeOK
  <2>4. EtcdInside' = EtcdInside
    BY <2>1 DEF EtcdInside
  <2> QED
    BY <2>3, <2>4, KeysStep
<1>2. CASE EtcdCrash(p)
  <2>1. /\ UNCHANGED keys
        /\ pc' = [c \in EtcdCallers |-> IF ProcOf[c] = p THEN "crashed" ELSE pc[c]]
        /\ renewed' = {c \in renewed : ProcOf[c] # p}
    BY <1>2 DEF EtcdCrash, Stopped
  <2>2. pc' \in [EtcdCallers -> EtcdPlaces]
    BY <2>1 DEF EtcdInv, EtcdTypeOK, EtcdPlaces
  <2>3. EtcdInv'
    BY <2>1, <2>2, SameKeys DEF EtcdInv, HeldIsOldest
  <2>4. EtcdInside' \subseteq EtcdInside
    BY <2>1 DEF EtcdInside
  <2>5. CASE EtcdInside' = EtcdInside
    BY <2>3, <2>5, KeysStep
  <2>6. CASE EtcdInside' # EtcdInside
    <3>1. PICK c \in EtcdInside : c \notin EtcdInside'
      BY <2>4, <2>6
    <3>2. \A d \in EtcdInside : d = EtcdOwner
      BY OldestOwns DEF EtcdInside, EtcdInv, HeldIsOldest
    <3>3. EtcdInside = {c} /\ EtcdInside' = {}
      BY <2>4, <3>1, <3>2
    <3>4. c \in EtcdCallers
      BY DEF EtcdInside
    <3>5. EtcdOwner' = EtcdOwner
      BY <2>1, SameOwner
    <3>6. EtcdAbstract!Leave(c)
      BY <3>3, <3>5 DEF EtcdAbstract!Leave
    <3> QED
      BY <2>3, <3>4, <3>6 DEF EtcdStep, EtcdAbstract!LockNext
  <2> QED
    BY <2>5, <2>6
<1> QED
  BY <1>1, <1>2

LEMMA EtcdNextInv ==
    EtcdInv /\ [Next]_vars => EtcdInv' /\ EtcdStep
<1> SUFFICES ASSUME EtcdInv, [Next]_vars PROVE EtcdInv' /\ EtcdStep
  OBVIOUS
<1>1. CASE UNCHANGED etcdVars
  <2>1. UNCHANGED keys /\ pc' = pc /\ renewed' = renewed
    BY <1>1 DEF etcdVars, keys
  <2>2. EtcdInv'
    BY <2>1, SameKeys DEF EtcdInv, EtcdTypeOK, HeldIsOldest
  <2>3. EtcdInside' = EtcdInside
    BY <2>1 DEF EtcdInside
  <2> QED
    BY <2>2, <2>3, KeysStep
<1>2. CASE EtcdNext
  <2>1. ASSUME NEW c \in EtcdCallers,
               NewSession(c) \/ EtcdUnlock(c) \/ EtcdWork(c) \/ Lapse(c)
        PROVE  EtcdInv' /\ EtcdStep
    <3>1. CASE EtcdUnlock(c)
      BY <3>1, EtcdUnlockInv
    <3>2. CASE Acquired(c)
      BY <3>2, AcquiredInv
    <3>3. CASE ~ EtcdUnlock(c) /\ ~ Acquired(c)
      BY <2>1, <3>3, CommandInv, KeysStep DEF EtcdWork
    <3> QED
      BY <3>1, <3>2, <3>3
  <2> QED
    BY <1>2, <2>1, StoppedInv DEF EtcdNext
<1> QED
  BY <1>1, <1>2 DEF Next, vars

(* EtcdLock implements AbstractLock: the caller between Lock and Unlock is  *)
(* the one whose key is the oldest, and its key stays until it leaves or    *)
(* its process crashes.                                                     *)
THEOREM EtcdLockCorrect == Spec => EtcdImplementsLock
<1>1. Init => EtcdInv /\ EtcdAbstract!LockInit
  BY EtcdInitInv DEF Init
<1>2. EtcdInv /\ [Next]_vars => [EtcdAbstract!LockNext]_(EtcdAbstract!lockVars)
  BY EtcdNextInv DEF EtcdStep
<1>3. Spec => []EtcdInv
  BY <1>1, EtcdNextInv, PTL DEF Spec
<1> QED
  BY <1>1, <1>2, <1>3, PTL DEF Spec, EtcdImplementsLock
=============================================================================
