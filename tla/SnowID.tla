------------------------------- MODULE SnowID --------------------------------
(***************************************************************************)
(* The id generator NewID of pkg/ids/int64.go: one process, whose package  *)
(* variables are guarded by snowIDMutex from the first read of the clock   *)
(* to the return.  Unlike the generators of pkg/distribute it does not     *)
(* wait when the clock is set back: it counts the rollback in a two-bit    *)
(* field of the id and goes on in the past.                                *)
(***************************************************************************)
EXTENDS Integers, FiniteSets

CONSTANTS
    NodeId,         \* snowNodeId, set once at start-up
    NodeCount,      \* 2^snowNodeIDBits
    SeqCount,       \* 2^snowCounterBits
    MaxTime,        \* bound: the last millisecond of the checked horizon
    MaxBacks,       \* bound: how often the clock is set back
    MaxRestarts,    \* bound: how often the process is restarted
    MayRevisit      \* may the clock be set back again after it recovered?

(* The second conjunct is the test of IDSetNodeID.                          *)
ConstantsFit ==
    /\ NodeCount \in Nat \ {0}
    /\ NodeId \in Nat /\ NodeId < NodeCount - 1
    /\ SeqCount \in Nat \ {0}
    /\ MaxTime \in Nat \ {0}
    /\ MaxBacks \in Nat
    /\ MaxRestarts \in Nat
    /\ MayRevisit \in BOOLEAN

VARIABLES
    snowIDTimestamp,
    snowIDSeq,
    snowIDClockBackPoints,  \* indexed from 1 here
    snowIDClockBackTimes,
    pc,         \* "idle", "waiting" in the loop, or "dead" after log.Fatal
    clock,      \* external: time.Now().UnixMilli()
    peak,       \* history: time of the last id when the clock was first set back
    booted,     \* external: when the running process was started
    backs,      \* external: rollbacks since then
    restarts,
    issued,     \* history: the ids returned so far, by all processes
    returned    \* history: how many calls returned an id

codeVars == <<snowIDTimestamp, snowIDSeq, snowIDClockBackPoints,
              snowIDClockBackTimes, pc>>
envVars  == <<clock, peak, booted, backs, restarts>>
vars     == <<codeVars, envVars, issued, returned>>

(* Two bits: at most three rollbacks inside one another.                    *)
snowClockBackMaxTimes == 3

NoPoints == [i \in 1 .. snowClockBackMaxTimes |-> 0]

-----------------------------------------------------------------------------
(* The fields of an id, from the most to the least significant: time, node, *)
(* rollbacks, counter.                                                      *)
Encode(now, times, seq) ==
    ((now * NodeCount + NodeId) * (snowClockBackMaxTimes + 1) + times)
        * SeqCount + seq

IDGetTimestamp(id) == id \div (SeqCount * (snowClockBackMaxTimes + 1) * NodeCount)

IDGetNodeID(id) == (id \div (SeqCount * (snowClockBackMaxTimes + 1))) % NodeCount

IDGetClockBackwardTimes(id) ==
    (id \div SeqCount) % (snowClockBackMaxTimes + 1)

-----------------------------------------------------------------------------
Init ==
    /\ snowIDTimestamp = 0
    /\ snowIDSeq = 0
    /\ snowIDClockBackPoints = NoPoints
    /\ snowIDClockBackTimes = 0
    /\ pc = "idle"
    /\ clock = 1
    /\ peak = 0
    /\ booted = 1
    /\ backs = 0
    /\ restarts = 0
    /\ issued = {}
    /\ returned = 0

(* The end of NewID: remember the time and return the id.                   *)
Return(now, times, seq) ==
    /\ snowIDTimestamp' = now
    /\ snowIDClockBackTimes' = times
    /\ snowIDSeq' = seq
    /\ pc' = "idle"
    /\ issued' = issued \union {Encode(now, times, seq)}
    /\ returned' = returned + 1
    /\ UNCHANGED envVars

(* The clock passed the point of the first rollback, or none is recorded.   *)
Recovered == clock > snowIDClockBackPoints[1]

(* The time NewID works with: while a rollback is not caught up, the clock  *)
(* is ignored and the time of the last id is used again.                    *)
EntryNow == IF Recovered THEN clock ELSE snowIDTimestamp

EntryTimes ==
    IF Recovered /\ snowIDClockBackPoints[1] > 0 THEN 0
    ELSE snowIDClockBackTimes

EntryPoints ==
    IF Recovered /\ snowIDClockBackPoints[1] > 0 THEN NoPoints
    ELSE snowIDClockBackPoints

(* The two places that record a rollback to now: past the third one the     *)
(* process ends in log.Fatal.                                               *)
ClockBack(points, times, now, seq) ==
    IF times + 1 > snowClockBackMaxTimes
    THEN /\ pc' = "dead"
         /\ snowIDClockBackTimes' = times + 1
         /\ snowIDClockBackPoints' = points
         /\ UNCHANGED <<snowIDTimestamp, snowIDSeq, envVars, issued, returned>>
    ELSE /\ snowIDClockBackPoints' = [points EXCEPT ![times + 1] = snowIDTimestamp]
         /\ Return(now, times + 1, seq)

NextSeq == (snowIDSeq + 1) % SeqCount

(* Same millisecond as the last id, counter not exhausted.                  *)
NewIDSame ==
    /\ pc = "idle"
    /\ EntryNow = snowIDTimestamp
    /\ NextSeq # 0
    /\ snowIDClockBackPoints' = EntryPoints
    /\ Return(EntryNow, EntryTimes, NextSeq)

(* Same millisecond, counter exhausted: the call enters the wait loop.      *)
NewIDExhausted ==
    /\ pc = "idle"
    /\ EntryNow = snowIDTimestamp
    /\ NextSeq = 0
    /\ snowIDSeq' = 0
    /\ snowIDClockBackPoints' = EntryPoints
    /\ snowIDClockBackTimes' = EntryTimes
    /\ pc' = "waiting"
    /\ UNCHANGED <<snowIDTimestamp, envVars, issued, returned>>

(* A later millisecond.                                                     *)
NewIDLater ==
    /\ pc = "idle"
    /\ EntryNow > snowIDTimestamp
    /\ snowIDClockBackPoints' = EntryPoints
    /\ Return(EntryNow, EntryTimes, 0)

(* Mutant: a rollback is answered without being counted.                    *)
NewIDBackUncounted ==
    /\ pc = "idle"
    /\ EntryNow < snowIDTimestamp
    /\ snowIDClockBackPoints' = EntryPoints
    /\ Return(EntryNow, EntryTimes, 0)

(* The clock was set back since the last id.                                *)
NewIDBack ==
    /\ pc = "idle"
    /\ EntryNow < snowIDTimestamp
    /\ ClockBack(EntryPoints, EntryTimes, EntryNow, 0)

(* Mutant: the loop's <= read as <.                                         *)
WaitDoneEarly ==
    /\ pc = "waiting"
    /\ clock >= snowIDTimestamp
    /\ UNCHANGED snowIDClockBackPoints
    /\ Return(clock, snowIDClockBackTimes, snowIDSeq)

(* The wait loop reads a later millisecond and ends.                        *)
WaitDone ==
    /\ pc = "waiting"
    /\ clock > snowIDTimestamp
    /\ UNCHANGED snowIDClockBackPoints
    /\ Return(clock, snowIDClockBackTimes, snowIDSeq)

(* The wait loop finds that the clock was set back, and ends too.           *)
WaitBack ==
    /\ pc = "waiting"
    /\ clock < snowIDTimestamp
    /\ ClockBack(snowIDClockBackPoints, snowIDClockBackTimes, clock, snowIDSeq)

-----------------------------------------------------------------------------
(* External: the machine.                                                   *)
Tick ==
    /\ clock < MaxTime
    /\ clock' = clock + 1
    /\ UNCHANGED <<codeVars, peak, booted, backs, restarts, issued, returned>>

(* Unless MayRevisit, all rollbacks belong to one episode: a first one, and  *)
(* others before the clock is again past the last id given out before it.   *)
StepBack ==
    /\ backs < MaxBacks
    /\ MayRevisit \/ peak = 0 \/ clock <= peak
    /\ \E c \in booted .. (clock - 1) :
          /\ clock' = c
          /\ peak' = IF peak = 0 THEN snowIDTimestamp ELSE peak
          /\ backs' = backs + 1
          /\ UNCHANGED <<codeVars, booted, restarts, issued, returned>>

(* The process crashes, or ended in log.Fatal, and is started again.  As the *)
(* comment on NewID assumes, a restart takes longer than a rollback lasts:  *)
(* the clock is then past every time used before.                           *)
Restart ==
    /\ restarts < MaxRestarts
    /\ \A id \in issued : IDGetTimestamp(id) < clock
    /\ snowIDTimestamp' = 0
    /\ snowIDSeq' = 0
    /\ snowIDClockBackPoints' = NoPoints
    /\ snowIDClockBackTimes' = 0
    /\ pc' = "idle"
    /\ peak' = 0
    /\ booted' = clock
    /\ backs' = 0
    /\ restarts' = restarts + 1
    /\ UNCHANGED <<clock, issued, returned>>

(* The end of the checked horizon.                                          *)
Horizon == (clock = MaxTime \/ pc = "dead") /\ UNCHANGED vars

NewID == NewIDSame \/ NewIDExhausted \/ NewIDLater \/ NewIDBack

Wake == WaitDone \/ WaitBack

Next == NewID \/ Wake \/ Tick \/ StepBack \/ Restart \/ Horizon

Spec == Init /\ [][Next]_vars

-----------------------------------------------------------------------------
TypeOK ==
    /\ snowIDTimestamp \in 0 .. MaxTime
    /\ snowIDSeq \in 0 .. (SeqCount - 1)
    /\ snowIDClockBackPoints \in [1 .. snowClockBackMaxTimes -> 0 .. MaxTime]
    /\ snowIDClockBackTimes \in 0 .. (snowClockBackMaxTimes + 1)
    /\ pc \in {"idle", "waiting", "dead"}
    /\ clock \in 1 .. MaxTime
    /\ issued \subseteq Nat
    /\ returned \in Nat

(* "生成一个全局唯一 ID": no two calls of NewID return the same id.          *)
Unique == Cardinality(issued) = returned

(* "time back: 表示这个 ID 是在时钟回拨时生成的": an id from an earlier time  *)
(* than one returned before carries a rollback count in its field.          *)
RollbackIsFlagged ==
    [][\A id \in issued' \ issued :
          (\E old \in issued : IDGetTimestamp(id) < IDGetTimestamp(old)) =>
              IDGetClockBackwardTimes(id) > 0]_vars

=============================================================================
