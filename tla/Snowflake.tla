------------------------------ MODULE Snowflake ------------------------------
(***************************************************************************)
(* The id generators SnowflakeSecond and SnowflakeMillis of                *)
(* pkg/distribute/snowflake.go.  The two types differ only in the unit of  *)
(* the clock, so one module stands for both.                               *)
(*                                                                         *)
(* Every worker is one generator on its own machine, with its own clock.   *)
(* Next() holds the generator's mutex from the first read of the clock to  *)
(* the return, sleeps included, so at most one call per generator is in    *)
(* progress; pc says in which of its two wait loops that call is.          *)
(***************************************************************************)
EXTENDS Integers, Sequences

CONSTANTS
    Workers,        \* the worker ids in use, one generator each
    WorkerCount,    \* 2^workerIdBits
    SeqCount,       \* 2^sequenceBits
    MaxTime,        \* bound: the last timestamp of the checked horizon
    MaxBack         \* bound: total number of units a clock steps back

(***************************************************************************)
(* Workers \subseteq ... is the range test of the constructors, which      *)
(* panic on any other worker id.                                           *)
(***************************************************************************)
ASSUME SnowflakeAssumption ==
    /\ WorkerCount \in Nat \ {0}
    /\ SeqCount \in Nat \ {0}
    /\ MaxTime \in Nat
    /\ MaxBack \in Nat
    /\ Workers \subseteq 0 .. (WorkerCount - 1)

VARIABLES
    clock,              \* clock[w]: time.Now() - epoch on w's machine
    relativeTimestamp,  \* time of the last id
    sequence,           \* sequence within that time
    pc,                 \* "idle", or the wait loop the current call is in
    backs,              \* units w's clock has stepped back so far
    handed              \* history: the ids returned by w, in order

vars == <<clock, relativeTimestamp, sequence, pc, backs, handed>>

-----------------------------------------------------------------------------
(* Mutant: the worker field overlaps the time.                              *)
EncodeOverlap(now, w, seq) == (now * (WorkerCount - 1) + w) * SeqCount + seq

(* (now << timestampShift) | (workerid << sequenceBits) | sequence: the     *)
(* fields do not overlap, so the bitwise or is a sum.                       *)
Encode(now, w, seq) == (now * WorkerCount + w) * SeqCount + seq

GetWorkerId(sid) == (sid \div SeqCount) % WorkerCount

GetTimestamp(sid) == sid \div (SeqCount * WorkerCount)

-----------------------------------------------------------------------------
Init ==
    /\ clock \in [Workers -> {t \in 0 .. 1 : t <= MaxTime}]
    /\ relativeTimestamp = [w \in Workers |-> 0]
    /\ sequence = [w \in Workers |-> 0]
    /\ pc = [w \in Workers |-> "idle"]
    /\ backs = [w \in Workers |-> 0]
    /\ handed = [w \in Workers |-> <<>>]

(* The last two lines of Next(): store the time and return the id.          *)
Return(w, seq) ==
    /\ relativeTimestamp' = [relativeTimestamp EXCEPT ![w] = clock[w]]
    /\ sequence' = [sequence EXCEPT ![w] = seq]
    /\ pc' = [pc EXCEPT ![w] = "idle"]
    /\ handed' = [handed EXCEPT ![w] = Append(@, Encode(clock[w], w, seq))]
    /\ UNCHANGED <<clock, backs>>

(* (s.sequence + 1) & s.sequenceMask                                        *)
NextSequence(w) == (sequence[w] + 1) % SeqCount

(* now == s.relativeTimestamp, and the sequence has numbers left.           *)
NextSame(w) ==
    /\ pc[w] = "idle"
    /\ clock[w] = relativeTimestamp[w]
    /\ NextSequence(w) # 0
    /\ Return(w, NextSequence(w))

(* now == s.relativeTimestamp and the sequence wraps to 0: the call starts  *)
(* waiting, with the wrapped sequence already stored.                       *)
NextExhausted(w) ==
    /\ pc[w] = "idle"
    /\ clock[w] = relativeTimestamp[w]
    /\ NextSequence(w) = 0
    /\ sequence' = [sequence EXCEPT ![w] = 0]
    /\ pc' = [pc EXCEPT ![w] = "exhausted"]
    /\ UNCHANGED <<clock, relativeTimestamp, backs, handed>>

(* Mutant: the loop's <= read as <.                                         *)
ExhaustedDoneEarly(w) ==
    /\ pc[w] = "exhausted"
    /\ clock[w] >= relativeTimestamp[w]
    /\ Return(w, sequence[w])

(* The loop `for now <= s.relativeTimestamp` reads a later time and ends.   *)
ExhaustedDone(w) ==
    /\ pc[w] = "exhausted"
    /\ clock[w] > relativeTimestamp[w]
    /\ Return(w, sequence[w])

(* now < s.relativeTimestamp: the clock was set back, the call waits.       *)
NextBehind(w) ==
    /\ pc[w] = "idle"
    /\ clock[w] < relativeTimestamp[w]
    /\ pc' = [pc EXCEPT ![w] = "behind"]
    /\ UNCHANGED <<clock, relativeTimestamp, sequence, backs, handed>>

(* Mutant: the call does not wait for the clock to catch up.                *)
BehindDoneAtOnce(w) ==
    /\ pc[w] = "behind"
    /\ Return(w, 0)

(* Mutant: the call never leaves its loop when the clock ran ahead.         *)
BehindDoneExactly(w) ==
    /\ pc[w] = "behind"
    /\ clock[w] = relativeTimestamp[w]
    /\ Return(w, 0)

(* The loop `for now < s.relativeTimestamp` ends as soon as the clock is    *)
(* back at the time of the last id, and the sequence restarts at 0.         *)
BehindDone(w) ==
    /\ pc[w] = "behind"
    /\ clock[w] >= relativeTimestamp[w]
    /\ Return(w, 0)

(* A later time than that of the last id.                                   *)
NextLater(w) ==
    /\ pc[w] = "idle"
    /\ clock[w] > relativeTimestamp[w]
    /\ Return(w, 0)

-----------------------------------------------------------------------------
(* External: the machine's clock moves on, and may be set back.             *)
Tick(w) ==
    /\ clock[w] < MaxTime
    /\ clock' = [clock EXCEPT ![w] = @ + 1]
    /\ UNCHANGED <<relativeTimestamp, sequence, pc, backs, handed>>

StepBack(w) ==
    \E d \in 1 .. (MaxBack - backs[w]) :
        /\ d <= clock[w]
        /\ clock' = [clock EXCEPT ![w] = @ - d]
        /\ backs' = [backs EXCEPT ![w] = @ + d]
        /\ UNCHANGED <<relativeTimestamp, sequence, pc, handed>>

(* The end of the checked horizon, where a waiting call can only wait on.   *)
Horizon ==
    /\ \A w \in Workers : clock[w] = MaxTime
    /\ UNCHANGED vars

Call(w) ==
    \/ NextSame(w)
    \/ NextExhausted(w)
    \/ NextBehind(w)
    \/ NextLater(w)

Wake(w) == ExhaustedDone(w) \/ BehindDone(w)

Next ==
    \/ \E w \in Workers : Call(w) \/ Wake(w) \/ Tick(w) \/ StepBack(w)
    \/ Horizon

(* Time passes, and a sleeping call reads the clock again after its sleep.  *)
(* Nothing obliges a program to call Next().                                *)
Fairness == \A w \in Workers : WF_vars(Tick(w)) /\ WF_vars(Wake(w))

Spec == Init /\ [][Next]_vars

FairSpec == Spec /\ Fairness

-----------------------------------------------------------------------------
TypeOK ==
    /\ clock \in [Workers -> 0 .. MaxTime]
    /\ relativeTimestamp \in [Workers -> 0 .. MaxTime]
    /\ sequence \in [Workers -> 0 .. (SeqCount - 1)]
    /\ pc \in [Workers -> {"idle", "exhausted", "behind"}]
    /\ backs \in [Workers -> 0 .. MaxBack]
    /\ handed \in [Workers -> Seq(Nat)]

(* As long as its clock was not set back, the ids a generator returns grow  *)
(* strictly, through every wrap of the sequence: Next() never returns an id *)
(* twice.                                                                   *)
Increasing ==
    \A w \in Workers : backs[w] = 0 =>
        \A j \in DOMAIN handed[w] : \A i \in 1 .. (j - 1) :
            handed[w][i] < handed[w][j]

(* Two generators never return the same id, however their clocks differ     *)
(* and whether or not they are set back: the worker field keeps them apart. *)
NoSharedId ==
    \A v, w \in Workers : v # w =>
        \A i \in DOMAIN handed[v], j \in DOMAIN handed[w] :
            handed[v][i] # handed[w][j]

(* GetWorkerId and GetTimestamp read back from the last id what Next() put  *)
(* into it: the generator's worker id and the time it remembers.            *)
DecodesLastId ==
    \A w \in Workers : handed[w] # <<>> =>
        LET last == handed[w][Len(handed[w])] IN
        /\ GetWorkerId(last) = w
        /\ GetTimestamp(last) = relativeTimestamp[w]

(* Even when the clock is set back, the time in a generator's ids never     *)
(* goes back: the wait of Next() holds the id until the clock caught up.    *)
TimestampsNeverRegress ==
    \A w \in Workers : \A j \in DOMAIN handed[w] : \A i \in 1 .. (j - 1) :
        GetTimestamp(handed[w][i]) <= GetTimestamp(handed[w][j])

(* A call that sleeps in one of the wait loops of Next(), with the mutex    *)
(* held, returns once the clock has moved far enough, however often the     *)
(* clock is set back meanwhile.  Only a wait for a time after the checked   *)
(* horizon is left out.                                                     *)
WaitingCallsReturn ==
    \A w \in Workers :
        pc[w] # "idle" /\ relativeTimestamp[w] < MaxTime ~> pc[w] = "idle"

(* The comment on the rollback branch: it waits for the NEXT timestamp      *)
(* before it restarts the sequence.                                         *)
RollbackWaitsForNextTimestamp ==
    [][\A w \in Workers : pc[w] = "behind" /\ pc'[w] = "idle" =>
           relativeTimestamp'[w] > relativeTimestamp[w]]_vars

=============================================================================
