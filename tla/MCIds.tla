-------------------------------- MODULE MCIds ---------------------------------
(***************************************************************************)
(* The id generators for TLC: Snowflake, SnowID or DistId, one of them     *)
(* from the first state on.                                                *)
(***************************************************************************)
EXTENDS Snowflake

CONSTANTS
    NodeId, NodeCount, IdMaxTime, MaxBacks, MaxRestarts, MayRevisit,
    Processes, Starts, MaxIds, IdFaults

VARIABLES
    which,
    snowIDTimestamp, snowIDSeq, snowIDClockBackPoints, snowIDClockBackTimes,
    idPc, idClock, peak, booted, idBacks, restarts, issued, returned,
    exists, counter, generator, open, idLog, idFaults

S == INSTANCE SnowID WITH MaxTime <- IdMaxTime, pc <- idPc, clock <- idClock, backs <- idBacks
D == INSTANCE DistId

ASSUME SnowIDAssumption == S!ConstantsFit
ASSUME DistIdAssumption == D!StartsFit

MCWorkers == {0, 1}

newIdVars == <<snowIDTimestamp, snowIDSeq, snowIDClockBackPoints, snowIDClockBackTimes,
               idPc, idClock, peak, booted, idBacks, restarts, issued, returned>>
distVars == <<exists, counter, generator, open, idLog, idFaults>>
all == <<which, vars, newIdVars, distVars>>

IdsInit == which \in {"snowflake", "snowid", "distid"} /\ Init /\ S!Init /\ D!IdInit

Snow(A) == which = "snowflake" /\ A /\ UNCHANGED <<which, newIdVars, distVars>>
NewIDs(A) == which = "snowid" /\ A /\ UNCHANGED <<which, vars, distVars>>
Dist(A) == which = "distid" /\ A /\ UNCHANGED <<which, vars, newIdVars>>

IdsNext == Snow(Next) \/ NewIDs(S!Next) \/ Dist(D!IdNext)

(* The fairness of Snowflake, where it runs.                                *)
IdsSpec ==
    /\ IdsInit /\ [][IdsNext]_all
    /\ \A w \in Workers : WF_all(Snow(Tick(w))) /\ WF_all(Snow(Wake(w)))

(* NewID never returns an id twice, see SnowID.                             *)
Unique == S!Unique

(* An id from the past is marked as such, see SnowID.                       *)
RollbackIsFlagged == S!RollbackIsFlagged

(* The ids of pkg/distribute/id.go increase across processes, see DistId.   *)
IdsIncrease == D!IdsIncrease
=============================================================================
