\* Snowflake: two numbers per timestamp, so every sequence wraps; three
\* timestamps; clocks set back by up to two units in all.  SnowID: one
\* rollback episode with up to four rollbacks inside one another, a restart.
\* DistId: two processes with different starts, restarts, failing commands.
CONSTANTS
    Workers <- MCWorkers
    WorkerCount = 2
    SeqCount = 2
    MaxTime = 2
    MaxBack = 2
    NodeId = 1
    NodeCount = 4
    IdMaxTime = 3
    MaxBacks = 4
    MaxRestarts = 1
    MayRevisit = FALSE
    Processes = {1, 2}
    Starts = {0, 2}
    MaxIds = 4
    IdFaults = 2
SPECIFICATION IdsSpec
CHECK_DEADLOCK FALSE
INVARIANTS
    Increasing
    NoSharedId
    TimestampsNeverRegress
    Unique
    IdsIncrease
PROPERTIES
    WaitingCallsReturn
    RollbackIsFlagged
