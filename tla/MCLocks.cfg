\* Two callers of RedLock; three of EtcdLock, two of them in one process.
CONSTANTS
    RedCallers = {1, 2}
    NoCaller = 0
    Ttl = 7
    Interval = 4
    Delay = 1
    ExitWait = 2
    Tries = 2
    RedFaults = 2
    EtcdCallers = {1, 2, 3}
    ProcOf <- MCProcOf
    EtcdFaults = 2
SPECIFICATION Spec
CHECK_DEADLOCK FALSE
INVARIANTS
    NoPanic
PROPERTIES
    RedImplementsLock
    EtcdImplementsLock
    KeyGoesAway
