\* Two subscribers that keep their names, on a topic that never falls silent;
\* failing commands, a restart, and Close.
CONSTANTS
    s1 = s1
    s2 = s2
    n1 = n1
    n2 = n2
    n3 = n3
    None = None
    Names = {n1, n2, n3}
    Subscribers <- TwoSubs
    FirstName <- TwoNames
    MaxMsgs = 3
    BatchSize = 2
    KeepsName = TRUE
    KeepsComing = TRUE
    MaxFaults = 1
    MaxRestarts = 1
    MayClose = TRUE
SPECIFICATION FairSpec
CHECK_DEADLOCK FALSE
INVARIANTS
    NothingLost
    OwnMessagesOnly
PROPERTIES
    EveryMessageAcked
