CONSTANTS
    Lines = {1, 2}
    u1 = u1
    Users = {u1}
    UserOf <- MCUserOf
    IdOf <- MCIdOf
    Senders = {11}
    WriteCap = 1
    QueueCap = 1
    ReadChans = {"error"}
    MaxOps = 1
SPECIFICATION FairSpec
CHECK_DEADLOCK FALSE
INVARIANTS
    NoSendOnClosed
    MapIsExact
PROPERTIES
    LinesEnd
