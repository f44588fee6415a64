\* A line that fails or is told to close at any moment; pushes and close
\* commands from two goroutines; the live check.
CONSTANTS
    l1 = l1
    l2 = l2
    u1 = u1
    s1 = s1
    s2 = s2
    Lines <- OneLine
    Users = {u1}
    UserOf <- OneUserOf1
    IdOf <- OwnIds1
    Senders = {s1, s2}
    Kinds = {"push", "close"}
    WriteCap = 1
    EarlyClose = TRUE
    WritesFail = TRUE
    Overlap = TRUE
    Ticking = TRUE
SPECIFICATION FairSpec
CHECK_DEADLOCK FALSE
PROPERTIES
    GoroutinesEnd
