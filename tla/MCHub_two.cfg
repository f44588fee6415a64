\* Two lines of a user: they may overlap, fail at any moment, before they are
\* registered too, and be failed by a write; a sender pushes, the live check runs.
CONSTANTS
    l1 = l1
    l2 = l2
    u1 = u1
    s1 = s1
    s2 = s2
    Lines <- TwoLines
    Users = {u1}
    UserOf <- OneUserOf2
    IdOf <- OwnIds2
    Senders = {s1}
    Kinds = {"push"}
    WriteCap = 1
    EarlyClose = TRUE
    WritesFail = TRUE
    Overlap = TRUE
    Ticking = TRUE
SPECIFICATION Spec
CHECK_DEADLOCK FALSE
INVARIANTS
    NoSendOnClosed
    MapIsExact
