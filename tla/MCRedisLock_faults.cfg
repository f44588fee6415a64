\* Answers as late as they like, one failing or lost command, crashes of
\* one of the callers.
CONSTANTS
    a = a
    b = b
    c = c
    None = None
    Callers <- TwoCallers
    Resources = {"job"}
    Ttl = 3
    Modes = {"lock"}
    AutoChoices = {TRUE}
    MayExtend = FALSE
    Timely = FALSE
    MaxDelay = 0
    MaxFaults = 1
    MayCrash = {a}
    Lockers <- TwoCallers
    LockerOf <- OwnLocker
    MayClose = {}
SPECIFICATION FairSpec
PROPERTIES
    HeldKeyOnlyExpires
    NeverRegained
    CallsReturn
    AbandonedKeyExpires
