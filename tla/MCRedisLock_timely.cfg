\* Redis answers within one tick; the key lives nine, so the goroutine
\* refreshes it every six.
CONSTANTS
    a = a
    b = b
    c = c
    None = None
    Callers <- TwoCallers
    Resources = {"job"}
    Ttl = 9
    Modes = {"try", "lock"}
    AutoChoices = {TRUE, FALSE}
    MayExtend = TRUE
    Timely = TRUE
    MaxDelay = 1
    MaxFaults = 0
    MayCrash <- TwoCallers
    Lockers <- TwoCallers
    LockerOf <- OwnLocker
    MayClose = {a, b}
SPECIFICATION Spec
SYMMETRY Symmetric2
INVARIANTS
    MutualExclusion
