\* Two launches of a workflow that is updated under them; one failing command.
CONSTANTS
    Sessions = {1, 2}
    Names <- MCNames
    KindOf <- MCKindOf
    Flows <- MCFlows
    MaxRetries = 1
    Parts = 2
    MaxFaults = 1
    Cancellable = {1}
SPECIFICATION FairSpec
CHECK_DEADLOCK FALSE
INVARIANTS
    DataFlows
    FinalUnlessDisturbed
PROPERTIES
    ImplementsLife
    LaunchReturns
