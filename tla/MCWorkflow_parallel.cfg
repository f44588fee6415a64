\* A workflow of one ParallelTask, nothing else going wrong.
CONSTANTS
    Sessions = {1}
    Names <- MCNames
    KindOf <- MCKindOf
    Flows <- OnlyFan
    MaxRetries = 0
    Parts = 2
    MaxFaults = 0
    Cancellable = {}
SPECIFICATION FairSpec
CHECK_DEADLOCK FALSE
PROPERTIES
    ParallelTaskReturns
