CONSTANTS
    Readers = {r1, r2}
    Logins = {l1, l2}
    Ips = {a, b}
    Absent = Absent
    MaxUsers = 1
    StoreFaults = 1
    Members = {1, 2, 3}
    Requests = {1, 2, 3, 4}
    Asked <- MCAsked
    Future = 10
    LastSecond = 2
    IdempotentSecs = 2
    MaxCalls = 5
    Sizes = {1}
    Batches = {0, 1}
    FuzzyBounds <- MCBounds
    FuzzyCounts = {0, 1}
    Loggers = {1}
    MaxCount = 2
    BufferSize = 2
    MaxLogs = 3
    MaxStarts = 2
    StoreErrors = 1
    Values = {1, 2}
    MaxNodes = 4
    ByteCount = 4
    Base = 3
    Words <- MCWords
    Payloads = {"12", "123", "text"}
    NoPayload = NoPayload
    Marshalled <- MCMarshalled
    SignatureLen = 2
SPECIFICATION PartsSpec
SYMMETRY MCSymmetry
CHECK_DEADLOCK FALSE
INVARIANTS
    FreshIP
    CountedOnce
    RanksAgree
    LogsKept
    ListsAreExact
    CodecsInvert
PROPERTIES
    TruncateKeepsTop
