CONSTANTS
    Chunk = 8
    CleanThreshold = 2
    Rows = 2
    MaxRecords = 7
    MaxFaults = 0
    ReadsFail = FALSE
    Files = {f1, f2}
    Calls = {k1, k2}
    Attempts = 2
    MaxLogFaults = 1
    MaxAgeing = 1
    TxCallers = {c1, c2, c3}
    MaxConns = 1
SPECIFICATION StorageSpec
INVARIANTS
    TypesOK
    NotLost
    SuccessMeansUploaded
    NilMeansCommitted
PROPERTIES
    ImplementsDiskQueue
    CallsEnd
CHECK_DEADLOCK FALSE
