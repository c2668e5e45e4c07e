CONSTANTS
    BufLen = 2
    Chunk = 3
    CleanThreshold = 1
    ReadsFail = TRUE
    MaxRequests = 5
    MaxFaults = 1
    MaxProcesses = 2
    Crashes = "never"
    Stops = TRUE
    EarlyAdds = FALSE
SPECIFICATION Spec
INVARIANT StopKeeps
PROPERTY MemoryKept
CHECK_DEADLOCK FALSE
