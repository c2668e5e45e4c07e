CONSTANTS
    BufLen = 2
    Chunk = 9
    CleanThreshold = 9
    ReadsFail = FALSE
    MaxRequests = 6
    MaxFaults = 0
    MaxProcesses = 1
    Crashes = "never"
    Stops = TRUE
    EarlyAdds = FALSE
SPECIFICATION Spec
INVARIANT StopKeepsAll
CHECK_DEADLOCK FALSE
