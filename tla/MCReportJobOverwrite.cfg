CONSTANTS
    BufLen = 2
    Chunk = 3
    CleanThreshold = 9
    ReadsFail = FALSE
    MaxRequests = 8
    MaxFaults = 0
    MaxProcesses = 1
    Crashes = "never"
    Stops = FALSE
    EarlyAdds = FALSE
SPECIFICATION Spec
INVARIANT NothingLost
