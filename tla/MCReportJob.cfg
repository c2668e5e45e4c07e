CONSTANTS
    BufLen = 2
    Chunk = 9
    CleanThreshold = 1
    ReadsFail = FALSE
    MaxRequests = 7
    MaxFaults = 0
    MaxProcesses = 1
    Crashes = "never"
    Stops = FALSE
    EarlyAdds = TRUE
SPECIFICATION Spec
INVARIANTS
    TypeOK
    DeliveredRight
