CONSTANTS
    BufLen = 2
    Chunk = 9
    CleanThreshold = 9
    ReadsFail = FALSE
    MaxRequests = 5
    MaxFaults = 2
    MaxProcesses = 1
    Crashes = "never"
    Stops = FALSE
    EarlyAdds = TRUE
SPECIFICATION FairSpec
PROPERTIES
    ImplementsOutbox
    AllDelivered
CHECK_DEADLOCK FALSE
