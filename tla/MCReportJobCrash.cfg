CONSTANTS
    BufLen = 2
    Chunk = 9
    CleanThreshold = 9
    ReadsFail = FALSE
    MaxRequests = 6
    MaxFaults = 0
    MaxProcesses = 3
    Crashes = "always"
    Stops = FALSE
    EarlyAdds = FALSE
SPECIFICATION FairSpec
INVARIANTS
    StoredSurvives
PROPERTY StoredDelivered
