CONSTANTS
    ip1 = ip1
    ip2 = ip2
    t1 = t1
    NCollectors = 2
    Ips <- MCIps
    Ports <- MCPorts
    Capacity = 4
    Tasks <- MCTasks
    Wants <- MCWants
    Starts = {1}
    Runs = {1}
    Orphans = FALSE
    MaxClock = 3
    MaxRecords = 5
SPECIFICATION FairSpec
INVARIANTS
    TypeOK
    WindowsTile
    PanicsOnlyOnLargeBatchOrStop
PROPERTY TaskCatchesUp
CHECK_DEADLOCK FALSE
