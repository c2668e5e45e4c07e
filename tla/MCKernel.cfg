CONSTANTS
    None = None
    Threads = {a1, a2, b1}
    Process <- MCProcess
    MaxEntries = 1
    Elements = {1, 2, 3}
    LatencyCalls = 3
    a1 = a1
    a2 = a2
    b1 = b1
    pid1 = pid1
    pid2 = pid2
    total_cpus = 2
    start_addr = 8
    end_addr = 24
    PageSize = 4
    Align = 2
    MaxBufferSize = 4
    StringSize = 4
    StringLengths = {0, 3}
    MaxWrites = 3
    MaxSlice = 3
    AllocWidth = 64
    Goroutines = {g1, g2}
    Probes = {server, client}
    Contexts = {c1, c2}
    Parent <- MCParent
    Samplers <- MCSamplers
    LowIds = {1}
    MaxDistance = 2
    MaxTracked = 2
    MaxSpans = 3
    g1 = g1
    g2 = g2
    server = server
    client = client
    c1 = c1
    c2 = c2
    Backend <- MCBackend
    Service = service
    Addresses = {proxy, host, tsoh}
    Ports = {caller, service, http, ptth}
    Swapped <- MCSwapped
    MaxBackends = 2
    MaxProcesses = 2
    proxy = proxy
    host = host
    tsoh = tsoh
    caller = caller
    service = service
    http = http
    ptth = ptth
    proc1 = proc1
    proc2 = proc2
    map1 = map1
    map2 = map2
    theProg = theProg
    rootDir = rootDir
    otherDir = otherDir
    def1 = def1
    def2 = def2
    RingSize = 2
    RingWidth = 8
    RingBatch = 3
    MaxFrames = 10
    AttrLengths <- MCAttrLengths
    NlaLens = {0, 3, 5, 8, 20}
    Types = {1, 2, 3}
    maxtype = 2
    Policies <- MCPolicies
    s1 = s1
    s2 = s2
    skb = skb
    hw = hw
    Cpus = {cpu1, cpu2, cpu3}
    Online = {cpu1, cpu2}
    PerfSize = 4
    PerfLengths = {1, 3}
    MaxSamples = 3
    PerfFaults = 1
    Links = {1, 2}
    Modes = {skb, hw}
    Attaching = {s1}
    Dumping = {s2}
    MaxTime = 2
    MaxRequests = 2
    NlFaults = 1
    cpu1 = cpu1
    cpu2 = cpu2
    cpu3 = cpu3
SPECIFICATION Spec
INVARIANTS
    TypeOK
    RecordsPair
    TargetIntact
    SpansRight
    HandlesRight
    Delivered
PROPERTY FailedCallsUndo
CHECK_DEADLOCK FALSE
