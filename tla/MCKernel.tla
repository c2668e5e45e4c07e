----------------------------- MODULE MCKernel -----------------------------
(* What runs in the kernel (the probes, the load balancer) and what libbpf   *)
(* shares with it: maps and links, sockets, rings and netlink messages.  The *)
(* modules share nothing here, so a behaviour is one of the module `part`    *)
(* names; the variables of the others are None.                              *)
EXTENDS Integers, Sequences, FiniteSets, TLC

CONSTANTS
    None,
    \* LatencyProbe: threads, their processes, places and elements of the map, calls
    Threads, Process, MaxEntries, Elements, LatencyCalls,
    a1, a2, b1, pid1, pid2,
    \* TargetAlloc: CPUs, the area, pages, lengths of strings, writes, the slice
    total_cpus, start_addr, end_addr, PageSize, Align, MaxBufferSize, StringSize,
    StringLengths, MaxWrites, MaxSlice, AllocWidth,
    \* SpanTracker: goroutines, probes, contexts, samplers, the sizes of maps, spans
    Goroutines, Probes, Contexts, Parent, Samplers, LowIds, MaxDistance, MaxTracked,
    MaxSpans, g1, g2, server, client, c1, c2,
    \* XdpBalancer: the backend of the service, addresses and ports, of which tsoh and
    \* ptth are the swapped ones
    Backend, Service, Addresses, Ports, Swapped, MaxBackends, MaxProcesses,
    proxy, host, tsoh, caller, service, http, ptth,
    \* BpfObject: two processes, two maps, a program, directories, definitions
    proc1, proc2, map1, map2, theProg, rootDir, otherDir, def1, def2,
    \* XskRing: slots of a ring, the counters' modulus, frames at once and in all
    RingSize, RingWidth, RingBatch, MaxFrames,
    \* NlAttr: lengths of streams and of attributes, types, policies
    AttrLengths, NlaLens, Types, maxtype, Policies,
    \* PerfBuffer: CPUs, those online, units of a ring and of samples, samples and faults
    Cpus, Online, PerfSize, PerfLengths, MaxSamples, PerfFaults, cpu1, cpu2, cpu3,
    \* Netlink: interfaces, modes, processes that set and that ask, seconds, requests, faults
    Links, Modes, Attaching, Dumping, MaxTime, MaxRequests, NlFaults,
    \* XskSocket and Netlink: sockets and modes
    s1, s2, skb, hw

VARIABLES
    part,
    stack, latency_step, stat, element, fun_perf_stat_events, latency_events,
    latency_calls, disturbed, unmeasured,
    alloc_start, alloc_end, alloc_prog, alloc_at, start, end, memory, writes, blocks,
    emptied, slice, appended, recycled,
    sampler, go_context_to_sc, tracked_spans_by_sc, uprobe_context, span_calls, span_at,
    reg, spans, leaving, leftover,
    process, xdp_step, xdp_attached, pinned, opened, backend_map, backend_back_map, tx,
    object_state, object_call, object_maps, instance, leaked, pins, object_kernel,
    object_calls, object_faults, object_unlinked, stuck,
    obj, prog_fd, map_fd, fdtab, links, attaching, event, hooks, registered, pin,
    link_unlinked, released, link_calls, link_faults,
    umem, refcount, xsk_fds, xsk_maps, sock, bound, xsk_attached, xsks_map, xsk_faults,
    xsk_call, lost,
    producer, consumer, cached_prod, cached_cons, slot, filled, sent, inKernel, peeked,
    received,
    perf_pc, perf_step, cpu_bufs, entries, polled, cur, perf_events, head, tail, mem,
    data_head, data_tail, ready, attempts, missed, got, stopped, perf_faults,
    nl_kernel, nl_now, nl_socket, nl_call, reply, nl_requests, nl_faults,
    attr_len, policy, rem, tb, seen, attr_err

Latency == INSTANCE LatencyProbe WITH
    MaxCalls <- LatencyCalls,
    step <- latency_step, events <- latency_events, calls <- latency_calls
ASSUME LatencySizes == Latency!LatencyAssumption
\* Two threads of one process and one of another.
MCProcess == a1 :> pid1 @@ a2 :> pid1 @@ b1 :> pid2

Alloc == INSTANCE TargetAlloc WITH
    Lengths <- StringLengths, Width <- AllocWidth,
    prog <- alloc_prog, at <- alloc_at
ASSUME AllocSizes == Alloc!AllocAssumption

Span == INSTANCE SpanTracker WITH
    is_registers_abi <- TRUE, calls <- span_calls, at <- span_at
ASSUME SpanSizes == Span!SpanAssumption
\* Two contexts, one inside the other; a sampler by ratio, and one that asks the parent.
MCParent == c1 :> None @@ c2 :> c1
Ratio == [type |-> "TRACE_ID_RATIO"]
ParentBased == [type |-> "PARENT_BASED", root |-> Ratio,
                local_parent_sampled |-> [type |-> "ALWAYS_ON"],
                local_parent_not_sampled |-> [type |-> "ALWAYS_OFF"]]
MCSamplers == {Ratio, ParentBased}

Xdp == INSTANCE XdpBalancer WITH
    Nothing <- None, step <- xdp_step, attached <- xdp_attached
ASSUME XdpSizes == Xdp!XdpAssumption
MCBackend == [ip |-> host, port |-> http]
MCSwapped == proxy :> proxy @@ host :> tsoh @@ tsoh :> host @@ caller :> caller
             @@ service :> service @@ http :> ptth @@ ptth :> http

Object == INSTANCE BpfObject WITH
    Objects <- {proc1, proc2}, MapSeq <- <<map1, map2>>, ByName <- {map1, map2},
    Def <- proc1 :> (map1 :> def1 @@ map2 :> def1)
           @@ proc2 :> (map1 :> def1 @@ map2 :> def2),
    Prog <- theProg, Root <- rootDir, Dir <- otherDir, MaxIds <- 4,
    MaxCalls <- 1, MaxFaults <- 1, MaxStuck <- 1,
    state <- object_state, call <- object_call, maps <- object_maps,
    kernel <- object_kernel, calls <- object_calls, faults <- object_faults,
    unlinked <- object_unlinked

Link == INSTANCE BpfLink WITH
    Kind <- <<"perf", "none", "raw">>, MaxFd <- 7, MaxHooks <- 3, MaxCalls <- 9,
    MaxFaults <- 1,
    unlinked <- link_unlinked, calls <- link_calls, faults <- link_faults

Xsk == INSTANCE XskSocket WITH
    Sockets <- {s1, s2}, MaxFaults <- 2,
    fds <- xsk_fds, maps <- xsk_maps, call <- xsk_call, attached <- xsk_attached,
    faults <- xsk_faults

Ring == INSTANCE XskRing WITH
    size <- RingSize, Width <- RingWidth, Batch <- RingBatch
ASSUME RingSizes == Ring!RingAssumption

Perf == INSTANCE PerfBuffer WITH
    Size <- PerfSize, Lengths <- PerfLengths, MaxFaults <- PerfFaults,
    pc <- perf_pc, step <- perf_step, events <- perf_events, faults <- perf_faults
ASSUME PerfSizes == Perf!PerfAssumption

Nl == INSTANCE Netlink WITH
    MaxFaults <- NlFaults,
    kernel <- nl_kernel, now <- nl_now, socket <- nl_socket, call <- nl_call,
    requests <- nl_requests, faults <- nl_faults
ASSUME NlSizes == Nl!NetlinkAssumption

Attr == INSTANCE NlAttr WITH
    Lengths <- AttrLengths, len <- attr_len, err <- attr_err
ASSUME AttrSizes == Attr!AttrAssumption
MCAttrLengths == 0..17
MCPolicies == {None, [min |-> 1, max |-> 0, string |-> TRUE],
               [min |-> 4, max |-> 4, string |-> FALSE]}

latencyVars == <<stack, latency_step, stat, element, fun_perf_stat_events,
                latency_events, latency_calls, disturbed, unmeasured>>
allocVars == <<alloc_start, alloc_end, alloc_prog, alloc_at, start, end, memory, writes,
              blocks, emptied, slice, appended, recycled>>
spanVars == <<sampler, go_context_to_sc, tracked_spans_by_sc, uprobe_context,
             span_calls, span_at, reg, spans, leaving, leftover>>
xdpVars == <<process, xdp_step, xdp_attached, pinned, opened, backend_map,
            backend_back_map, tx>>
objectVars == <<object_state, object_call, object_maps, instance, leaked, pins,
               object_kernel, object_calls, object_faults, object_unlinked, stuck>>
linkVars == <<obj, prog_fd, map_fd, fdtab, links, attaching, event, hooks, registered, pin,
             link_unlinked, released, link_calls, link_faults>>
xskVars == <<umem, refcount, xsk_fds, xsk_maps, sock, bound, xsk_attached, xsks_map,
            xsk_faults, xsk_call, lost>>
ringVars == <<producer, consumer, cached_prod, cached_cons, slot, filled, sent,
             inKernel, peeked, received>>
perfVars == <<perf_pc, perf_step, cpu_bufs, entries, polled, cur, perf_events, head,
             tail, mem, data_head, data_tail, ready, attempts, missed, got, stopped,
             perf_faults>>
nlVars == <<nl_kernel, nl_now, nl_socket, nl_call, reply, nl_requests, nl_faults>>
attrVars == <<attr_len, policy, rem, tb, seen, attr_err>>

NoLatency ==
    /\ stack = None /\ latency_step = None /\ stat = None /\ element = None
    /\ fun_perf_stat_events = None /\ latency_events = None /\ latency_calls = None
    /\ disturbed = None /\ unmeasured = None
NoAlloc ==
    /\ alloc_start = None /\ alloc_end = None /\ alloc_prog = None
    /\ alloc_at = None /\ start = None /\ end = None /\ memory = None
    /\ writes = None /\ blocks = None /\ emptied = None /\ slice = None
    /\ appended = None /\ recycled = None
NoSpan ==
    /\ sampler = None /\ go_context_to_sc = None /\ tracked_spans_by_sc = None
    /\ uprobe_context = None /\ span_calls = None /\ span_at = None /\ reg = None
    /\ spans = None /\ leaving = None /\ leftover = None
NoXdp ==
    /\ process = None /\ xdp_step = None /\ xdp_attached = None /\ pinned = None
    /\ opened = None /\ backend_map = None /\ backend_back_map = None /\ tx = None
NoLink ==
    /\ obj = None /\ prog_fd = None /\ map_fd = None /\ fdtab = None /\ links = None
    /\ attaching = None /\ event = None /\ hooks = None /\ registered = None /\ pin = None
    /\ link_unlinked = None /\ released = None /\ link_calls = None
    /\ link_faults = None
NoXsk ==
    /\ umem = None /\ refcount = None /\ xsk_fds = None /\ xsk_maps = None
    /\ sock = None /\ bound = None /\ xsk_attached = None /\ xsks_map = None
    /\ xsk_faults = None /\ xsk_call = None /\ lost = None
NoRing ==
    /\ producer = None /\ consumer = None /\ cached_prod = None
    /\ cached_cons = None /\ slot = None /\ filled = None /\ sent = None
    /\ inKernel = None /\ peeked = None /\ received = None
NoPerf ==
    /\ perf_pc = None /\ perf_step = None /\ cpu_bufs = None /\ entries = None
    /\ polled = None /\ cur = None /\ perf_events = None /\ head = None
    /\ tail = None /\ mem = None /\ data_head = None /\ data_tail = None
    /\ ready = None /\ attempts = None /\ missed = None /\ got = None
    /\ stopped = None /\ perf_faults = None
NoNl ==
    /\ nl_kernel = None /\ nl_now = None /\ nl_socket = None /\ nl_call = None
    /\ reply = None /\ nl_requests = None /\ nl_faults = None
NoAttr ==
    /\ attr_len = None /\ policy = None /\ rem = None /\ tb = None /\ seen = None
    /\ attr_err = None

Init ==
    /\ part \in {"latency", "alloc", "span", "xdp", "object", "link", "xsk", "ring",
                "perf", "netlink", "attr"}
    /\ IF part = "latency" THEN Latency!Init ELSE NoLatency
    /\ IF part = "alloc" THEN Alloc!Init ELSE NoAlloc
    /\ IF part = "span" THEN Span!Init ELSE NoSpan
    /\ IF part = "xdp" THEN Xdp!Init ELSE NoXdp
    /\ Object!Init
    /\ IF part = "link" THEN Link!Init ELSE NoLink
    /\ IF part = "xsk" THEN Xsk!Init ELSE NoXsk
    /\ IF part = "ring" THEN Ring!Init ELSE NoRing
    /\ IF part = "perf" THEN Perf!Init ELSE NoPerf
    /\ IF part = "netlink" THEN Nl!Init ELSE NoNl
    /\ IF part = "attr" THEN Attr!Init ELSE NoAttr

(* A step of one part leaves the variables of the others alone.              *)
Others(p) ==
    /\ p # "latency" => UNCHANGED latencyVars
    /\ p # "alloc" => UNCHANGED allocVars
    /\ p # "span" => UNCHANGED spanVars
    /\ p # "xdp" => UNCHANGED xdpVars
    /\ p # "object" => UNCHANGED objectVars
    /\ p # "link" => UNCHANGED linkVars
    /\ p # "xsk" => UNCHANGED xskVars
    /\ p # "ring" => UNCHANGED ringVars
    /\ p # "perf" => UNCHANGED perfVars
    /\ p # "netlink" => UNCHANGED nlVars
    /\ p # "attr" => UNCHANGED attrVars

LatencyNext == part = "latency" /\ Latency!Next /\ UNCHANGED part /\ Others("latency")
AllocNext == part = "alloc" /\ Alloc!Next /\ UNCHANGED part /\ Others("alloc")
SpanNext == part = "span" /\ Span!Next /\ UNCHANGED part /\ Others("span")
XdpNext == part = "xdp" /\ Xdp!Next /\ UNCHANGED part /\ Others("xdp")
ObjectNext == part = "object" /\ Object!Next /\ UNCHANGED part /\ Others("object")
LinkNext == part = "link" /\ Link!Next /\ UNCHANGED part /\ Others("link")
XskNext == part = "xsk" /\ Xsk!Next /\ UNCHANGED part /\ Others("xsk")
RingNext == part = "ring" /\ Ring!Next /\ UNCHANGED part /\ Others("ring")
PerfNext == part = "perf" /\ Perf!Next /\ UNCHANGED part /\ Others("perf")
NlNext == part = "netlink" /\ Nl!Next /\ UNCHANGED part /\ Others("netlink")
AttrNext == part = "attr" /\ Attr!Next /\ UNCHANGED part /\ Others("attr")

Next ==
    \/ LatencyNext \/ AllocNext \/ SpanNext \/ XdpNext
    \/ ObjectNext \/ LinkNext \/ XskNext \/ RingNext
    \/ PerfNext \/ NlNext \/ AttrNext
vars == <<part, latencyVars, allocVars, spanVars, xdpVars, objectVars, linkVars,
          xskVars, ringVars, perfVars, nlVars, attrVars>>
Spec == Init /\ [][Next]_vars

-----------------------------------------------------------------------------
(* The properties are those of the modules, which state and explain them.    *)

\* The variables of the part that runs have their types.
TypeOK ==
    /\ part = "latency" => Latency!TypeOK
    /\ part = "alloc" => Alloc!TypeOK
    /\ part = "span" => Span!TypeOK
    /\ part = "xdp" => Xdp!TypeOK
    /\ Object!TypeOK
    /\ part = "link" => Link!TypeOK
    /\ part = "xsk" => Xsk!TypeOK
    /\ part = "ring" => Ring!TypeOK
    /\ part = "perf" => Perf!TypeOK
    /\ part = "netlink" => Nl!TypeOK
    /\ part = "attr" => Attr!TypeOK

\* perf.bpf.c: a record pairs the entry and the return of one call, every
\* undisturbed call that returned is reported, and no record stays behind.
RecordsPair ==
    part = "latency" =>
        Latency!ReportsOwnCall /\ Latency!ReportsEveryCall /\ Latency!NoEntryLeft

\* alloc.h, go_types.h: a CPU writes into its own part of the area, overwrites
\* nothing the Go program was given, and a slice holds what was appended.
TargetIntact ==
    part = "alloc" => Alloc!WithinPart /\ Alloc!NoOverlap /\ Alloc!SliceIntact

\* go_context.h, uprobe.h, sampling.h: when no call is under way no event and no span
\* is registered, a context is for one of the known reasons only, a span gets an
\* ended parent from such a context only, and a trace is sampled as a whole.
SpansRight ==
    part = "span" =>
        /\ Span!NoSpanLeft /\ Span!ContextsLeftExplained
        /\ Span!NoDeadParent /\ Span!TraceIsWhole

\* libbpf.c, xsk.c: processes that name a map share it with its definition; a failed
\* load, attachment or socket leaves nothing behind but what the modules name, where
\* the code forgets it; links and sockets own what they use.
HandlesRight ==
    /\ part = "object" =>
        /\ Object!SharedByName /\ Object!LoadedMapsMatch
        /\ Object!FailedLoadLeavesNothing /\ Object!PinnedMeansPinned
    /\ part = "link" => Link!LinksSafe
    /\ part = "xsk" => Xsk!SocketsSafe

\* main.go, xdp_bpf.c, xsk.h, libbpf.c, netlink.c, nlattr.c: every packet the balancer
\* sends goes to the one address stored for the service, which is that of the backend
\* with its octets reversed (main.go:71); frames and records reach their reader, whole
\* and in order; and an answer is that of its own request.
Delivered ==
    /\ part = "xdp" => Xdp!PutReachesProgram /\ Xdp!TxToStoredAddress
    /\ part = "ring" => Ring!ReturnedInOrder /\ Ring!NeverOverfull
    /\ part = "perf" => Perf!PerfBufferSafe
    /\ part = "netlink" => Nl!NetlinkSafe
    /\ part = "attr" => Attr!IndexSound

\* libbpf.c: the end of a failed load removes only this object's pins; a failed
\* bpf_object__pin or bpf_object__pin_maps leaves no pin it made, except where unlink
\* failed, and removes no pin of another map.
FailedCallsUndo ==
    Object!FailedLoadKeepsForeignPins /\ Object!PinsAllOrNothing /\ Object!RollsBackOwnMaps
=============================================================================
