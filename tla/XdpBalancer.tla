----------------------------- MODULE XdpBalancer -----------------------------
(* xdp_bpf.c, a load balancer in the kernel, and main.go, the process that   *)
(* loads it: the program attached to the interface and the pinned map stay   *)
(* when the process ends, and every process loads a new program with new     *)
(* maps.  The host is little-endian.  Addresses and ports of packets are     *)
(* numbers in host order here, the first octet the highest, as ipToInt makes *)
(* them; what the code puts on the wire in the other byte order is the       *)
(* Swapped number.                                                           *)
EXTENDS Integers, FiniteSets

CONSTANTS
    Backend,            \* what main.go puts for Service: [ip, port]
    Service,            \* 8080
    Addresses, Ports,   \* of packets
    Swapped,            \* bytes of an address or port in reverse order
    MaxBackends,        \* MAX_BACKENDS
    MaxProcesses,       \* bound: processes in a behaviour
    Nothing

(* The service is one of the ports; processes may be loaded any number of times. *)
XdpAssumption == MaxProcesses \in Nat /\ Service \in Ports

VARIABLES
    process,            \* the running process and its program, counted from 1
    step,               \* how far main has come
    attached,           \* the program on eth0, 0 if none
    pinned,             \* whose backend_map is at BpfMapPath, 0 if none
    opened,             \* whose backend_map LoadPinnedMap returned
    backend_map,        \* program -> port -> backend
    backend_back_map,   \* program -> (address, port) -> backend
    tx                  \* the last packet sent back by XDP_TX

xdpvars == <<process, step, attached, pinned, opened, backend_map, backend_back_map, tx>>

Programs == 1..MaxProcesses
Backends == [ip : Addresses, port : Ports]
(* The source address is neither used nor changed by the program.            *)
Packets == [sport : Ports, daddr : Addresses, dport : Ports]

TypeOK ==
    /\ process \in 0..MaxProcesses
    /\ step \in {"down", "loaded", "attached", "pinned", "put", "opened", "running"}
    /\ attached \in 0..MaxProcesses
    /\ pinned \in 0..MaxProcesses
    /\ opened \in 0..MaxProcesses
    /\ backend_map \in [Programs -> [Ports -> Backends \cup {Nothing}]]
    /\ backend_back_map \in [Programs -> [Addresses \X Ports -> Backends \cup {Nothing}]]

Init ==
    /\ process = 0
    /\ step = "down"
    /\ attached = 0
    /\ pinned = 0
    /\ opened = 0
    /\ backend_map = [n \in Programs |-> [p \in Ports |-> Nothing]]
    /\ backend_back_map = [n \in Programs |-> [k \in Addresses \X Ports |-> Nothing]]
    /\ tx = Nothing

-----------------------------------------------------------------------------
maps == <<backend_map, backend_back_map>>

(* loadBpfObjects: a program and its own, empty maps.                        *)
Load ==
    /\ step = "down"
    /\ process < MaxProcesses
    /\ process' = process + 1
    /\ step' = "loaded"
    /\ opened' = 0
    /\ UNCHANGED <<attached, pinned, maps, tx>>

(* LinkSetXdpFdWithFlags, in one mode or the other, replaces the program.    *)
Attach ==
    /\ step = "loaded"
    /\ attached' = process
    /\ step' = "attached"
    /\ UNCHANGED <<process, pinned, opened, maps, tx>>

(* Any end of the process: a failing step, a signal, a crash.  The deferred  *)
(* Close drops the process's references only.                                *)
Ends ==
    /\ step # "down"
    /\ step' = "down"
    /\ UNCHANGED <<process, attached, pinned, opened, maps, tx>>

(* BackendMap.Pin fails when there is a map at the path already.             *)
PinIgnored == step = "attached" /\ pinned' = IF pinned = 0 THEN process ELSE pinned
PinFile == step = "attached" /\ pinned = 0 /\ pinned' = process
Pin ==
    /\ PinFile
    /\ step' = "pinned"
    /\ UNCHANGED <<process, attached, opened, maps, tx>>

Put(n) == backend_map' = [backend_map EXCEPT ![n][Service] = Backend]
PutBackend ==
    /\ step = "pinned"
    /\ Put(process)
    /\ step' = "put"
    /\ UNCHANGED <<process, attached, pinned, opened, backend_back_map, tx>>

LoadPinnedMap ==
    /\ step = "put"
    /\ pinned # 0
    /\ opened' = pinned
    /\ step' = "opened"
    /\ UNCHANGED <<process, attached, pinned, maps, tx>>

PutPinned ==
    /\ step = "opened"
    /\ Put(opened)
    /\ step' = "running"
    /\ UNCHANGED <<process, attached, pinned, opened, backend_back_map, tx>>

-----------------------------------------------------------------------------
(* What is stored for replies: the address is the one just written into the  *)
(* packet, and the port is in network order.                                 *)
OldDestination(p, b) == [ip |-> p.daddr, port |-> Swapped[b.port]]
NewBackend(p, b) == [ip |-> b.ip, port |-> Swapped[b.port]]

(* ip->daddr = backend->ip: the number of ipToInt is stored without htonl, so *)
(* that its lowest octet comes first on the wire.                            *)
OnWire(ip) == Swapped[ip]

(* xdp_load_balancer on a TCP packet: replies first, then services.          *)
Receive(p) ==
    LET n == attached
        back == backend_back_map[n][<<p.daddr, p.sport>>]
        backend == backend_map[n][p.dport]
        Rewritten(b) == [p EXCEPT !.daddr = OnWire(b.ip), !.dport = b.port]
        entries == {k \in Addresses \X Ports : backend_back_map[n][k] # Nothing}
    IN  /\ n # 0
        /\ \/ /\ back # Nothing
              /\ tx' = Rewritten(back)
              /\ UNCHANGED backend_back_map
           \/ /\ back = Nothing
              /\ backend # Nothing
              /\ tx' = Rewritten(backend)
              /\ LET key == <<p.daddr, backend.port>>
                 IN backend_back_map' =
                        IF key \in entries \/ Cardinality(entries) < MaxBackends
                        THEN [backend_back_map EXCEPT ![n][key] = NewBackend(p, backend)]
                        ELSE backend_back_map
        /\ UNCHANGED <<process, step, attached, pinned, opened, backend_map>>

Next ==
    \/ Load \/ Attach \/ Ends \/ Pin \/ PutBackend \/ LoadPinnedMap \/ PutPinned
    \/ \E p \in Packets : Receive(p)
Spec == Init /\ [][Next]_xdpvars

-----------------------------------------------------------------------------
(* A process that says it is running has the program on the interface, and   *)
(* what it wrote through the pinned path reached that program: a map left at *)
(* the path by an earlier process is never taken for its own.                *)
PutReachesProgram == step = "running" =>
    /\ opened = attached /\ attached = process
    /\ backend_map[attached][Service] = Backend

(* Whatever is sent goes to one address, which is not the backend's: that of *)
(* the octets of Backend in reverse order (main.go:73 with xdp_bpf.c:81,     *)
(* 111), unless they read the same both ways.  It does so at its first       *)
(* rewriting and, with the port reversed (xdp_bpf.c:84, 117), when it is     *)
(* found in backend_back_map: an entry never holds the address a packet came *)
(* for, whichever process wrote the maps.                                    *)
TxToStoredAddress ==
    tx # Nothing =>
        /\ tx.daddr = OnWire(Backend.ip)
        /\ tx.dport \in {Backend.port, Swapped[Backend.port]}
=============================================================================
