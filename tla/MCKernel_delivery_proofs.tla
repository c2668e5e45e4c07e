---------------------- MODULE MCKernel_delivery_proofs ----------------------
(* What MCKernel promises of packets, frames, records and answers, for any   *)
(* number of processes, CPUs, interfaces, samples and requests, any ring and *)
(* any stream of attributes.  The other results about MCKernel are in        *)
(* MCKernel_proofs.                                                          *)
EXTENDS MCKernel, WellFoundedInduction, SequenceTheorems, FiniteSetTheorems, TLAPS

(* A step is a step of the part, or leaves the variables of the part alone.  *)
LEMMA PartSteps ==
    ASSUME [Next]_vars
    PROVE  /\ part' = part
           /\ part = "xdp" => [Xdp!Next]_xdpVars
           /\ part = "ring" => [Ring!Next]_ringVars
           /\ part = "perf" => [Perf!Next]_perfVars
           /\ part = "netlink" => [Nl!Next]_nlVars
           /\ part = "attr" => [Attr!Next]_attrVars
<1>1. CASE UNCHANGED vars
    BY <1>1 DEF vars
<1>2. CASE Next
    BY <1>2 DEF Next, LatencyNext, AllocNext, SpanNext, XdpNext, ObjectNext, LinkNext,
        XskNext, RingNext, PerfNext, NlNext, AttrNext
<1>3. QED
    BY <1>1, <1>2

LEMMA PartInit ==
    ASSUME Init
    PROVE  /\ part = "xdp" => Xdp!Init
           /\ part = "ring" => Ring!Init
           /\ part = "perf" => Perf!Init
           /\ part = "netlink" => Nl!Init
           /\ part = "attr" => Attr!Init
BY DEF Init

-----------------------------------------------------------------------------
(* xdp_bpf.c and main.go: packets and the processes that load the balancer.  *)

(* The only entry a reply can find.                                          *)
XdpEntry == [ip |-> Backend.ip, port |-> Swapped[Backend.port]]

(* How far a process has come: what it attached, pinned and opened, and that *)
(* maps hold the backend or nothing, whichever process wrote them.           *)
XdpInv ==
    /\ process \in 0..MaxProcesses
    /\ xdp_step \in {"down", "loaded", "attached", "pinned", "put", "opened", "running"}
    /\ xdp_step # "down" => process \in Xdp!Programs
    /\ xdp_step \notin {"down", "loaded"} => xdp_attached = process
    /\ xdp_step \in {"pinned", "put", "opened", "running"} => pinned = process
    /\ xdp_step \in {"opened", "running"} => opened = process
    /\ xdp_attached \in 0..MaxProcesses
    /\ backend_map \in [Xdp!Programs -> [Ports -> {None, Backend}]]
    /\ xdp_step = "running" => backend_map[process][Service] = Backend
    /\ backend_back_map \in [Xdp!Programs -> [Addresses \X Ports -> {None, XdpEntry}]]
    /\ Xdp!TxToStoredAddress

(* (main.go:28, before the first process)                                    *)
LEMMA XdpInit == ASSUME Xdp!XdpAssumption, Xdp!Init PROVE XdpInv
BY DEF Xdp!Init, Xdp!XdpAssumption, XdpInv, Xdp!TxToStoredAddress, Xdp!Programs

(* What the loader writes keeps the maps as they should be.  (main.go:51-62) *)
LEMMA PutTyped ==
    ASSUME NEW n \in Xdp!Programs, Xdp!Put(n), Service \in Ports,
           backend_map \in [Xdp!Programs -> [Ports -> {None, Backend}]]
    PROVE  /\ backend_map' \in [Xdp!Programs -> [Ports -> {None, Backend}]]
           /\ backend_map'[n][Service] = Backend
BY DEF Xdp!Put

(* A packet: what is sent goes to the address stored for the backend, and    *)
(* what is stored for the way back is that address.  (xdp_bpf.c:79-126)      *)
LEMMA ReceiveRight ==
    ASSUME Xdp!XdpAssumption, XdpInv, NEW p \in Xdp!Packets, Xdp!Receive(p)
    PROVE  /\ tx'.daddr = Xdp!OnWire(Backend.ip)
           /\ tx'.dport \in {Backend.port, Swapped[Backend.port]}
           /\ backend_back_map' \in [Xdp!Programs -> [Addresses \X Ports -> {None, XdpEntry}]]
<1> DEFINE n == xdp_attached
           back == backend_back_map[n][<<p.daddr, p.sport>>]
           backend == backend_map[n][p.dport]
<1>1. n \in Xdp!Programs /\ p.daddr \in Addresses /\ p.sport \in Ports /\ p.dport \in Ports
    BY DEF Xdp!Receive, XdpInv, Xdp!Programs, Xdp!Packets
<1>2. back \in {None, XdpEntry} /\ backend \in {None, Backend}
    BY <1>1 DEF XdpInv
<1>3. CASE back # None
    <2>1. back = XdpEntry
        BY <1>2, <1>3
    <2>2. tx' = [p EXCEPT !.daddr = Xdp!OnWire(back.ip), !.dport = back.port]
          /\ UNCHANGED backend_back_map
        BY <1>3 DEF Xdp!Receive
    <2>3. tx'.daddr = Xdp!OnWire(Backend.ip) /\ tx'.dport \in {Backend.port, Swapped[Backend.port]}
        BY <2>1, <2>2 DEF XdpEntry, Xdp!Packets
    <2>4. QED
        BY <2>2, <2>3 DEF XdpInv
<1>4. CASE back = None
    <2>1. backend = Backend
        BY <1>2, <1>4 DEF Xdp!Receive
    <2>2. tx' = [p EXCEPT !.daddr = Xdp!OnWire(backend.ip), !.dport = backend.port]
        BY <1>4 DEF Xdp!Receive
    <2>3. tx'.daddr = Xdp!OnWire(Backend.ip) /\ tx'.dport \in {Backend.port, Swapped[Backend.port]}
        BY <2>1, <2>2 DEF Xdp!Packets
    <2>4. \/ backend_back_map' = backend_back_map
          \/ backend_back_map' =
                [backend_back_map EXCEPT ![n][<<p.daddr, backend.port>>] = Xdp!NewBackend(p,
                    backend)]
        BY <1>4 DEF Xdp!Receive
    <2>5. Xdp!NewBackend(p, backend) = XdpEntry
        BY <2>1 DEF Xdp!NewBackend, XdpEntry
    <2>6. backend_back_map \in [Xdp!Programs -> [Addresses \X Ports -> {None, XdpEntry}]]
        BY DEF XdpInv
    <2>7. backend_back_map' \in [Xdp!Programs -> [Addresses \X Ports -> {None, XdpEntry}]]
        <3> DEFINE key == <<p.daddr, backend.port>>
        <3>1. [backend_back_map[n] EXCEPT ![key] = XdpEntry]
                  \in [Addresses \X Ports -> {None, XdpEntry}]
            BY <1>1, <2>6
        <3>2. [backend_back_map EXCEPT ![n] = [backend_back_map[n] EXCEPT ![key] = XdpEntry]]
                  \in [Xdp!Programs -> [Addresses \X Ports -> {None, XdpEntry}]]
            BY <1>1, <2>6, <3>1
        <3>3. [backend_back_map EXCEPT ![n][key] = XdpEntry]
                  = [backend_back_map EXCEPT ![n] = [backend_back_map[n] EXCEPT ![key]
                      = XdpEntry]]
            OBVIOUS
        <3>4. QED
            BY <2>4, <2>5, <2>6, <3>2, <3>3
    <2>8. QED
        BY <2>3, <2>7
<1>5. QED
    BY <1>3, <1>4

(* (main.go:28-70, xdp_bpf.c:27-128, each step)                              *)
LEMMA XdpStep ==
    ASSUME Xdp!XdpAssumption, XdpInv, [Xdp!Next]_(Xdp!xdpvars)
    PROVE  XdpInv'
<1>1. CASE UNCHANGED Xdp!xdpvars
    BY <1>1 DEF XdpInv, Xdp!TxToStoredAddress, Xdp!xdpvars, Xdp!maps
<1>2. CASE Xdp!Load
    <2>1. process' \in 0..MaxProcesses /\ xdp_step' = "loaded"
        BY <1>2 DEF Xdp!Load, XdpInv, Xdp!XdpAssumption
    <2>2. process' \in Xdp!Programs
        BY <1>2, <2>1 DEF Xdp!Load, XdpInv, Xdp!Programs
    <2>3. UNCHANGED <<xdp_attached, pinned, backend_map, backend_back_map, tx>> /\ opened' = 0
        BY <1>2 DEF Xdp!Load, Xdp!maps
    <2>4. QED
        BY <2>1, <2>2, <2>3 DEF XdpInv, Xdp!TxToStoredAddress
<1>3. CASE Xdp!Attach
    BY <1>3 DEF Xdp!Attach, XdpInv, Xdp!TxToStoredAddress, Xdp!Programs, Xdp!maps
<1>4. CASE Xdp!Ends
    BY <1>4 DEF Xdp!Ends, XdpInv, Xdp!TxToStoredAddress, Xdp!maps
<1>5. CASE Xdp!Pin
    BY <1>5 DEF Xdp!Pin, Xdp!PinFile, XdpInv, Xdp!TxToStoredAddress, Xdp!maps
<1>6. CASE Xdp!PutBackend
    <2>1. process \in Xdp!Programs
        BY <1>6 DEF Xdp!PutBackend, XdpInv
    <2>2. backend_map' \in [Xdp!Programs -> [Ports -> {None, Backend}]]
        BY <1>6, <2>1, PutTyped DEF Xdp!PutBackend, XdpInv, Xdp!XdpAssumption
    <2>3. QED
        BY <1>6, <2>2 DEF Xdp!PutBackend, XdpInv, Xdp!TxToStoredAddress
<1>7. CASE Xdp!LoadPinnedMap
    BY <1>7 DEF Xdp!LoadPinnedMap, XdpInv, Xdp!TxToStoredAddress, Xdp!maps
<1>8. CASE Xdp!PutPinned
    <2>1. opened = process /\ process \in Xdp!Programs
        BY <1>8 DEF Xdp!PutPinned, XdpInv
    <2>2. /\ backend_map' \in [Xdp!Programs -> [Ports -> {None, Backend}]]
          /\ backend_map'[process][Service] = Backend
        BY <1>8, <2>1, PutTyped DEF Xdp!PutPinned, XdpInv, Xdp!XdpAssumption
    <2>3. QED
        BY <1>8, <2>2 DEF Xdp!PutPinned, XdpInv, Xdp!TxToStoredAddress
<1>9. ASSUME NEW p \in Xdp!Packets, Xdp!Receive(p) PROVE XdpInv'
    <2>1. /\ tx'.daddr = Xdp!OnWire(Backend.ip)
          /\ tx'.dport \in {Backend.port, Swapped[Backend.port]}
          /\ backend_back_map' \in [Xdp!Programs -> [Addresses \X Ports -> {None, XdpEntry}]]
        BY <1>9, ReceiveRight
    <2>2. UNCHANGED <<process, xdp_step, xdp_attached, pinned, opened, backend_map>>
        BY <1>9 DEF Xdp!Receive
    <2>3. QED
        BY <2>1, <2>2 DEF XdpInv, Xdp!TxToStoredAddress
<1>10. QED
    BY <1>1, <1>2, <1>3, <1>4, <1>5, <1>6, <1>7, <1>8, <1>9 DEF Xdp!Next


LEMMA XdpSafe == ASSUME XdpInv PROVE Xdp!PutReachesProgram /\ Xdp!TxToStoredAddress
<1>1. xdp_step = "running" =>
        /\ opened = process /\ xdp_attached = process
        /\ backend_map[process][Service] = Backend
    BY DEF XdpInv
<1>2. QED
    BY <1>1 DEF XdpInv, Xdp!PutReachesProgram

-----------------------------------------------------------------------------
(* xsk.h: XskRing.tla proves the lemmas about the rings.                     *)

LEMMA RingInit == ASSUME Ring!Init PROVE Ring!IInv
BY RingSizes, Ring!InitIInv

LEMMA RingStep == ASSUME Ring!IInv, [Ring!Next]_ringVars PROVE Ring!IInv'
BY RingSizes, Ring!NextIInv DEF ringVars, Ring!xrvars

LEMMA RingSafe == ASSUME Ring!IInv PROVE Ring!ReturnedInOrder /\ Ring!NeverOverfull
BY RingSizes, Ring!InOrder, Ring!Fits
-----------------------------------------------------------------------------
(* libbpf.c: perf buffers.                                                   *)

(* The units of records; the unit at place p of a ring.                      *)
Units == [id : Nat, part : Nat, size : Nat, counts : Nat]
At(m, p) == m[p % PerfSize]
Piece(u, k) == [id |-> u.id, part |-> k, size |-> u.size, counts |-> u.counts]

(* From one place to another a ring holds whole records, and each continues  *)
(* the one before it; next is the sample after the last of them.             *)
Follows(m, u, n, to, next) ==
    IF n < to THEN At(m, n).part = 0 /\ At(m, n).id = u.id + u.counts
    ELSE n = to /\ u.id + u.counts = next
Whole(m, from, to, next) == \A n \in from..(to - 1) :
    LET u == At(m, n)
        first == n - u.part
    IN  /\ u \in Units /\ u.part < u.size
        /\ from <= first /\ first + u.size <= to
        /\ \A k \in 0..(u.size - 1) : At(m, first + k) = Piece(u, k)
        /\ Follows(m, u, first + u.size, to, next)
(* The reader, which has got n samples, continues at a record.               *)
Continues(m, from, to, n, next) ==
    IF from < to THEN At(m, from).part = 0 /\ At(m, from).id = n + 1 ELSE n + 1 = next

PerfTypes ==
    /\ perf_pc \in {"none", "new", "freeing", "idle", "poll", "read"}
    /\ perf_step \in {"open", "update", "epoll"}
    /\ cpu_bufs \in SUBSET Cpus /\ entries \in SUBSET cpu_bufs
    /\ polled \in SUBSET cpu_bufs /\ perf_events \in SUBSET cpu_bufs
    /\ head \in [Cpus -> Nat] /\ tail \in [Cpus -> Nat]
    /\ mem \in [Cpus -> [0..(PerfSize - 1) -> Units \cup {None}]]
    /\ data_head \in Nat /\ data_tail \in Nat
    /\ attempts \in [Cpus -> Nat] /\ missed \in [Cpus -> Nat] /\ got \in [Cpus -> Nat]
    /\ stopped \in BOOLEAN

Reading == perf_pc = "read" \/ (perf_pc = "new" /\ perf_step # "open")
ReaderOK ==
    /\ IF Reading THEN cur \in cpu_bufs ELSE cur = None
    /\ perf_pc = "none" => cpu_bufs = {}
    /\ perf_pc \notin {"poll", "read"} => perf_events = {}
    /\ Reading =>
        /\ tail[cur] <= data_tail /\ data_tail <= data_head /\ data_head <= head[cur]
        /\ perf_pc = "new" => data_tail = tail[cur]
        /\ data_head < head[cur] => At(mem[cur], data_head).part = 0

Next1(c) == attempts[c] + 1 - missed[c]
RingOK(c) ==
    /\ tail[c] <= Perf!Start(c) /\ Perf!Start(c) <= head[c] /\ head[c] - tail[c] <= PerfSize
    /\ missed[c] <= attempts[c]
    /\ c \notin cpu_bufs => /\ head[c] = 0 /\ tail[c] = 0 /\ attempts[c] = 0
                            /\ missed[c] = 0 /\ got[c] = 0
    /\ Whole(mem[c], Perf!Start(c), head[c], Next1(c))
    /\ Continues(mem[c], Perf!Start(c), head[c], got[c], Next1(c))

(* What the reader has not looked at it was or will be told about.           *)
Told(c) ==
    (IF perf_pc = "read" /\ cur = c THEN data_head ELSE tail[c]) < head[c] =>
        c \in ready \cup perf_events

PerfInv ==
    /\ PerfTypes /\ ReaderOK
    /\ \A c \in Cpus : RingOK(c)
    /\ ~stopped => \A c \in cpu_bufs : Told(c)
-----------------------------------------------------------------------------
(* Places in a ring, and the records that lie there.                         *)

LEMMA PlacesApart ==
    ASSUME NEW s \in Nat \ {0}, NEW x \in Nat, NEW y \in Nat, x < y, y < x + s
    PROVE  x % s # y % s
<1>1. PICK p \in Nat : x = s * p + (x % s)
    BY Ring!ModParts
<1>2. PICK q \in Nat : y = s * q + (y % s)
    BY Ring!ModParts
<1>3. x % s \in 0..(s - 1) /\ y % s \in 0..(s - 1)
    BY Ring!ModParts
<1>4. ASSUME x % s = y % s PROVE FALSE
    <2>1. s * p \in Nat /\ s * q \in Nat
        OBVIOUS
    <2>2. s * p < s * q /\ s * q < s * p + s
        BY <1>1, <1>2, <1>3, <1>4, <2>1
    <2>3. PICK d \in Int : d = q - p
        OBVIOUS
    <2>4. s * q = s * p + s * d /\ s * d \in Int
        BY <2>3
    <2>5. 0 < s * d /\ s * d < s
        BY <2>1, <2>2, <2>4
    <2>6. CASE d >= 1
        <3>1. PICK e \in Nat : d = e + 1
            BY <2>3, <2>6, d - 1 \in Nat
        <3>2. s * d = s * e + s /\ s * e \in Nat
            BY <3>1
        <3>3. QED
            BY <2>5, <3>2
    <2>7. CASE d <= 0
        <3>1. PICK e \in Nat : d = -e
            BY <2>3, <2>7, -d \in Nat
        <3>2. s * d = -(s * e) /\ s * e \in Nat
            BY <3>1
        <3>3. QED
            BY <2>5, <3>2
    <2>8. QED
        BY <2>3, <2>6, <2>7
<1>5. QED
    BY <1>4

LEMMA OnePlace ==
    ASSUME NEW s \in Nat \ {0}, NEW h \in Nat, NEW lo \in Nat, NEW hi \in Nat, hi - lo < s,
           NEW k \in lo..hi
    PROVE  (CHOOSE j \in lo..hi : (h + j) % s = (h + k) % s) = k
<1> DEFINE c == CHOOSE j \in lo..hi : (h + j) % s = (h + k) % s
<1>1. c \in lo..hi /\ (h + c) % s = (h + k) % s
    OBVIOUS
<1> HIDE DEF c
<1>2. /\ h + c \in Nat /\ h + k \in Nat
      /\ h + k < (h + c) + s /\ h + c < (h + k) + s
    BY <1>1
<1>3. ~ (h + c < h + k)
    <2>1. h + c < h + k => (h + c) % s # (h + k) % s
        BY <1>1, <1>2, PlacesApart
    <2>2. QED
        BY <1>1, <2>1
<1>4. ~ (h + k < h + c)
    <2>1. h + k < h + c => (h + k) % s # (h + c) % s
        BY <1>1, <1>2, PlacesApart
    <2>2. QED
        BY <1>1, <2>1
<1>5. QED
    BY <1>1, <1>3, <1>4 DEF c

(* A record at some place, and what was in the ring before it.               *)
RecordAt(m, to, size, id, counts) == \A k \in 0..(size - 1) :
    At(m, to + k) = [id |-> id, part |-> k, size |-> size, counts |-> counts]
SamePlaces(m2, m, from, to) == \A p \in from..(to - 1) : At(m2, p) = At(m, p)
StartsStay(m2, m, from, to) == \A upto \in from..to :
    (upto < to => At(m, upto).part = 0) => At(m2, upto).part = 0

(* A record after the others, from some place of the ring on.                *)
LEMMA WholeAppend ==
    ASSUME NEW m, NEW m2, NEW from \in Nat, NEW to \in Nat, from <= to, NEW next \in Nat,
           NEW size \in Nat \ {0}, NEW counts \in Nat,
           SamePlaces(m2, m, from, to), RecordAt(m2, to, size, next, counts),
           Whole(m, from, to, next)
    PROVE  Whole(m2, from, to + size, next + counts)
<1> USE DEF SamePlaces, RecordAt
<1>1. SUFFICES ASSUME NEW n \in from..(to + size - 1)
      PROVE  LET u == At(m2, n)
                 first == n - u.part
             IN  /\ u \in Units /\ u.part < u.size
                 /\ from <= first /\ first + u.size <= to + size
                 /\ \A k \in 0..(u.size - 1) : At(m2, first + k) = Piece(u, k)
                 /\ Follows(m2, u, first + u.size, to + size, next + counts)
    BY DEF Whole
<1>2. CASE n < to
    <2>1. PICK u : u = At(m, n)
        OBVIOUS
    <2>2. At(m2, n) = u /\ n \in from..(to - 1)
        BY <1>2, <2>1
    <2>3. PICK first : first = n - u.part
        OBVIOUS
    <2>4. /\ u \in Units /\ u.part < u.size
          /\ from <= first /\ first + u.size <= to
          /\ \A k \in 0..(u.size - 1) : At(m, first + k) = Piece(u, k)
          /\ Follows(m, u, first + u.size, to, next)
        BY <2>1, <2>2, <2>3 DEF Whole
    <2>5. u.part \in Nat /\ u.size \in Nat /\ first \in Nat
        BY <2>3, <2>4 DEF Units
    <2>6. \A k \in 0..(u.size - 1) : At(m2, first + k) = Piece(u, k)
        <3>1. ASSUME NEW k \in 0..(u.size - 1) PROVE first + k \in from..(to - 1)
            BY <2>4, <2>5
        <3>2. QED
            BY <2>4, <3>1
    <2>7. Follows(m2, u, first + u.size, to + size, next + counts)
        <3>1. PICK e \in Nat : e = first + u.size
            BY <2>5
        <3>2. e <= to /\ from <= e
            BY <2>4, <2>5, <3>1
        <3>3. CASE e < to
            <4>1. At(m2, e) = At(m, e)
                BY <3>1, <3>2, <3>3
            <4>2. At(m, e).part = 0 /\ At(m, e).id = u.id + u.counts
                BY <2>4, <3>1, <3>3 DEF Follows
            <4>3. e < to + size
                BY <3>3
            <4>4. QED
                BY <3>1, <4>1, <4>2, <4>3 DEF Follows
        <3>4. CASE e = to
            <4>1. u.id + u.counts = next
                BY <2>4, <3>1, <3>4 DEF Follows
            <4>2. At(m2, to + 0) = [id |-> next, part |-> 0, size |-> size, counts |-> counts]
                BY 0 \in 0..(size - 1)
            <4>3. At(m2, e).part = 0 /\ At(m2, e).id = next
                BY <3>4, <4>2
            <4>4. e < to + size
                BY <3>4
            <4>5. QED
                BY <3>1, <4>1, <4>3, <4>4 DEF Follows
        <3>5. QED
            BY <3>1, <3>2, <3>3, <3>4
    <2>8. first + u.size <= to + size
        BY <2>4, <2>5
    <2>9. QED
        BY <2>2, <2>3, <2>4, <2>6, <2>7, <2>8
<1>3. CASE ~(n < to)
    <2>1. PICK j \in 0..(size - 1) : n = to + j
        BY <1>3, n - to \in 0..(size - 1)
    <2>2. PICK u : u = [id |-> next, part |-> j, size |-> size, counts |-> counts]
        OBVIOUS
    <2>3. At(m2, n) = u
        BY <2>1, <2>2
    <2>4. u \in Units /\ u.part = j /\ u.size = size /\ u.id = next /\ u.counts = counts
        BY <2>1, <2>2 DEF Units
    <2>5. n - u.part = to
        BY <2>1, <2>4
    <2>6. \A k \in 0..(size - 1) : At(m2, to + k) = Piece(u, k)
        BY <2>4 DEF Piece
    <2>7. Follows(m2, u, to + size, to + size, next + counts)
        BY <2>4 DEF Follows
    <2>8. QED
        BY <2>1, <2>3, <2>4, <2>5, <2>6, <2>7
<1>4. QED
    BY <1>2, <1>3

(* The reader goes on to the next record, which is not behind what it saw.   *)
LEMMA WholeAdvance ==
    ASSUME NEW m, NEW from \in Nat, NEW to \in Nat, from < to, NEW next \in Nat,
           Whole(m, from, to, next), At(m, from).part = 0,
           NEW n \in Nat, At(m, from).id = n + 1,
           NEW upto \in Nat, from < upto, upto <= to, upto < to => At(m, upto).part = 0
    PROVE  /\ At(m, from) \in Units /\ At(m, from).size # 0
           /\ from + At(m, from).size <= upto
           /\ Whole(m, from + At(m, from).size, to, next)
           /\ Continues(m, from + At(m, from).size, to, n + At(m, from).counts, next)
<1>1. PICK u : u = At(m, from)
    OBVIOUS
<1>2. from \in from..(to - 1)
    OBVIOUS
<1>3. /\ u \in Units /\ u.part < u.size
      /\ (from - u.part) + u.size <= to
      /\ \A k \in 0..(u.size - 1) : At(m, (from - u.part) + k) = Piece(u, k)
      /\ Follows(m, u, (from - u.part) + u.size, to, next)
    BY <1>1, <1>2 DEF Whole
<1>4. /\ u.part = 0 /\ u.size \in Nat /\ u.size # 0 /\ u.id = n + 1 /\ u.counts \in Nat
      /\ from - u.part = from
    BY <1>1, <1>3 DEF Units
<1>5. /\ from + u.size <= to /\ Follows(m, u, from + u.size, to, next)
      /\ \A k \in 0..(u.size - 1) : At(m, from + k) = Piece(u, k)
    BY <1>3, <1>4
<1>6. \A k \in 0..(u.size - 1) : At(m, from + k).part = k /\ At(m, from + k).size = u.size
    <2>1. \A k : Piece(u, k).part = k /\ Piece(u, k).size = u.size
        BY DEF Piece
    <2>2. QED
        BY <1>5, <2>1
<1>7. from + u.size <= upto
    <2>1. CASE upto < from + u.size
        <3>1. PICK k \in 0..(u.size - 1) : upto = from + k /\ k # 0
            BY <1>4, <2>1, upto - from \in 0..(u.size - 1)
        <3>2. QED
            BY <1>4, <1>5, <1>6, <2>1, <3>1
    <2>2. QED
        BY <1>4, <2>1
<1>8. Whole(m, from + u.size, to, next)
    <2>1. SUFFICES ASSUME NEW p \in (from + u.size)..(to - 1)
          PROVE  from + u.size <= p - At(m, p).part
        <3>1. ASSUME NEW p \in (from + u.size)..(to - 1) PROVE p \in from..(to - 1)
            BY <1>4
        <3>2. QED
            BY <3>1 DEF Whole
    <2>2. PICK v : v = At(m, p)
        OBVIOUS
    <2>3. PICK first : first = p - v.part
        OBVIOUS
    <2>4. p \in from..(to - 1)
        BY <1>4
    <2>5. /\ v \in Units /\ v.part < v.size /\ from <= first
          /\ \A k \in 0..(v.size - 1) : At(m, first + k) = Piece(v, k)
        BY <2>2, <2>3, <2>4 DEF Whole
    <2>6. v.part \in Nat /\ v.size \in Nat /\ first \in Nat
        BY <2>3, <2>4, <2>5 DEF Units
    <2>7. At(m, first + 0) = Piece(v, 0) /\ first + 0 = first
        BY <2>5, <2>6
    <2>8. At(m, first).part = 0 /\ At(m, first).size = v.size
        BY <2>7 DEF Piece
    <2>9. CASE first < from + u.size
        <3>1. PICK k \in 0..(u.size - 1) : first = from + k
            BY <1>4, <2>5, <2>6, <2>9, first - from \in 0..(u.size - 1)
        <3>2. k = 0 /\ v.size = u.size
            BY <1>6, <2>8, <3>1
        <3>3. QED
            BY <1>4, <2>3, <2>5, <2>6, <3>1, <3>2
    <2>10. QED
        BY <1>4, <2>2, <2>3, <2>6, <2>9
<1>9. Continues(m, from + u.size, to, n + u.counts, next)
    BY <1>4, <1>5 DEF Follows, Continues, Units
<1>10. QED
    BY <1>1, <1>3, <1>4, <1>7, <1>8, <1>9

(* Whole records follow each other unit by unit.                             *)
LEMMA WholeStream ==
    ASSUME NEW m, NEW from \in Nat, NEW to \in Nat, NEW next, Whole(m, from, to, next),
           NEW n \in from..(to - 1), n + 1 < to
    PROVE  IF At(m, n).part + 1 < At(m, n).size
           THEN At(m, n + 1) = [At(m, n) EXCEPT !.part = At(m, n).part + 1]
           ELSE At(m, n + 1).part = 0
                /\ At(m, n + 1).id = At(m, n).id + At(m, n).counts
<1>1. PICK u : u = At(m, n)
    OBVIOUS
<1>2. PICK first : first = n - u.part
    OBVIOUS
<1>3. /\ u \in Units /\ u.part < u.size
      /\ \A k \in 0..(u.size - 1) : At(m, first + k) = Piece(u, k)
      /\ Follows(m, u, first + u.size, to, next)
    BY <1>1, <1>2 DEF Whole
<1>4. u.part \in Nat /\ u.size \in Nat /\ n = first + u.part /\ first \in Int
    BY <1>2, <1>3 DEF Units
<1>5. CASE u.part + 1 < u.size
    <2>1. At(m, first + (u.part + 1)) = Piece(u, u.part + 1)
        BY <1>3, <1>4, <1>5
    <2>2. n + 1 = first + (u.part + 1)
        BY <1>4
    <2>3. Piece(u, u.part + 1) = [u EXCEPT !.part = u.part + 1]
        BY <1>3 DEF Piece, Units
    <2>4. QED
        BY <1>1, <1>5, <2>1, <2>2, <2>3
<1>6. CASE ~(u.part + 1 < u.size)
    <2>1. first + u.size = n + 1
        BY <1>3, <1>4, <1>6
    <2>2. QED
        BY <1>1, <1>3, <1>6, <2>1 DEF Follows
<1>7. QED
    BY <1>5, <1>6
-----------------------------------------------------------------------------
(* What the kernel writes, and the ring after it.                            *)

Place(h, lo, hi, n) == CHOOSE k \in lo..hi : (h + k) % PerfSize = n

FilledBy(m2, m, h, lo, hi, id, size, counts) == \A n \in 0..(PerfSize - 1) : m2[n] =
    IF \E k \in lo..hi : (h + k) % PerfSize = n
    THEN [id |-> id, size |-> size, counts |-> counts, part |-> Place(h, lo, hi, n) - lo]
    ELSE m[n]

Holds(m2, h, lo, hi, id, size, counts) == \A k \in lo..hi :
    At(m2, h + k) = [id |-> id, part |-> k - lo, size |-> size, counts |-> counts]
Kept(m2, m, h, lo, hi) == \A p \in Nat : p < h + lo /\ h + hi < p + PerfSize =>
    At(m2, p) = At(m, p)

LEMMA Filled ==
    ASSUME PerfSize \in Nat \ {0}, NEW m, NEW m2, NEW h \in Nat, NEW lo \in Nat, NEW hi \in Nat,
           hi - lo < PerfSize, NEW id, NEW size, NEW counts,
           FilledBy(m2, m, h, lo, hi, id, size, counts)
    PROVE  Holds(m2, h, lo, hi, id, size, counts) /\ Kept(m2, m, h, lo, hi)
<1>1. ASSUME NEW k \in lo..hi
      PROVE  At(m2, h + k) = [id |-> id, part |-> k - lo, size |-> size, counts |-> counts]
    <2>1. Place(h, lo, hi, (h + k) % PerfSize) = k
        BY OnePlace DEF Place
    <2>2. (h + k) % PerfSize \in 0..(PerfSize - 1)
        BY Ring!ModParts
    <2>3. PICK n : n = (h + k) % PerfSize
        OBVIOUS
    <2>4. m2[n] = [id |-> id, size |-> size, counts |-> counts,
                   part |-> Place(h, lo, hi, n) - lo]
        BY <2>2, <2>3 DEF FilledBy
    <2>5. QED
        BY <2>1, <2>3, <2>4 DEF At
<1>2. ASSUME NEW p \in Nat, p < h + lo, h + hi < p + PerfSize PROVE At(m2, p) = At(m, p)
    <2>1. p % PerfSize \in 0..(PerfSize - 1)
        BY Ring!ModParts
    <2>2. ASSUME NEW k \in lo..hi PROVE (h + k) % PerfSize # p % PerfSize
        <3>1. h + k \in Nat /\ p < h + k /\ h + k < p + PerfSize
            BY <1>2
        <3>2. p % PerfSize # (h + k) % PerfSize
            BY <3>1, PlacesApart
        <3>3. QED
            BY <3>2
    <2>3. QED
        BY <2>1, <2>2 DEF At, FilledBy
<1>3. QED
    BY <1>1, <1>2 DEF Holds, Kept

(* The same for the ring of a CPU.                                           *)
LEMMA WrittenRecord ==
    ASSUME PerfSize \in Nat \ {0}, NEW c \in Cpus, NEW size \in Nat \ {0}, size <= PerfSize,
           NEW id, NEW counts, NEW m, m = mem[c], NEW h \in Nat, h = head[c],
           NEW m2, m2 = Perf!Written(c, size, id, counts)
    PROVE  /\ RecordAt(m2, h, size, id, counts)
           /\ \A p \in Nat : p < h /\ h + size <= p + PerfSize => At(m2, p) = At(m, p)
<1>1. PICK hi \in Nat : hi = size - 1
    BY size - 1 \in Nat
<1>2. ASSUME NEW n \in 0..(PerfSize - 1)
      PROVE  m2[n] = IF \E k \in 0..hi : (h + k) % PerfSize = n
                     THEN [id |-> id, size |-> size, counts |-> counts,
                           part |-> Place(h, 0, hi, n) - 0]
                     ELSE m[n]
    <2>1. m2[n] = IF \E k \in 0..hi : (h + k) % PerfSize = n
                  THEN [id |-> id, size |-> size, counts |-> counts,
                        part |-> Place(h, 0, hi, n)]
                  ELSE m[n]
        BY <1>1 DEF Perf!Written, Place
    <2>2. ASSUME \E k \in 0..hi : (h + k) % PerfSize = n
          PROVE  Place(h, 0, hi, n) - 0 = Place(h, 0, hi, n)
        <3>1. Place(h, 0, hi, n) \in 0..hi
            BY <2>2 DEF Place
        <3>2. \A x \in Int : x - 0 = x
            OBVIOUS
        <3>3. QED
            BY <3>1, <3>2
    <2>3. QED
        BY <2>1, <2>2
<1>7. FilledBy(m2, m, h, 0, hi, id, size, counts)
    BY <1>2 DEF FilledBy
<1>3. Holds(m2, h, 0, hi, id, size, counts) /\ Kept(m2, m, h, 0, hi)
    <2>1. hi - 0 < PerfSize /\ 0 \in Nat
        BY <1>1
    <2>2. QED
        BY <1>7, <2>1, Filled
<1>4. \A k \in 0..(size - 1) : At(m2, h + k) =
            [id |-> id, part |-> k, size |-> size, counts |-> counts]
    <2>1. ASSUME NEW k \in 0..(size - 1)
          PROVE At(m2, h + k) = [id |-> id, part |-> k, size |-> size, counts |-> counts]
        <3>1. k \in 0..hi /\ k - 0 = k
            BY <1>1
        <3>2. At(m2, h + k) = [id |-> id, part |-> k - 0, size |-> size, counts |-> counts]
            BY <1>3, <3>1 DEF Holds
        <3>3. QED
            BY <3>1, <3>2
    <2>2. QED
        BY <2>1
<1>5. ASSUME NEW p \in Nat, p < h, h + size <= p + PerfSize PROVE At(m2, p) = At(m, p)
    <2>1. p < h + 0 /\ h + hi < p + PerfSize
        BY <1>1, <1>5
    <2>2. QED
        BY <1>3, <2>1 DEF Kept
<1>6. QED
    BY <1>4, <1>5 DEF RecordAt

(* A record more: what the reader continues at and what it saw stay.         *)
LEMMA RingAppend ==
    ASSUME NEW m, NEW m2, NEW from \in Nat, NEW to \in Nat, from <= to, NEW next \in Nat,
           NEW size \in Nat \ {0}, NEW counts \in Nat,
           SamePlaces(m2, m, from, to), RecordAt(m2, to, size, next, counts),
           Whole(m, from, to, next), NEW n \in Nat, Continues(m, from, to, n, next)
    PROVE  /\ Whole(m2, from, to + size, next + counts)
           /\ Continues(m2, from, to + size, n, next + counts)
           /\ StartsStay(m2, m, from, to)
<1> USE DEF SamePlaces, RecordAt
<1>1. Whole(m2, from, to + size, next + counts)
    BY WholeAppend
<1>2. At(m2, to) = [id |-> next, part |-> 0, size |-> size, counts |-> counts]
    <2>1. 0 \in 0..(size - 1) /\ to + 0 = to
        OBVIOUS
    <2>2. QED
        BY <2>1
<1>3. At(m2, to).part = 0 /\ At(m2, to).id = next
    BY <1>2
<1>4. Continues(m2, from, to + size, n, next + counts)
    <2>1. CASE from < to
        <3>1. from \in from..(to - 1) /\ from < to + size
            BY <2>1
        <3>2. At(m2, from) = At(m, from)
            BY <3>1
        <3>3. QED
            BY <2>1, <3>1, <3>2 DEF Continues
    <2>2. CASE from = to
        BY <1>3, <2>2 DEF Continues
    <2>3. QED
        BY <2>1, <2>2
<1>5. ASSUME NEW upto \in from..to, upto < to => At(m, upto).part = 0
      PROVE  At(m2, upto).part = 0
    <2>1. CASE upto = to
        BY <1>3, <2>1
    <2>2. CASE upto # to
        <3>1. upto < to /\ upto \in from..(to - 1)
            BY <2>2
        <3>2. QED
            BY <1>5, <3>1
    <2>3. QED
        BY <2>1, <2>2
<1>6. QED
    BY <1>1, <1>4, <1>5 DEF StartsStay

LEMMA FilledUnits ==
    ASSUME PerfSize \in Nat \ {0}, NEW m \in [0..(PerfSize - 1) -> Units \cup {None}], NEW m2,
           NEW h \in Nat, NEW lo \in Nat, NEW hi \in Nat,
           NEW id \in Nat, NEW size \in Nat, NEW counts \in Nat,
           m2 = [n \in 0..(PerfSize - 1) |-> m2[n]], FilledBy(m2, m, h, lo, hi, id, size, counts)
    PROVE  m2 \in [0..(PerfSize - 1) -> Units \cup {None}]
<1>1. ASSUME NEW n \in 0..(PerfSize - 1), \E k \in lo..hi : (h + k) % PerfSize = n
      PROVE  [id |-> id, size |-> size, counts |-> counts, part |-> Place(h, lo, hi,
                 n) - lo] \in Units
    <2>1. Place(h, lo, hi, n) \in lo..hi
        BY <1>1 DEF Place
    <2>2. Place(h, lo, hi, n) - lo \in Nat
        BY <2>1
    <2>3. QED
        BY <2>2 DEF Units
<1>2. QED
    BY <1>1 DEF FilledBy

LEMMA WrittenUnits ==
    ASSUME PerfSize \in Nat \ {0}, NEW c \in Cpus, mem[c] \in [0..(PerfSize - 1) -> Units
               \cup {None}],
           head[c] \in Nat, NEW size \in Nat, NEW id \in Nat, NEW counts \in Nat
    PROVE  Perf!Written(c, size, id, counts) \in [0..(PerfSize - 1) -> Units \cup {None}]
<1>1. ASSUME NEW n \in 0..(PerfSize - 1), \E k \in 0..(size - 1) : (head[c] + k) % PerfSize = n
      PROVE  [id |-> id, size |-> size, counts |-> counts,
              part |-> CHOOSE k \in 0..(size - 1) : (head[c] + k) % PerfSize = n] \in Units
    <2>1. (CHOOSE k \in 0..(size - 1) : (head[c] + k) % PerfSize = n) \in 0..(size - 1)
        BY <1>1
    <2>2. (CHOOSE k \in 0..(size - 1) : (head[c] + k) % PerfSize = n) \in Nat
        BY <2>1
    <2>3. QED
        BY <2>2 DEF Units
<1>2. QED
    BY <1>1 DEF Perf!Written
-----------------------------------------------------------------------------
(* The steps, the kernel's first.                                            *)

LEMMA PerfInit == ASSUME Perf!PerfAssumption, Perf!Init PROVE PerfInv
<1> USE DEF Perf!PerfAssumption
<1>1. PerfTypes
    BY DEF Perf!Init, PerfTypes, Perf!Empty
<1>2. ReaderOK
    BY DEF Perf!Init, ReaderOK, Reading
<1>3. ASSUME NEW c \in Cpus PROVE RingOK(c)
    <2>1. /\ head[c] = 0 /\ tail[c] = 0 /\ attempts[c] = 0 /\ missed[c] = 0 /\ got[c] = 0
          /\ Perf!Start(c) = 0 /\ Next1(c) = 1
        BY DEF Perf!Init, Perf!Start, Next1
    <2>2. Whole(mem[c], 0, 0, 1) /\ Continues(mem[c], 0, 0, 0, 1)
        BY DEF Whole, Continues
    <2>3. QED
        BY <2>1, <2>2 DEF RingOK
<1>4. \A c \in cpu_bufs : Told(c)
    BY DEF Perf!Init
<1>5. QED
    BY <1>1, <1>2, <1>3, <1>4 DEF PerfInv

(* A step that changes neither a ring nor where the reader is leaves RingOK. *)
LEMMA RingStays ==
    ASSUME NEW c \in Cpus, RingOK(c), Perf!Start(c)' = Perf!Start(c),
           head'[c] = head[c], tail'[c] = tail[c], mem'[c] = mem[c],
           attempts'[c] = attempts[c], missed'[c] = missed[c], got'[c] = got[c],
           c \in cpu_bufs => c \in cpu_bufs'
    PROVE  RingOK(c)'
BY DEF RingOK, Next1

(* bpf_perf_event_output on the ring of a CPU.                               *)
LEMMA SampleRing ==
    ASSUME Perf!PerfAssumption, PerfInv, NEW c \in Cpus, Perf!Sample(c)
    PROVE  /\ RingOK(c)' /\ head'[c] \in Nat /\ head[c] <= head'[c]
           /\ mem'[c] \in [0..(PerfSize - 1) -> Units \cup {None}]
           /\ head'[c] # head[c] => c \in ready'
           /\ \A upto \in Perf!Start(c)..head[c] :
                (upto < head[c] => At(mem[c], upto).part = 0)
                    => (upto < head'[c] => At(mem'[c], upto).part = 0)
<1> USE DEF Perf!PerfAssumption
<1>1. PICK size \in PerfLengths :
    /\ c \in entries /\ attempts[c] < MaxSamples
    /\ attempts' = [attempts EXCEPT ![c] = @ + 1]
    /\ \/ /\ missed[c] = 0 /\ size <= Perf!Room(c)
          /\ mem' = [mem EXCEPT ![c] = Perf!Written(c, size, attempts[c] + 1, 1)]
          /\ head' = [head EXCEPT ![c] = @ + size]
          /\ ready' = ready \cup {c}
          /\ UNCHANGED missed
       \/ /\ missed[c] > 0 /\ size < Perf!Room(c)
          /\ LET first == attempts[c] + 1 - missed[c]
                 loss == Perf!Written(c, 1, first, missed[c])
             IN  mem' = [mem EXCEPT ![c] = [n \in 0..(PerfSize - 1) |->
                     IF \E k \in 1..size : (head[c] + k) % PerfSize = n
                     THEN [id |-> attempts[c] + 1, size |-> size, counts |-> 1,
                           part |-> (CHOOSE k \in 1..size : (head[c] + k) % PerfSize = n) - 1]
                     ELSE loss[n]]]
          /\ head' = [head EXCEPT ![c] = @ + size + 1]
          /\ ready' = ready \cup {c}
          /\ missed' = [missed EXCEPT ![c] = 0]
       \/ /\ size + (IF missed[c] > 0 THEN 1 ELSE 0) > Perf!Room(c)
          /\ missed' = [missed EXCEPT ![c] = @ + 1]
          /\ UNCHANGED <<mem, head, ready>>
    BY DEF Perf!Sample
<1>2. /\ tail' = tail /\ got' = got /\ cur' = cur /\ data_tail' = data_tail
             /\ cpu_bufs' = cpu_bufs
    BY DEF Perf!Sample, Perf!reader
<1>3. /\ head \in [Cpus -> Nat] /\ tail \in [Cpus -> Nat] /\ attempts \in [Cpus -> Nat]
      /\ missed \in [Cpus -> Nat] /\ got \in [Cpus -> Nat] /\ data_tail \in Nat
      /\ mem \in [Cpus -> [0..(PerfSize - 1) -> Units \cup {None}]]
      /\ entries \in SUBSET cpu_bufs /\ RingOK(c)
    BY DEF PerfInv, PerfTypes
<1>4. PICK h \in Nat, t \in Nat, a \in Nat, l \in Nat, g \in Nat, from \in Nat :
        /\ h = head[c] /\ t = tail[c] /\ a = attempts[c] /\ l = missed[c] /\ g = got[c]
        /\ from = Perf!Start(c)
    BY <1>3 DEF Perf!Start
<1>5. PICK m : m = mem[c]
    OBVIOUS
<1>6. m \in [0..(PerfSize - 1) -> Units \cup {None}]
    BY <1>3, <1>5
<1>7. PICK m2 : m2 = mem'[c]
    OBVIOUS
<1>8. /\ t <= from /\ from <= h /\ h - t <= PerfSize /\ l <= a /\ c \in cpu_bufs
      /\ Whole(m, from, h, a + 1 - l) /\ Continues(m, from, h, g, a + 1 - l)
    BY <1>1, <1>3, <1>4, <1>5 DEF RingOK, Next1
<1>9. /\ Perf!Start(c)' = from /\ tail'[c] = t /\ got'[c] = g /\ attempts'[c] = a + 1
    BY <1>1, <1>2, <1>3, <1>4 DEF Perf!Start
<1>10. size \in Nat \ {0} /\ Perf!Room(c) = PerfSize - (h - t)
    BY <1>4 DEF Perf!Room
<1>11. SUFFICES
       /\ RingOK(c)' /\ head'[c] \in Nat /\ h <= head'[c]
       /\ m2 \in [0..(PerfSize - 1) -> Units \cup {None}]
       /\ head'[c] # h => c \in ready'
       /\ \A upto \in from..h : (upto < h => At(m, upto).part = 0)
            => (upto < head'[c] => At(m2, upto).part = 0)
    BY <1>4, <1>5, <1>7
<1>12. ASSUME missed'[c] = 0, head'[c] \in Nat, head'[c] - t <= PerfSize, h <= head'[c],
              Whole(m2, from, head'[c], a + 2), Continues(m2, from, head'[c], g, a + 2)
       PROVE  RingOK(c)'
    <2>1. Next1(c)' = a + 2
        BY <1>9, <1>12 DEF Next1
    <2>2. QED
        BY <1>2, <1>7, <1>8, <1>9, <1>12, <2>1 DEF RingOK
<1>13. CASE /\ l = 0 /\ size <= Perf!Room(c)
            /\ mem' = [mem EXCEPT ![c] = Perf!Written(c, size, attempts[c] + 1, 1)]
            /\ head' = [head EXCEPT ![c] = @ + size]
            /\ ready' = ready \cup {c}
            /\ UNCHANGED missed
    <2>1. head'[c] = h + size /\ missed'[c] = 0 /\ c \in ready' /\ size <= PerfSize
              /\ (h + size) - t <= PerfSize
        <3>1. head'[c] = head[c] + size /\ missed'[c] = missed[c] /\ c \in ready'
            BY <1>3, <1>13
        <3>2. QED
            BY <1>4, <1>8, <1>10, <1>13, <3>1
    <2>2. m2 = Perf!Written(c, size, a + 1, 1)
        BY <1>3, <1>4, <1>7, <1>13
    <2>3. /\ RecordAt(m2, h, size, a + 1, 1)
          /\ \A p \in Nat : p < h /\ h + size <= p + PerfSize => At(m2, p) = At(m, p)
        BY <1>4, <1>5, <1>10, <2>1, <2>2, WrittenRecord
    <2>4. SamePlaces(m2, m, from, h)
        <3>1. ASSUME NEW p \in from..(h - 1) PROVE p \in Nat /\ p < h /\ h + size <= p + PerfSize
            BY <1>8, <1>10, <2>1
        <3>2. QED
            BY <2>3, <3>1 DEF SamePlaces
    <2>5. Whole(m, from, h, a + 1) /\ Continues(m, from, h, g, a + 1)
        BY <1>8, <1>13
    <2>6. /\ Whole(m2, from, h + size, (a + 1) + 1)
          /\ Continues(m2, from, h + size, g, (a + 1) + 1)
          /\ StartsStay(m2, m, from, h)
        <3>1. a + 1 \in Nat /\ 1 \in Nat
            OBVIOUS
        <3>2. QED
            BY <1>8, <1>10, <2>3, <2>4, <2>5, <3>1, RingAppend
    <2>7. (a + 1) + 1 = a + 2
        OBVIOUS
    <2>8. m2 \in [0..(PerfSize - 1) -> Units \cup {None}]
        BY <1>3, <1>10, <2>2, WrittenUnits, a + 1 \in Nat, 1 \in Nat
    <2>9. QED
        BY <1>10, <1>12, <2>1, <2>6, <2>7, <2>8 DEF StartsStay
<1>14. CASE /\ l > 0 /\ size < Perf!Room(c)
            /\ LET first == attempts[c] + 1 - missed[c]
                   loss == Perf!Written(c, 1, first, missed[c])
               IN  mem' = [mem EXCEPT ![c] = [n \in 0..(PerfSize - 1) |->
                     IF \E k \in 1..size : (head[c] + k) % PerfSize = n
                     THEN [id |-> attempts[c] + 1, size |-> size, counts |-> 1,
                           part |-> (CHOOSE k \in 1..size : (head[c] + k) % PerfSize = n) - 1]
                     ELSE loss[n]]]
            /\ head' = [head EXCEPT ![c] = @ + size + 1]
            /\ ready' = ready \cup {c}
            /\ missed' = [missed EXCEPT ![c] = 0]
    <2>1. /\ head'[c] = h + 1 + size /\ missed'[c] = 0 /\ c \in ready'
          /\ (h + 1 + size) - t <= PerfSize
        <3>1. head'[c] = head[c] + size + 1 /\ missed'[c] = 0 /\ c \in ready'
            BY <1>3, <1>14
        <3>2. size < PerfSize - (h - t)
            BY <1>10, <1>14
        <3>3. QED
            BY <1>4, <1>8, <1>10, <3>1, <3>2
    <2>2. PICK first \in Nat : first = a + 1 - l
        BY <1>8, a + 1 - l \in Nat
    <2>3. PICK loss : loss = Perf!Written(c, 1, first, l)
        OBVIOUS
    <2>4. m2 = [n \in 0..(PerfSize - 1) |->
                     IF \E k \in 1..size : (h + k) % PerfSize = n
                     THEN [id |-> a + 1, size |-> size, counts |-> 1,
                           part |-> Place(h, 1, size, n) - 1]
                     ELSE loss[n]]
        BY <1>3, <1>4, <1>7, <1>14, <2>2, <2>3 DEF Place
    <2>5. /\ RecordAt(loss, h, 1, first, l)
          /\ \A p \in Nat : p < h /\ h + 1 <= p + PerfSize => At(loss, p) = At(m, p)
        <3>1. 1 \in Nat \ {0} /\ 1 <= PerfSize
            OBVIOUS
        <3>2. QED
            BY <1>4, <1>5, <2>3, <3>1, WrittenRecord
    <2>6. SamePlaces(loss, m, from, h)
        <3>1. ASSUME NEW p \in from..(h - 1) PROVE p \in Nat /\ p < h /\ h + 1 <= p + PerfSize
            BY <1>8, <1>10, <2>1
        <3>2. QED
            BY <2>5, <3>1 DEF SamePlaces
    <2>7. /\ Whole(loss, from, h + 1, first + l) /\ Continues(loss, from, h + 1, g, first + l)
          /\ StartsStay(loss, m, from, h)
        <3>1. Whole(m, from, h, first) /\ Continues(m, from, h, g, first) /\ 1 \in Nat \ {0}
            BY <1>8, <2>2
        <3>2. QED
            BY <1>8, <2>5, <2>6, <3>1, RingAppend
    <2>8. first + l = a + 1
        BY <2>2
    <2>9. FilledBy(m2, loss, h, 1, size, a + 1, size, 1)
        BY <2>4 DEF FilledBy
    <2>10. Holds(m2, h, 1, size, a + 1, size, 1) /\ Kept(m2, loss, h, 1, size)
        <3>1. size - 1 < PerfSize /\ 1 \in Nat /\ size \in Nat
            BY <1>8, <1>10, <2>1
        <3>2. QED
            BY <2>9, <3>1, Filled
    <2>11. PICK h1 \in Nat : h1 = h + 1
        OBVIOUS
    <2>12. RecordAt(m2, h1, size, a + 1, 1)
        <3>1. ASSUME NEW k \in 0..(size - 1)
              PROVE  At(m2, h1 + k) = [id |-> a + 1, part |-> k, size |-> size, counts |-> 1]
            <4>1. k + 1 \in 1..size /\ (k + 1) - 1 = k /\ h1 + k = h + (k + 1)
                BY <1>10, <2>11
            <4>2. At(m2, h + (k + 1)) =
                    [id |-> a + 1, part |-> (k + 1) - 1, size |-> size, counts |-> 1]
                BY <2>10, <4>1 DEF Holds
            <4>3. QED
                BY <4>1, <4>2
        <3>2. QED
            BY <3>1 DEF RecordAt
    <2>13. SamePlaces(m2, loss, from, h1)
        <3>1. ASSUME NEW p \in from..(h1 - 1)
              PROVE  p \in Nat /\ p < h + 1 /\ h + size < p + PerfSize
            BY <1>8, <1>10, <2>1, <2>11
        <3>2. QED
            BY <2>10, <3>1 DEF Kept, SamePlaces
    <2>14. /\ Whole(m2, from, h1 + size, (a + 1) + 1)
           /\ Continues(m2, from, h1 + size, g, (a + 1) + 1)
           /\ StartsStay(m2, loss, from, h1)
        <3>1. /\ a + 1 \in Nat /\ 1 \in Nat /\ from <= h1
              /\ Whole(loss, from, h1, a + 1) /\ Continues(loss, from, h1, g, a + 1)
            BY <1>8, <2>7, <2>8, <2>11
        <3>2. QED
            BY <1>10, <2>12, <2>13, <3>1, RingAppend
    <2>15. (a + 1) + 1 = a + 2 /\ h1 + size = h + 1 + size /\ h <= h + 1 + size
        BY <1>10, <2>11
    <2>16. ASSUME NEW upto \in from..h, upto < h => At(m, upto).part = 0
           PROVE  At(m2, upto).part = 0
        <3>1. At(loss, upto).part = 0 /\ upto \in from..h1
            BY <2>7, <2>11, <2>16 DEF StartsStay
        <3>2. QED
            BY <2>14, <3>1 DEF StartsStay
    <2>17. m2 \in [0..(PerfSize - 1) -> Units \cup {None}]
        <3>1. loss \in [0..(PerfSize - 1) -> Units \cup {None}]
            BY <1>3, <2>3, WrittenUnits, 1 \in Nat
        <3>2. m2 = [n \in 0..(PerfSize - 1) |-> m2[n]]
            BY <2>4
        <3>3. QED
            BY <1>10, <2>9, <3>1, <3>2, FilledUnits, 1 \in Nat, a + 1 \in Nat
    <2>18. QED
        BY <1>10, <1>12, <2>1, <2>14, <2>15, <2>16, <2>17
<1>15. CASE /\ missed' = [missed EXCEPT ![c] = @ + 1]
            /\ UNCHANGED <<mem, head, ready>>
    <2>1. missed'[c] = l + 1 /\ head'[c] = h /\ m2 = m
        BY <1>3, <1>4, <1>5, <1>7, <1>15
    <2>2. Next1(c)' = a + 1 - l
        BY <1>9, <2>1 DEF Next1
    <2>3. RingOK(c)'
        BY <1>2, <1>5, <1>7, <1>8, <1>9, <2>1, <2>2 DEF RingOK
    <2>4. QED
        BY <1>6, <2>1, <2>3
<1>16. QED
    BY <1>1, <1>4, <1>13, <1>14, <1>15
-----------------------------------------------------------------------------
(* What the reader's steps need of the invariant.                            *)
LEMMA PerfParts ==
    ASSUME PerfInv
    PROVE  /\ PerfTypes /\ ReaderOK /\ \A c \in Cpus : RingOK(c)
           /\ ~stopped => \A c \in cpu_bufs : Told(c)
BY DEF PerfInv

LEMMA SampleStep ==
    ASSUME Perf!PerfAssumption, PerfInv, NEW c \in Cpus, Perf!Sample(c) PROVE PerfInv'
<1> USE DEF Perf!PerfAssumption
<1>1. /\ RingOK(c)' /\ head'[c] \in Nat /\ head[c] <= head'[c]
      /\ mem'[c] \in [0..(PerfSize - 1) -> Units \cup {None}]
      /\ head'[c] # head[c] => c \in ready'
      /\ \A upto \in Perf!Start(c)..head[c] :
           (upto < head[c] => At(mem[c], upto).part = 0)
               => (upto < head'[c] => At(mem'[c], upto).part = 0)
    BY SampleRing
<1>2. /\ UNCHANGED <<perf_pc, perf_step, cpu_bufs, entries, polled, cur, tail, got, perf_faults>>
      /\ UNCHANGED <<perf_events, data_head, data_tail, stopped>>
      /\ attempts' = [attempts EXCEPT ![c] = @ + 1]
      /\ \/ missed' = missed \/ missed' = [missed EXCEPT ![c] = 0]
         \/ missed' = [missed EXCEPT ![c] = @ + 1]
      /\ \/ head' = head
         \/ \E size \in PerfLengths : \/ head' = [head EXCEPT ![c] = @ + size]
                                  \/ head' = [head EXCEPT ![c] = @ + size + 1]
      /\ mem' = mem \/ \E f : mem' = [mem EXCEPT ![c] = f]
      /\ ready' = ready \/ ready' = ready \cup {c}
    BY DEF Perf!Sample, Perf!reader
<1>3. /\ head \in [Cpus -> Nat] /\ mem \in [Cpus -> [0..(PerfSize - 1) -> Units \cup {None}]]
      /\ attempts \in [Cpus -> Nat] /\ missed \in [Cpus -> Nat] /\ tail \in [Cpus -> Nat]
      /\ data_tail \in Nat /\ data_head \in Nat
    BY DEF PerfInv, PerfTypes
<1>4. head' \in [Cpus -> Nat]
    <2>1. head' = head \/ \E f : head' = [head EXCEPT ![c] = f]
        BY <1>2
    <2>2. QED
        BY <1>1, <1>3, <2>1
<1>5. \A d \in Cpus : d # c => head'[d] = head[d] /\ mem'[d] = mem[d]
                               /\ attempts'[d] = attempts[d] /\ missed'[d] = missed[d]
    <2>1. ASSUME NEW d \in Cpus, d # c PROVE head'[d] = head[d]
        BY <1>2, <1>3, <2>1
    <2>2. ASSUME NEW d \in Cpus, d # c PROVE mem'[d] = mem[d]
        BY <1>2, <1>3, <2>2
    <2>3. ASSUME NEW d \in Cpus, d # c PROVE attempts'[d] = attempts[d] /\ missed'[d] = missed[d]
        BY <1>2, <1>3, <2>3
    <2>4. QED
        BY <2>1, <2>2, <2>3
<1>6. mem' \in [Cpus -> [0..(PerfSize - 1) -> Units \cup {None}]]
    BY <1>1, <1>2, <1>3
<1>7. attempts' \in [Cpus -> Nat] /\ missed' \in [Cpus -> Nat]
    <2>1. attempts[c] + 1 \in Nat /\ missed[c] + 1 \in Nat /\ 0 \in Nat
        BY <1>3
    <2>2. attempts' \in [Cpus -> Nat]
        BY <1>2, <1>3, <2>1
    <2>3. CASE missed' = missed
        BY <1>3, <2>2, <2>3
    <2>4. CASE missed' = [missed EXCEPT ![c] = 0]
        BY <1>3, <2>2, <2>4
    <2>5. CASE missed' = [missed EXCEPT ![c] = @ + 1]
        BY <1>3, <2>1, <2>2, <2>5
    <2>6. QED
        BY <1>2, <2>3, <2>4, <2>5
<1>8. PerfTypes'
    BY <1>2, <1>4, <1>6, <1>7, PerfParts DEF PerfTypes
<1>9. ReaderOK'
    <2>1. ReaderOK
        BY PerfParts
    <2>2. Reading' = Reading
        BY <1>2 DEF Reading
    <2>3. ASSUME Reading
          PROVE  /\ data_head <= head'[cur]
                 /\ data_head < head'[cur] => At(mem'[cur], data_head).part = 0
        <3>1. /\ cur \in Cpus /\ data_tail <= data_head /\ data_head <= head[cur]
              /\ data_head < head[cur] => At(mem[cur], data_head).part = 0
            BY <2>1, <2>3, PerfParts DEF ReaderOK, PerfTypes
        <3>2. CASE cur = c
            <4>1. Perf!Start(c) = data_tail
                BY <3>2 DEF Perf!Start
            <4>2. data_head \in Perf!Start(c)..head[c]
                BY <1>3, <3>1, <3>2, <4>1
            <4>3. data_head <= head'[c]
                BY <1>1, <1>3, <3>1, <3>2
            <4>4. QED
                BY <1>1, <3>1, <3>2, <4>2, <4>3
        <3>3. CASE cur # c
            BY <1>5, <3>1, <3>3
        <3>4. QED
            BY <3>2, <3>3
    <2>4. QED
        BY <1>2, <2>1, <2>2, <2>3 DEF ReaderOK
<1>10. ASSUME NEW d \in Cpus PROVE RingOK(d)'
    <2>1. CASE d = c
        BY <1>1, <2>1
    <2>2. CASE d # c
        <3>1. Perf!Start(d)' = Perf!Start(d) /\ got'[d] = got[d] /\ tail'[d] = tail[d]
            BY <1>2 DEF Perf!Start
        <3>2. QED
            BY <1>2, <1>5, <2>2, <3>1, PerfParts, RingStays
    <2>3. QED
        BY <2>1, <2>2
<1>11. ASSUME ~stopped', NEW d \in cpu_bufs' PROVE Told(d)'
    <2>1. Told(d) /\ d \in Cpus
        BY <1>2, <1>11, PerfParts DEF PerfTypes
    <2>2. CASE d = c /\ head'[c] # head[c]
        BY <1>1, <2>2 DEF Told
    <2>3. CASE head'[d] = head[d]
        BY <1>2, <2>1, <2>3 DEF Told
    <2>4. QED
        BY <1>5, <2>1, <2>2, <2>3
<1>12. QED
    BY <1>8, <1>9, <1>10, <1>11 DEF PerfInv

(* The steps of perf_buffer__new and perf_buffer__free that leave the rings  *)
(* of the open buffers alone.                                                *)
LEMMA OpenStep ==
    ASSUME Perf!PerfAssumption, PerfInv, NEW c \in Cpus, Perf!OpenCpuBuf(c) PROVE PerfInv'
<1> USE DEF Perf!PerfAssumption
<1>1. /\ perf_pc = "new" /\ perf_step = "open" /\ c \in Online /\ c \notin cpu_bufs
      /\ \/ cpu_bufs' = cpu_bufs \cup {c} /\ cur' = c /\ perf_step' = "update"
                /\ perf_pc' = perf_pc
         \/ perf_pc' = "freeing" /\ UNCHANGED <<cpu_bufs, cur, perf_step>>
      /\ data_head' = head[c] /\ data_tail' = tail[c]
      /\ UNCHANGED <<entries, polled, perf_events, stopped>>
      /\ UNCHANGED <<head, tail, mem, ready, attempts, missed, got>>
    BY DEF Perf!OpenCpuBuf, Perf!rings
<1>2. PerfTypes /\ ReaderOK /\ cur = None /\ RingOK(c)
    BY <1>1, PerfParts DEF ReaderOK, Reading
<1>3. head[c] = 0 /\ tail[c] = 0
    BY <1>1, <1>2 DEF RingOK
<1>4. PerfTypes'
    BY <1>1, <1>2, <1>3 DEF PerfTypes
<1>5. ReaderOK'
    BY <1>1, <1>2, <1>3 DEF ReaderOK, Reading, PerfTypes
<1>6. ASSUME NEW d \in Cpus PROVE RingOK(d)'
    <2>1. Perf!Start(d)' = Perf!Start(d)
        BY <1>1, <1>2 DEF Perf!Start
    <2>2. QED
        BY <1>1, <2>1, PerfParts, RingStays
<1>7. ASSUME ~stopped', NEW d \in cpu_bufs' PROVE Told(d)'
    BY <1>1, <1>3, <1>7, PerfParts DEF Told
<1>8. QED
    BY <1>4, <1>5, <1>6, <1>7 DEF PerfInv

LEMMA NewStep ==
    ASSUME Perf!PerfAssumption, PerfInv, Perf!New \/ Perf!UpdateElem \/ Perf!EpollCtl
               \/ Perf!Created \/ Perf!Free \/ Perf!Freed
    PROVE  PerfInv'
<1> USE DEF Perf!PerfAssumption
<1>1. /\ UNCHANGED <<cpu_bufs, perf_events>>
      /\ UNCHANGED <<head, tail, mem, ready, attempts, missed, got>>
      /\ entries' = entries \/ (entries' = entries \cup {cur} /\ perf_pc = "new"
             /\ perf_step = "update")
      /\ polled' = polled \/ (polled' = polled \cup {cur} /\ perf_pc = "new"
             /\ perf_step = "epoll")
      /\ \/ UNCHANGED <<data_head, data_tail, stopped>>
         \/ perf_pc = "freeing" /\ cpu_bufs = {} /\ data_head' = 0 /\ data_tail' = 0
                /\ stopped' = FALSE
      /\ perf_pc \in {"none", "new", "idle", "freeing"}
             /\ perf_pc' \in {"new", "freeing", "idle", "none"}
      /\ perf_pc' = "none" => cpu_bufs = {}
      /\ perf_step' \in {"open", "update", "epoll"}
      /\ (perf_pc' = "new" /\ perf_step' # "open") =>
             cur' = cur /\ perf_pc = "new" /\ perf_step # "open"
      /\ ~(perf_pc' = "new" /\ perf_step' # "open") =>
             cur' = None \/ (cur' = cur /\ ~(perf_pc = "new" /\ perf_step # "open"))
    <2>1. PerfTypes /\ ReaderOK
        BY PerfParts
    <2>2. perf_pc = "none" => cur = None
        BY <2>1 DEF ReaderOK, Reading
    <2>3. perf_step \in {"open", "update", "epoll"}
        BY <2>1 DEF PerfTypes
    <2>4. CASE Perf!New
        BY <2>2, <2>4 DEF Perf!New, Perf!rings, Perf!reader
    <2>5. CASE Perf!UpdateElem
        BY <2>3, <2>5 DEF Perf!UpdateElem, Perf!rings, Perf!reader
    <2>6. CASE Perf!EpollCtl
        BY <2>3, <2>6 DEF Perf!EpollCtl, Perf!rings, Perf!reader
    <2>7. CASE Perf!Created
        BY <2>3, <2>7 DEF Perf!Created, Perf!rings, Perf!reader
    <2>8. CASE Perf!Free
        BY <2>3, <2>8 DEF Perf!Free, Perf!rings, Perf!reader
    <2>9. CASE Perf!Freed
        BY <2>3, <2>9 DEF Perf!Freed, Perf!rings
    <2>10. QED
        BY <2>4, <2>5, <2>6, <2>7, <2>8, <2>9
<1>2. PerfTypes /\ ReaderOK
    BY PerfParts
<1>3. ASSUME perf_pc = "new" /\ perf_step # "open"
      PROVE  /\ cur \in cpu_bufs /\ cur \in Cpus /\ data_tail = tail[cur]
                    /\ data_tail <= data_head
             /\ tail[cur] <= data_tail
             /\ data_head <= head[cur]
             /\ data_head < head[cur] => At(mem[cur], data_head).part = 0
    BY <1>2, <1>3 DEF ReaderOK, Reading, PerfTypes
<1>4. ~(perf_pc = "new" /\ perf_step # "open") => cur = None
    BY <1>1, <1>2 DEF ReaderOK, Reading
<1>5. PerfTypes'
    <2>1. entries' \in SUBSET cpu_bufs'
        BY <1>1, <1>2, <1>3 DEF PerfTypes
    <2>2. polled' \in SUBSET cpu_bufs'
        BY <1>1, <1>2, <1>3 DEF PerfTypes
    <2>3. perf_pc' \in {"none", "new", "freeing", "idle", "poll", "read"}
        BY <1>1
    <2>4. data_head \in Nat /\ data_tail \in Nat /\ stopped \in BOOLEAN
        BY <1>2 DEF PerfTypes
    <2>5. data_head' \in Nat /\ data_tail' \in Nat
        BY <1>1, <2>4
    <2>6. stopped' \in BOOLEAN
        BY <1>1, <2>4
    <2>7. QED
        BY <1>1, <1>2, <2>1, <2>2, <2>3, <2>5, <2>6 DEF PerfTypes
<1>6. ReaderOK'
    <2>1. CASE perf_pc' = "new" /\ perf_step' # "open"
        <3>1. /\ cur' = cur /\ perf_pc = "new" /\ perf_step # "open" /\ data_head' = data_head
              /\ data_tail' = data_tail /\ cpu_bufs' = cpu_bufs /\ head' = head /\ tail' = tail
              /\ mem' = mem /\ perf_events' = perf_events
            BY <1>1, <2>1
        <3>2. perf_events = {}
            BY <1>2, <3>1 DEF ReaderOK
        <3>3. Reading'
            BY <2>1 DEF Reading
        <3>4. QED
            BY <1>3, <2>1, <3>1, <3>2, <3>3 DEF ReaderOK
    <2>2. CASE ~(perf_pc' = "new" /\ perf_step' # "open")
        <3>1. cur' = None /\ cpu_bufs' = cpu_bufs /\ perf_events' = perf_events
            BY <1>1, <1>4, <2>2
        <3>2. ~Reading'
            BY <1>1, <2>2 DEF Reading
        <3>3. perf_events = {}
            BY <1>1, <1>2 DEF ReaderOK
        <3>4. perf_pc' = "none" => cpu_bufs' = {}
            BY <1>1
        <3>5. QED
            BY <3>1, <3>2, <3>3, <3>4 DEF ReaderOK
    <2>3. QED
        BY <2>1, <2>2
<1>7. ASSUME NEW d \in Cpus PROVE RingOK(d)'
    <2>1. Perf!Start(d)' = Perf!Start(d)
        <3>1. CASE perf_pc = "new" /\ perf_step # "open"
            <4>1. cur' = cur \/ cur' = None
                BY <1>1, <3>1
            <4>2. data_tail' = data_tail /\ tail' = tail
                BY <1>1, <3>1
            <4>3. QED
                BY <1>3, <3>1, <4>1, <4>2 DEF Perf!Start
        <3>2. CASE ~(perf_pc = "new" /\ perf_step # "open")
            <4>1. cur = None /\ cur' = None /\ tail' = tail
                BY <1>1, <1>4, <3>2
            <4>2. QED
                BY <4>1 DEF Perf!Start
        <3>3. QED
            BY <3>1, <3>2
    <2>2. QED
        BY <1>1, <2>1, PerfParts, RingStays
<1>8. ASSUME ~stopped', NEW d \in cpu_bufs' PROVE Told(d)'
    <2>1. ~stopped /\ d \in cpu_bufs
        BY <1>1, <1>8
    <2>2. Told(d)
        BY <2>1, PerfParts
    <2>3. perf_pc # "read" /\ perf_pc' # "read"
        BY <1>1
    <2>4. QED
        BY <1>1, <2>2, <2>3 DEF Told
<1>9. QED
    BY <1>5, <1>6, <1>7, <1>8 DEF PerfInv
-----------------------------------------------------------------------------
(* Buffers closed, and the reader's steps.                                   *)

LEMMA FreeStep ==
    ASSUME Perf!PerfAssumption, PerfInv, NEW c \in Cpus, Perf!FreeCpuBuf(c) PROVE PerfInv'
<1> USE DEF Perf!PerfAssumption
<1>1. /\ perf_pc = "freeing" /\ c \in cpu_bufs
      /\ entries' = entries \ {c} /\ cpu_bufs' = cpu_bufs \ {c} /\ polled' = polled \ {c}
      /\ ready' = ready \ {c}
      /\ head' = [head EXCEPT ![c] = 0] /\ tail' = [tail EXCEPT ![c] = 0]
      /\ mem' = [mem EXCEPT ![c] = Perf!Empty]
      /\ attempts' = [attempts EXCEPT ![c] = 0] /\ missed' = [missed EXCEPT ![c] = 0]
      /\ got' = [got EXCEPT ![c] = 0]
      /\ UNCHANGED <<perf_pc, perf_step, cur, perf_events, data_head, data_tail, stopped>>
    BY DEF Perf!FreeCpuBuf, Perf!EntryDeleted, Perf!reader
<1>2. PerfTypes /\ ReaderOK /\ cur = None
    BY <1>1, PerfParts DEF ReaderOK, Reading
<1>3. PerfTypes'
    <2>1. Perf!Empty \in [0..(PerfSize - 1) -> Units \cup {None}]
        BY DEF Perf!Empty
    <2>2. mem' \in [Cpus -> [0..(PerfSize - 1) -> Units \cup {None}]]
        BY <1>1, <1>2, <2>1 DEF PerfTypes
    <2>3. /\ head' \in [Cpus -> Nat] /\ tail' \in [Cpus -> Nat] /\ attempts' \in [Cpus -> Nat]
          /\ missed' \in [Cpus -> Nat] /\ got' \in [Cpus -> Nat]
        BY <1>1, <1>2 DEF PerfTypes
    <2>4. /\ cpu_bufs' \in SUBSET Cpus /\ entries' \in SUBSET cpu_bufs'
          /\ polled' \in SUBSET cpu_bufs'
        BY <1>1, <1>2 DEF PerfTypes
    <2>5. QED
        BY <1>1, <1>2, <2>2, <2>3, <2>4 DEF PerfTypes, ReaderOK
<1>4. ReaderOK'
    BY <1>1, <1>2 DEF ReaderOK, Reading
<1>5. ASSUME NEW d \in Cpus PROVE RingOK(d)'
    <2>1. CASE d = c
        <3>1. /\ head'[c] = 0 /\ tail'[c] = 0 /\ attempts'[c] = 0 /\ missed'[c] = 0
              /\ got'[c] = 0 /\ Perf!Start(c)' = 0
            BY <1>1, <1>2 DEF PerfTypes, Perf!Start
        <3>2. Next1(c)' = 1
            BY <3>1 DEF Next1
        <3>3. Whole(mem'[c], 0, 0, 1) /\ Continues(mem'[c], 0, 0, 0, 1)
            BY DEF Whole, Continues
        <3>4. QED
            BY <2>1, <3>1, <3>2, <3>3 DEF RingOK
    <2>2. CASE d # c
        <3>1. /\ head'[d] = head[d] /\ tail'[d] = tail[d] /\ attempts'[d] = attempts[d]
              /\ missed'[d] = missed[d] /\ got'[d] = got[d] /\ mem'[d] = mem[d]
            BY <1>1, <1>2, <2>2 DEF PerfTypes
        <3>2. Perf!Start(d)' = Perf!Start(d)
            BY <1>1, <1>2, <3>1 DEF Perf!Start
        <3>3. QED
            BY <1>1, <2>2, <3>1, <3>2, PerfParts, RingStays
    <2>3. QED
        BY <2>1, <2>2
<1>6. ASSUME ~stopped', NEW d \in cpu_bufs' PROVE Told(d)'
    <2>1. Told(d) /\ d # c /\ d \in Cpus
        BY <1>1, <1>2, <1>6, PerfParts DEF PerfTypes
    <2>2. head'[d] = head[d] /\ tail'[d] = tail[d]
        BY <1>1, <1>2, <2>1 DEF PerfTypes
    <2>3. QED
        BY <1>1, <2>1, <2>2 DEF Told
<1>7. QED
    BY <1>3, <1>4, <1>5, <1>6 DEF PerfInv

LEMMA WaitStep ==
    ASSUME Perf!PerfAssumption, PerfInv, Perf!EpollWait PROVE PerfInv'
<1> USE DEF Perf!PerfAssumption
<1>1. /\ perf_pc = "idle" /\ perf_pc' = "poll"
      /\ perf_events' = ready \cap polled /\ ready' = ready \ polled
      /\ UNCHANGED <<perf_step, cpu_bufs, entries, polled, cur, head, tail, mem, data_head,
             data_tail,
                     attempts, missed, got, stopped>>
    BY DEF Perf!EpollWait
<1>2. PerfTypes /\ ReaderOK
    BY PerfParts
<1>3. PerfTypes'
    BY <1>1, <1>2 DEF PerfTypes
<1>4. ReaderOK'
    BY <1>1, <1>2 DEF ReaderOK, Reading
<1>5. ASSUME NEW d \in Cpus PROVE RingOK(d)'
    <2>1. Perf!Start(d)' = Perf!Start(d)
        BY <1>1 DEF Perf!Start
    <2>2. QED
        BY <1>1, <2>1, PerfParts, RingStays
<1>6. ASSUME ~stopped', NEW d \in cpu_bufs' PROVE Told(d)'
    <2>1. Told(d) /\ perf_events = {}
        BY <1>1, <1>2, <1>6, PerfParts DEF ReaderOK
    <2>2. QED
        BY <1>1, <2>1 DEF Told
<1>7. QED
    BY <1>3, <1>4, <1>5, <1>6 DEF PerfInv

LEMMA HeadStep ==
    ASSUME Perf!PerfAssumption, PerfInv, NEW c \in Cpus, Perf!ReadHead(c) PROVE PerfInv'
<1> USE DEF Perf!PerfAssumption
<1>1. /\ perf_pc = "poll" /\ c \in perf_events /\ perf_pc' = "read" /\ cur' = c
             /\ perf_events' = perf_events \ {c}
      /\ data_head' = head[c] /\ data_tail' = tail[c]
      /\ UNCHANGED <<perf_step, cpu_bufs, entries, polled, stopped>>
      /\ UNCHANGED <<head, tail, mem, ready, attempts, missed, got>>
    BY DEF Perf!ReadHead, Perf!rings
<1>2. PerfTypes /\ ReaderOK /\ cur = None /\ RingOK(c)
    BY <1>1, PerfParts DEF ReaderOK, Reading
<1>3. PerfTypes'
    BY <1>1, <1>2 DEF PerfTypes
<1>4. tail[c] <= head[c] /\ tail[c] \in Nat /\ head[c] \in Nat
    BY <1>2 DEF RingOK, PerfTypes, Perf!Start
<1>5. ReaderOK'
    <2>1. c \in cpu_bufs
        BY <1>1, <1>2 DEF PerfTypes
    <2>2. QED
        BY <1>1, <1>4, <2>1 DEF ReaderOK, Reading
<1>6. ASSUME NEW d \in Cpus PROVE RingOK(d)'
    <2>1. Perf!Start(d)' = Perf!Start(d)
        BY <1>1, <1>2 DEF Perf!Start
    <2>2. QED
        BY <1>1, <2>1, PerfParts, RingStays
<1>7. ASSUME ~stopped', NEW d \in cpu_bufs' PROVE Told(d)'
    <2>1. Told(d)
        BY <1>1, <1>7, PerfParts
    <2>2. CASE d = c
        BY <1>1, <1>4, <2>2 DEF Told
    <2>3. CASE d # c
        BY <1>1, <2>1, <2>3 DEF Told
    <2>4. QED
        BY <2>2, <2>3
<1>8. QED
    BY <1>3, <1>5, <1>6, <1>7 DEF PerfInv

(* What the reader is at.                                                    *)
LEMMA AtRecord ==
    ASSUME Perf!PerfAssumption, PerfInv, perf_pc = "read"
    PROVE  /\ cur \in Cpus /\ cur \in cpu_bufs /\ Perf!Start(cur) = data_tail
           /\ tail[cur] <= data_tail /\ data_tail <= data_head /\ data_head <= head[cur]
           /\ data_head < head[cur] => At(mem[cur], data_head).part = 0
           /\ head[cur] - tail[cur] <= PerfSize /\ missed[cur] <= attempts[cur]
           /\ Whole(mem[cur], data_tail, head[cur], Next1(cur))
           /\ Continues(mem[cur], data_tail, head[cur], got[cur], Next1(cur))
           /\ \A c \in Cpus : c # cur => Perf!Start(c) = tail[c]
<1>1. PerfTypes /\ ReaderOK /\ Reading
    BY PerfParts DEF Reading
<1>2. cur \in Cpus /\ cur \in cpu_bufs
    BY <1>1 DEF PerfTypes, ReaderOK
<1>3. Perf!Start(cur) = data_tail /\ RingOK(cur)
    BY <1>2, PerfParts DEF Perf!Start
<1>4. \A c \in Cpus : c # cur => Perf!Start(c) = tail[c]
    BY DEF Perf!Start
<1>5. QED
    BY <1>1, <1>2, <1>3, <1>4 DEF ReaderOK, RingOK

(* The reader leaves the ring it was at, where it was.                       *)
LEMMA LeaveStep ==
    ASSUME Perf!PerfAssumption, PerfInv, Perf!NoCopy \/ Perf!WriteTail PROVE PerfInv'
<1> USE DEF Perf!PerfAssumption
<1>1. /\ perf_pc = "read" /\ perf_pc' \in {"idle", "poll"} /\ cur' = None
      /\ data_tail' = data_tail /\ data_head' = data_head
      /\ tail' = [tail EXCEPT ![cur] = data_tail]
      /\ \/ stopped' = TRUE /\ perf_events' = {}
         \/ stopped' = stopped /\ perf_events' = perf_events /\ data_tail = data_head
      /\ perf_pc' = "idle" => perf_events' = {}
      /\ UNCHANGED <<perf_step, cpu_bufs, entries, polled, head, mem, ready, attempts, missed,
             got>>
    BY DEF Perf!NoCopy, Perf!WriteTail, Perf!TailWritten
<1>2. PerfTypes /\ ReaderOK
    BY PerfParts
<1>3. /\ cur \in Cpus /\ cur \in cpu_bufs /\ Perf!Start(cur) = data_tail
      /\ tail[cur] <= data_tail /\ data_tail <= data_head /\ data_head <= head[cur]
      /\ head[cur] - tail[cur] <= PerfSize
      /\ \A c \in Cpus : c # cur => Perf!Start(c) = tail[c]
    BY <1>1, AtRecord
<1>4. PICK b : b = cur
    OBVIOUS
<1>5. tail'[b] = data_tail /\ \A c \in Cpus : c # b => tail'[c] = tail[c]
    BY <1>1, <1>2, <1>3, <1>4 DEF PerfTypes
<1>6. tail[b] \in Nat /\ head[b] \in Nat /\ data_tail \in Nat
    BY <1>2, <1>3, <1>4 DEF PerfTypes
<1>7. PerfTypes'
    <2>1. tail' \in [Cpus -> Nat] /\ stopped' \in BOOLEAN
        BY <1>1, <1>2 DEF PerfTypes
    <2>2. perf_events' \in SUBSET cpu_bufs'
        BY <1>1, <1>2 DEF PerfTypes
    <2>3. QED
        BY <1>1, <1>2, <2>1, <2>2 DEF PerfTypes
<1>8. ReaderOK'
    <2>1. ~Reading' /\ cur' = None /\ perf_pc' # "none"
        BY <1>1 DEF Reading
    <2>2. QED
        BY <1>1, <2>1 DEF ReaderOK
<1>9. ASSUME NEW d \in Cpus PROVE RingOK(d)'
    <2>1. Perf!Start(d)' = Perf!Start(d)
        BY <1>1, <1>3, <1>4, <1>5 DEF Perf!Start
    <2>2. CASE d # b
        <3>1. tail'[d] = tail[d]
            BY <1>5, <2>2
        <3>2. QED
            BY <1>1, <2>1, <3>1, PerfParts, RingStays
    <2>3. CASE d = b
        <3>1. RingOK(b)
            BY <1>3, <1>4, PerfParts
        <3>2. Next1(b)' = Next1(b)
            BY <1>1 DEF Next1
        <3>3. head'[b] - tail'[b] <= PerfSize /\ tail'[b] <= Perf!Start(b)'
                  /\ Perf!Start(b)' <= head'[b]
            <4>1. tail'[b] = data_tail /\ Perf!Start(b)' = data_tail /\ head'[b] = head[b]
                BY <1>1, <1>3, <1>4, <1>5, <2>1, <2>3
            <4>2. tail[b] <= data_tail /\ data_tail <= head[b] /\ head[b] - tail[b] <= PerfSize
                BY <1>2, <1>3, <1>4, <1>6 DEF PerfTypes
            <4>3. QED
                BY <1>6, <4>1, <4>2
        <3>4. QED
            BY <1>1, <1>3, <1>4, <2>1, <2>3, <3>1, <3>2, <3>3 DEF RingOK
    <2>4. QED
        BY <2>2, <2>3
<1>10. ASSUME ~stopped', NEW d \in cpu_bufs' PROVE Told(d)'
    <2>1. /\ stopped' = stopped /\ perf_events' = perf_events /\ data_tail = data_head
                 /\ d \in Cpus
          /\ Told(d)
        BY <1>1, <1>2, <1>10, PerfParts DEF PerfTypes
    <2>2. CASE d = b
        BY <1>1, <1>4, <1>5, <2>1, <2>2 DEF Told
    <2>3. CASE d # b
        BY <1>1, <1>4, <1>5, <2>1, <2>3 DEF Told
    <2>4. QED
        BY <2>2, <2>3
<1>11. QED
    BY <1>7, <1>8, <1>9, <1>10 DEF PerfInv

LEMMA RecordStep ==
    ASSUME Perf!PerfAssumption, PerfInv, Perf!Record PROVE PerfInv'
<1> USE DEF Perf!PerfAssumption
<1>1. /\ perf_pc = "read" /\ data_tail # data_head
      /\ data_tail' = data_tail + Perf!Ehdr.size
      /\ got' = [got EXCEPT ![cur] = @ + Perf!Ehdr.counts]
      /\ \/ UNCHANGED <<perf_pc, tail, cur, perf_events, stopped>>
         \/ /\ tail' = [tail EXCEPT ![cur] = data_tail']
            /\ perf_pc' = "idle" /\ cur' = None /\ perf_events' = {} /\ stopped' = TRUE
      /\ UNCHANGED <<perf_step, cpu_bufs, entries, polled, head, mem, data_head, ready, attempts,
             missed>>
    BY DEF Perf!Record, Perf!Advanced, Perf!TailWritten
<1>2. PerfTypes /\ ReaderOK
    BY PerfParts
<1>3. /\ cur \in Cpus /\ cur \in cpu_bufs /\ Perf!Start(cur) = data_tail
      /\ tail[cur] <= data_tail /\ data_tail <= data_head /\ data_head <= head[cur]
      /\ data_head < head[cur] => At(mem[cur], data_head).part = 0
      /\ head[cur] - tail[cur] <= PerfSize /\ missed[cur] <= attempts[cur]
      /\ Whole(mem[cur], data_tail, head[cur], Next1(cur))
      /\ Continues(mem[cur], data_tail, head[cur], got[cur], Next1(cur))
      /\ \A c \in Cpus : c # cur => Perf!Start(c) = tail[c]
    BY <1>1, AtRecord
<1>4. PICK b : b = cur
    OBVIOUS
<1>5. PICK m, u : m = mem[b] /\ u = Perf!Ehdr
    OBVIOUS
<1>6. /\ data_tail \in Nat /\ data_head \in Nat /\ head[b] \in Nat /\ tail[b] \in Nat
      /\ got[b] \in Nat /\ attempts[b] \in Nat /\ missed[b] \in Nat
    BY <1>2, <1>3, <1>4 DEF PerfTypes
<1>7. u = At(m, data_tail)
    BY <1>4, <1>5 DEF Perf!Ehdr, At
<1>8. PICK from \in Nat, to \in Nat, upto \in Nat, n \in Nat, next \in Nat :
        from = data_tail /\ to = head[b] /\ upto = data_head /\ n = got[b] /\ next = Next1(b)
    <2>1. attempts[b] + 1 - missed[b] \in Nat
        BY <1>3, <1>4, <1>6
    <2>2. QED
        BY <1>6, <2>1 DEF Next1
<1>9. /\ from < upto /\ upto <= to /\ from < to
      /\ upto < to => At(m, upto).part = 0
      /\ Whole(m, from, to, next) /\ At(m, from).part = 0 /\ At(m, from).id = n + 1
    BY <1>1, <1>3, <1>4, <1>5, <1>8 DEF Continues
<1>10. /\ u \in Units /\ u.size # 0 /\ from + u.size <= upto
       /\ Whole(m, from + u.size, to, next)
       /\ Continues(m, from + u.size, to, n + u.counts, next)
    BY <1>7, <1>8, <1>9, WholeAdvance
<1>11. u.size \in Nat /\ u.counts \in Nat
    BY <1>10 DEF Units
<1>12. /\ data_tail' = from + u.size /\ data_tail' \in Nat /\ got'[b] = n + u.counts
       /\ got' \in [Cpus -> Nat] /\ \A c \in Cpus : c # b => got'[c] = got[c]
    <2>1. data_tail' = from + u.size /\ data_tail' \in Nat
        BY <1>1, <1>5, <1>8, <1>11
    <2>2. got[b] + u.counts \in Nat
        BY <1>6, <1>11
    <2>3. got' = [got EXCEPT ![b] = got[b] + u.counts]
        BY <1>1, <1>4, <1>5
    <2>4. QED
        BY <1>2, <1>3, <1>4, <1>8, <2>1, <2>2, <2>3 DEF PerfTypes
<1>13. /\ tail' \in [Cpus -> Nat] /\ \A c \in Cpus : c # b => tail'[c] = tail[c]
       /\ tail[b] <= tail'[b] /\ tail'[b] <= data_tail'
    <2>1. tail[b] <= data_tail' /\ tail[b] <= tail[b]
        BY <1>3, <1>4, <1>6, <1>8, <1>11, <1>12
    <2>2. CASE tail' = tail
        BY <1>2, <2>1, <2>2 DEF PerfTypes
    <2>3. CASE tail' = [tail EXCEPT ![cur] = data_tail']
        BY <1>2, <1>3, <1>4, <1>12, <2>1, <2>3 DEF PerfTypes
    <2>4. QED
        BY <1>1, <2>2, <2>3
<1>14. PerfTypes'
    <2>1. perf_events' \in SUBSET cpu_bufs' /\ stopped' \in BOOLEAN
        BY <1>1, <1>2 DEF PerfTypes
    <2>2. perf_pc' \in {"none", "new", "freeing", "idle", "poll", "read"}
        BY <1>1
    <2>3. QED
        BY <1>1, <1>2, <1>12, <1>13, <2>1, <2>2 DEF PerfTypes
<1>15. ReaderOK'
    <2>1. CASE UNCHANGED <<perf_pc, tail, cur, perf_events, stopped>>
        <3>1. tail'[b] <= data_tail' /\ data_tail' <= data_head /\ data_head <= head[b]
            BY <1>8, <1>10, <1>11, <1>12, <1>13, <1>3, <1>4
        <3>2. QED
            BY <1>1, <1>2, <1>3, <1>4, <2>1, <3>1 DEF ReaderOK, Reading
    <2>2. CASE perf_pc' = "idle" /\ cur' = None /\ perf_events' = {}
        BY <1>1, <2>2 DEF ReaderOK, Reading
    <2>3. QED
        BY <1>1, <2>1, <2>2
<1>16. ASSUME NEW d \in Cpus PROVE RingOK(d)'
    <2>1. CASE d # b
        <3>1. Perf!Start(d)' = Perf!Start(d) /\ tail'[d] = tail[d] /\ got'[d] = got[d]
            BY <1>1, <1>4, <1>12, <1>13, <2>1 DEF Perf!Start
        <3>2. QED
            BY <1>1, <3>1, PerfParts, RingStays
    <2>2. CASE d = b
        <3>1. Perf!Start(b)' = data_tail'
            <4>1. CASE cur' = cur
                BY <1>4, <4>1 DEF Perf!Start
            <4>2. CASE cur' = None /\ tail' = [tail EXCEPT ![cur] = data_tail']
                BY <1>2, <1>3, <1>4, <4>2 DEF Perf!Start, PerfTypes
            <4>3. QED
                BY <1>1, <4>1, <4>2
        <3>2. Next1(b)' = next
            BY <1>1, <1>8 DEF Next1
        <3>3. /\ tail'[b] <= data_tail' /\ data_tail' <= head[b] /\ head[b] - tail'[b] <= PerfSize
            BY <1>3, <1>4, <1>6, <1>8, <1>10, <1>11, <1>12, <1>13
        <3>4. /\ Whole(mem'[b], data_tail', head'[b], next)
              /\ Continues(mem'[b], data_tail', head'[b], got'[b], next)
            BY <1>1, <1>5, <1>8, <1>10, <1>12
        <3>5. b \in cpu_bufs' /\ missed'[b] <= attempts'[b] /\ head' = head
            BY <1>1, <1>3, <1>4
        <3>6. QED
            BY <2>2, <3>1, <3>2, <3>3, <3>4, <3>5 DEF RingOK
    <2>3. QED
        BY <2>1, <2>2
<1>17. ASSUME ~stopped', NEW d \in cpu_bufs' PROVE Told(d)'
    <2>1. UNCHANGED <<perf_pc, tail, cur, perf_events, stopped>>
        BY <1>1, <1>17
    <2>2. Told(d)
        BY <1>1, <1>17, <2>1, PerfParts
    <2>3. QED
        BY <1>1, <2>1, <2>2 DEF Told
<1>18. QED
    BY <1>14, <1>15, <1>16, <1>17 DEF PerfInv

LEMMA PerfStep ==
    ASSUME Perf!PerfAssumption, PerfInv, [Perf!Next]_(Perf!pbvars) PROVE PerfInv'
<1>1. CASE Perf!Next
    BY <1>1, NewStep, OpenStep, FreeStep, SampleStep, WaitStep, HeadStep, LeaveStep, RecordStep
       DEF Perf!Next
<1>2. CASE UNCHANGED Perf!pbvars
    <2>1. \A d \in Cpus : RingOK(d) => RingOK(d)'
        BY <1>2 DEF Perf!pbvars, RingOK, Next1, Perf!Start
    <2>2. \A d \in Cpus : Told(d) => Told(d)'
        BY <1>2 DEF Perf!pbvars, Told
    <2>3. PerfTypes' /\ ReaderOK'
        BY <1>2, PerfParts DEF Perf!pbvars, PerfTypes, ReaderOK, Reading
    <2>4. cpu_bufs' = cpu_bufs /\ stopped' = stopped /\ cpu_bufs \in SUBSET Cpus
        BY <1>2, PerfParts DEF Perf!pbvars, PerfTypes
    <2>5. QED
        BY <2>1, <2>2, <2>3, <2>4, PerfParts DEF PerfInv
<1>3. QED
    BY <1>1, <1>2

(* What is promised of the perf buffer follows.                              *)
LEMMA PerfSafe == ASSUME Perf!PerfAssumption, PerfInv PROVE Perf!PerfBufferSafe
<1> USE DEF Perf!PerfAssumption
<1>1. Perf!StreamWhole
    <2>1. SUFFICES ASSUME NEW c \in cpu_bufs
          PROVE  LET from == Perf!Start(c)
                     at(n) == mem[c][n % PerfSize]
                 IN  /\ from < head[c] => at(from).part = 0 /\ at(from).id = got[c] + 1
                     /\ \A n \in from..(head[c] - 1) : n + 1 < head[c] =>
                         IF at(n).part + 1 < at(n).size
                         THEN at(n + 1) = [at(n) EXCEPT !.part = @ + 1]
                         ELSE at(n + 1).part = 0 /\ at(n + 1).id = at(n).id + at(n).counts
        BY DEF Perf!StreamWhole
    <2>2. PerfTypes /\ c \in Cpus /\ RingOK(c)
        BY PerfParts DEF PerfTypes
    <2>3. PICK from \in Nat, to \in Nat : from = Perf!Start(c) /\ to = head[c]
        BY <2>2 DEF PerfTypes, Perf!Start
    <2>4. PICK m, next : m = mem[c] /\ next = Next1(c)
        OBVIOUS
    <2>5. Whole(m, from, to, next) /\ Continues(m, from, to, got[c], next)
        BY <2>2, <2>3, <2>4 DEF RingOK
    <2>6. from < to => At(m, from).part = 0 /\ At(m, from).id = got[c] + 1
        BY <2>5 DEF Continues
    <2>7. ASSUME NEW n \in from..(to - 1), n + 1 < to
          PROVE  IF At(m, n).part + 1 < At(m, n).size
                 THEN At(m, n + 1) = [At(m, n) EXCEPT !.part = At(m, n).part + 1]
                 ELSE At(m, n + 1).part = 0 /\ At(m, n + 1).id = At(m, n).id + At(m, n).counts
        BY <2>5, <2>7, WholeStream
    <2>8. QED
        BY <2>3, <2>4, <2>6, <2>7 DEF At
<1>2. Perf!NoneForgotten
    <2>1. SUFFICES ASSUME perf_pc = "idle", ready = {}, ~stopped, NEW c \in cpu_bufs
          PROVE  tail[c] = head[c]
        BY DEF Perf!NoneForgotten
    <2>2. PerfTypes /\ ReaderOK /\ c \in Cpus /\ RingOK(c) /\ Told(c)
        BY <2>1, PerfParts DEF PerfTypes
    <2>3. perf_events = {} /\ ~(tail[c] < head[c])
        BY <2>1, <2>2 DEF ReaderOK, Told
    <2>4. tail[c] <= head[c] /\ tail[c] \in Nat /\ head[c] \in Nat
        <3>1. Perf!Start(c) \in Nat /\ tail[c] \in Nat /\ head[c] \in Nat
            BY <2>2 DEF PerfTypes, Perf!Start
        <3>2. tail[c] <= Perf!Start(c) /\ Perf!Start(c) <= head[c]
            BY <2>2 DEF RingOK
        <3>3. QED
            BY <3>1, <3>2
    <2>5. QED
        BY <2>3, <2>4
<1>3. Perf!FreedLeavesNothing
    BY PerfParts DEF Perf!FreedLeavesNothing, ReaderOK, PerfTypes
<1>4. QED
    BY <1>1, <1>2, <1>3 DEF Perf!PerfBufferSafe

LEMMA Least ==
    ASSUME NEW T \in SUBSET Nat, T # {}
    PROVE  \E m \in T : \A k \in T : m <= k
<1> DEFINE R == OpToRel(<, Nat)
<1>1. IsWellFoundedOn(R, Nat)
    BY NatLessThanWellFounded
<1>2. ASSUME NEW x \in Nat, NEW y \in Nat, x < y PROVE <<x, y>> \in R
    BY <1>2 DEF OpToRel
<1> HIDE DEF R
<1>3. PICK x \in T : \A y \in T : ~ (<<y, x>> \in R)
    BY <1>1, WFMin
<1>4. ASSUME NEW k \in T PROVE x <= k
    <2>1. ~ (k < x)
        BY <1>2, <1>3
    <2>2. k \in Nat /\ x \in Nat
        OBVIOUS
    <2>3. QED
        BY <2>1, <2>2
<1>5. QED
    BY <1>4
(* The calls, and what one knows of the interface it asks about.             *)
Progs == [Modes -> Nat]
LinkMsgs == [type : {"link"}, req : Nat, seq : Nat, link : Links, progs : Progs]
Infos == [attach_mode : Modes \cup {None, "multi"}, prog_id : Nat, ids : Progs]
NoInfo == [attach_mode |-> None, prog_id |-> 0, ids |-> [n \in Modes |-> 0]]
CallSet == [op : Nl!Dumps \cup {"set"}, own : BOOLEAN, seq : Nat, req : Nat,
            link : Links \cup {0}, mode : Modes \cup {None}, info : Infos, heard : Seq(LinkMsgs),
            had : SUBSET Progs, applied : BOOLEAN, clean : BOOLEAN]

NlTypes ==
    /\ nl_kernel \in [Links -> Progs] /\ nl_now \in Nat \ {0} /\ nl_requests \in Nat
    /\ nl_socket \in [Nl!Sockets -> Nl!Socket \cup {None}]
    /\ nl_call \in [Nl!Sockets -> CallSet \cup {None}]

(* Datagrams are not empty, and while a dump runs its next one waits.        *)
QueueOK(so) ==
    /\ \A k \in 1..Len(so.queue) : so.queue[k] # <<>>
    /\ so.dump # None => so.queue # <<>>

(* What a call has heard of its dump: every interface so far, in order.      *)
HeardOK(c) == \A n \in 1..Len(c.heard) : c.heard[n].link = n /\ c.heard[n].req = c.req
InfoOK(c) == (c.op = "get_xdp_info" /\ c.link # 0) =>
    IF c.link <= Len(c.heard)
    THEN \E p \in c.had : Nl!get_xdp_id(c.info, c.mode) = Nl!Truth(p, c.mode)
    ELSE c.info = NoInfo

(* A message of the call's own dump about the interface i.                   *)
OwnMsg(c, m, i) ==
    /\ m \in LinkMsgs /\ m.req = c.req /\ m.seq = c.seq /\ m.link = i
    /\ (c.op = "get_xdp_info" /\ c.link = i) => m.progs \in c.had
(* The dump goes on behind the datagram g, or the datagram ends it.          *)
GoesOn(c, g, d) ==
    LET h == Len(c.heard)
        n == h + Len(g)
    IN  /\ d \in Nl!Dump /\ d.req = c.req /\ d.seq = c.seq
        /\ n <= Nl!Cardinality(Links) /\ d.next = IF n < Nl!Cardinality(Links) THEN n + 1 ELSE 0
        /\ \A k \in 1..Len(g) : OwnMsg(c, g[k], h + k)
Over(c, g) ==
    /\ Len(c.heard) = Nl!Cardinality(Links)
    /\ Len(g) = 1 /\ g[1].type = "done" /\ g[1].seq = c.seq

(* A call that met no message with its number: what was left on the socket   *)
(* stops it, or all there is is the answer to it.                            *)
Blocked(c, so) ==
    /\ c.op # "set" /\ c.heard = <<>>
    /\ so.queue # <<>> /\ so.queue[1][1].seq # c.seq
Answered(c, so) ==
    /\ c.op = "set" /\ c.heard = <<>>
    /\ so.queue = <<<<Nl!ErrorMsg(c.req, c.seq, ~c.applied)>>>> /\ so.dump = None
Streaming(c, so) ==
    /\ c.op # "set" /\ HeardOK(c) /\ InfoOK(c)
    /\ Len(so.queue) = 1
    /\ IF so.dump = None THEN Over(c, so.queue[1]) ELSE GoesOn(c, so.queue[1], so.dump)
CallOK(c, so) ==
    /\ c.clean => Blocked(c, so) \/ Answered(c, so) \/ Streaming(c, so)
    /\ c.op # "get_link" => c.clean
    /\ (c.op = "get_xdp_info" /\ c.link # 0) => nl_kernel[c.link] \in c.had

(* What a call has returned.                                                 *)
ReplyOK(r) == LET c == r.call IN
    /\ c.clean => \A n \in 1..Len(c.heard) : c.heard[n].req = c.req
    /\ (r.ret = "ok" /\ c.clean /\ c.op \in Nl!Dumps) =>
        Len(c.heard) = Nl!Cardinality(Links) /\ HeardOK(c)
    /\ (r.ret = "ok" /\ c.op = "get_xdp_info" /\ c.link # 0) =>
        \E p \in c.had : Nl!get_xdp_id(c.info, c.mode) = Nl!Truth(p, c.mode)
    /\ c.op = "set" => /\ r.ret = "ok" => c.applied
                       /\ r.ret = "error" => ~c.applied
                       /\ r.ret # "invseq"

SocketInv(s) ==
    /\ nl_call[s] # None => nl_socket[s] # None /\ CallOK(nl_call[s], nl_socket[s])
    /\ nl_socket[s] # None => QueueOK(nl_socket[s])
    /\ reply[s] # None => ReplyOK(reply[s])
NlInv == NlTypes /\ reply = [s \in Nl!Sockets |-> reply[s]] /\ \A s \in Nl!Sockets : SocketInv(s)
-----------------------------------------------------------------------------
(* Induction over a number, and the messages read one after the other.       *)

LEMMA Counting ==
    ASSUME NEW T, NEW L \in Nat, 0 \in T, \A k \in 0..L : k \in T /\ k < L => k + 1 \in T
    PROVE  \A k \in 0..L : k \in T
<1> DEFINE U == {k \in 0..L : k \notin T}
<1>1. CASE U = {}
    BY <1>1
<1>2. CASE U # {}
    <2>1. U \in SUBSET Nat
        OBVIOUS
    <2>2. PICK m \in U : \A k \in U : m <= k
        BY <1>2, <2>1, Least
    <2>3. m \in 0..L /\ m \notin T /\ m # 0
        OBVIOUS
    <2>4. m - 1 \in 0..L /\ m - 1 < L /\ (m - 1) + 1 = m /\ ~(m <= m - 1)
        BY <2>3
    <2>5. m - 1 \in T
        BY <2>2, <2>4
    <2>6. QED
        BY <2>3, <2>4, <2>5
<1>3. QED
    BY <1>1, <1>2

LEMMA UptoStep ==
    ASSUME NEW c, NEW msgs, Len(msgs) \in Nat
    PROVE  /\ Nl!Upto(c, msgs)[0] = c
           /\ \A n \in 0..Len(msgs) : n < Len(msgs) =>
                Nl!Upto(c, msgs)[n + 1] = Nl!Heard(Nl!Upto(c, msgs)[n], msgs[n + 1])
<1> DEFINE Reads(f, l) == f = [n \in 0..l |-> IF n = 0 THEN c ELSE Nl!Heard(f[n - 1], msgs[n])]
<1> DEFINE T == {l \in Nat : \E f : Reads(f, l)}
<1>1. 0 \in T
    <2>1. Reads([n \in 0..0 |-> c], 0)
        OBVIOUS
    <2>2. QED
        BY <2>1
<1>2. ASSUME NEW l \in 0..Len(msgs), l \in T PROVE l + 1 \in T
    <2>1. PICK f : Reads(f, l)
        BY <1>2
    <2> DEFINE g == [n \in 0..(l + 1) |-> IF n = l + 1 THEN Nl!Heard(f[l], msgs[l + 1]) ELSE f[n]]
    <2>2. ASSUME NEW n \in 0..(l + 1)
          PROVE  g[n] = IF n = 0 THEN c ELSE Nl!Heard(g[n - 1], msgs[n])
        <3>1. CASE n = 0
            BY <2>1, <3>1
        <3>2. CASE n # 0 /\ n # l + 1
            <4>1. n \in 0..l /\ n - 1 \in 0..(l + 1) /\ n - 1 # l + 1
                BY <3>2
            <4>2. f[n] = Nl!Heard(f[n - 1], msgs[n])
                BY <2>1, <3>2, <4>1
            <4>3. g[n] = f[n] /\ g[n - 1] = f[n - 1]
                BY <3>2, <4>1
            <4>4. QED
                BY <3>2, <4>2, <4>3
        <3>3. CASE n = l + 1
            <4>1. n - 1 = l /\ n # 0 /\ l \in 0..(l + 1) /\ l # l + 1
                BY <3>3
            <4>2. g[n] = Nl!Heard(f[l], msgs[n]) /\ g[l] = f[l]
                BY <3>3, <4>1
            <4>3. QED
                BY <4>1, <4>2
        <3>4. QED
            BY <3>1, <3>2, <3>3
    <2>3. g = [n \in 0..(l + 1) |-> g[n]]
        OBVIOUS
    <2> HIDE DEF g
    <2>4. Reads(g, l + 1)
        BY <2>2, <2>3
    <2>5. QED
        BY <2>4
<1>3. Len(msgs) \in T
    <2> HIDE DEF T
    <2>1. \A k \in 0..Len(msgs) : k \in T
        BY <1>1, <1>2, Counting
    <2>2. QED
        BY <2>1
<1>4. PICK f : Reads(f, Len(msgs))
    BY <1>3
<1>5. Reads(Nl!Upto(c, msgs), Len(msgs))
    BY <1>4 DEF Nl!Upto
<1>6. PICK u : u = Nl!Upto(c, msgs)
    OBVIOUS
<1>7. u = [n \in 0..Len(msgs) |-> IF n = 0 THEN c ELSE Nl!Heard(u[n - 1], msgs[n])]
    BY <1>5, <1>6
<1>8. u[0] = c
    BY <1>7
<1>9. ASSUME NEW n \in 0..Len(msgs), n < Len(msgs) PROVE u[n + 1] = Nl!Heard(u[n], msgs[n + 1])
    <2>1. n + 1 \in 0..Len(msgs) /\ n + 1 # 0 /\ (n + 1) - 1 = n
        BY <1>9
    <2>2. QED
        BY <1>7, <2>1
<1>10. QED
    BY <1>6, <1>8, <1>9

(* The cardinality Netlink counts with is that of the theorems.              *)
LEMMA SizeNat ==
    ASSUME NEW S, Nl!IsFiniteSet(S)
    PROVE  Nl!Cardinality(S) \in Nat /\ (Nl!Cardinality(S) = 0 <=> S = {})
<1>1. IsFiniteSet(S)
    BY DEF IsFiniteSet, Nl!IsFiniteSet
<1>2. Nl!Cardinality(S) = Cardinality(S)
    BY DEF Cardinality, Nl!Cardinality
<1>3. QED
    BY <1>1, <1>2, FS_CardinalityType, FS_EmptySet

LEMMA SubFinite ==
    ASSUME NEW S, Nl!IsFiniteSet(S), NEW T \in SUBSET S PROVE Nl!IsFiniteSet(T)
<1>1. IsFiniteSet(S)
    BY DEF IsFiniteSet, Nl!IsFiniteSet
<1>2. IsFiniteSet(T)
    BY <1>1, FS_Subset
<1>3. QED
    BY <1>2 DEF IsFiniteSet, Nl!IsFiniteSet

-----------------------------------------------------------------------------
(* One message heard.                                                        *)

LEMMA AttachedModes ==
    ASSUME Nl!NetlinkAssumption, NEW p \in Progs
    PROVE  /\ Nl!Attached(p) \subseteq Modes /\ Nl!Cardinality(Nl!Attached(p)) \in Nat
           /\ Nl!Cardinality(Nl!Attached(p)) = 0 <=> Nl!Attached(p) = {}
           /\ Nl!AttachMode(p) \in Modes \cup {"multi"} \/ Nl!Attached(p) = {}
           /\ (Nl!Attached(p) # {} /\ Nl!AttachMode(p) # "multi") =>
                  Nl!AttachMode(p) \in Nl!Attached(p)
           /\ (Nl!Attached(p) # {}) =>
                (Nl!AttachMode(p) = "multi" <=> Nl!Cardinality(Nl!Attached(p)) > 1)
<1>1. Nl!Attached(p) \subseteq Modes
    BY DEF Nl!Attached
<1>2. Nl!IsFiniteSet(Nl!Attached(p))
    BY <1>1, SubFinite DEF Nl!NetlinkAssumption
<1>3. Nl!Cardinality(Nl!Attached(p)) \in Nat
          /\ (Nl!Cardinality(Nl!Attached(p)) = 0 <=> Nl!Attached(p) = {})
    BY <1>2, SizeNat
<1>4. ASSUME Nl!Attached(p) # {}, ~(Nl!Cardinality(Nl!Attached(p)) > 1)
      PROVE  Nl!AttachMode(p) \in Nl!Attached(p)
    BY <1>4 DEF Nl!AttachMode
<1>5. Nl!Cardinality(Nl!Attached(p)) > 1 => Nl!AttachMode(p) = "multi"
    BY DEF Nl!AttachMode
<1>6. "multi" \notin Nl!Attached(p)
    BY <1>1 DEF Nl!NetlinkAssumption
<1>7. QED
    BY <1>1, <1>3, <1>4, <1>5, <1>6

(* get_xdp_info keeps everything but what it answers.                        *)
LEMMA InfoType ==
    ASSUME Nl!NetlinkAssumption, NEW c \in CallSet, NEW m \in LinkMsgs
    PROVE  /\ Nl!get_xdp_info(c, m).info \in Infos
           /\ Nl!get_xdp_info(c, m) = [c EXCEPT !.info = Nl!get_xdp_info(c, m).info]
           /\ c.link # 0 /\ c.link # m.link => Nl!get_xdp_info(c, m) = c
<1>1. CASE c.link # 0 /\ c.link # m.link
    <2>1. Nl!get_xdp_info(c, m) = c
        BY <1>1 DEF Nl!get_xdp_info
    <2>2. c = [c EXCEPT !.info = c.info] /\ c.info \in Infos
        BY DEF CallSet
    <2>3. QED
        BY <2>1, <2>2
<1>2. CASE ~(c.link # 0 /\ c.link # m.link) /\ Nl!Attached(m.progs) = {}
    <2>1. PICK info : info = [c.info EXCEPT !.attach_mode = None]
        OBVIOUS
    <2>2. Nl!get_xdp_info(c, m) = [c EXCEPT !.info = info]
        BY <1>2, <2>1 DEF Nl!get_xdp_info
    <2>3. info \in Infos
        BY <2>1 DEF CallSet, Infos
    <2>4. Nl!get_xdp_info(c, m).info = info
        BY <2>2 DEF CallSet
    <2>5. QED
        BY <1>2, <2>2, <2>3, <2>4
<1>3. CASE ~(c.link # 0 /\ c.link # m.link) /\ Nl!Attached(m.progs) # {}
    <2>1. PICK mode : mode = Nl!AttachMode(m.progs)
        OBVIOUS
    <2>2. PICK info : info = [attach_mode |-> mode,
                prog_id |-> IF mode = "multi" THEN c.info.prog_id ELSE m.progs[mode],
                ids |-> [n \in Modes |-> IF m.progs[n] # 0 THEN m.progs[n] ELSE c.info.ids[n]]]
        OBVIOUS
    <2>3. Nl!get_xdp_info(c, m) = [c EXCEPT !.info = info]
        BY <1>3, <2>1, <2>2 DEF Nl!get_xdp_info
    <2>4. m.progs \in Progs /\ c.info \in Infos
        BY DEF LinkMsgs, CallSet
    <2>5. mode \in Modes \cup {"multi"} /\ (mode # "multi" => mode \in Modes)
        BY <1>3, <2>1, <2>4, AttachedModes
    <2>6. (IF mode = "multi" THEN c.info.prog_id ELSE m.progs[mode]) \in Nat
        BY <2>4, <2>5 DEF Progs, Infos
    <2>7. [n \in Modes |-> IF m.progs[n] # 0 THEN m.progs[n] ELSE c.info.ids[n]] \in Progs
        BY <2>4 DEF Progs, Infos
    <2>8. info \in Infos
        BY <2>2, <2>5, <2>6, <2>7 DEF Infos
    <2>9. Nl!get_xdp_info(c, m).info = info
        BY <2>3 DEF CallSet
    <2>10. QED
        BY <1>3, <2>3, <2>8, <2>9
<1>4. QED
    BY <1>1, <1>2, <1>3

(* What a call keeps of the message: the answer and the message itself.      *)
SameCall(d, c) ==
    /\ d \in CallSet /\ d.op = c.op /\ d.own = c.own /\ d.seq = c.seq /\ d.req = c.req
    /\ d.link = c.link /\ d.mode = c.mode /\ d.had = c.had /\ d.applied = c.applied
    /\ d.clean = c.clean

LEMMA HeardKeeps ==
    ASSUME Nl!NetlinkAssumption, NEW c \in CallSet, NEW m \in Nl!Message
    PROVE  /\ SameCall(Nl!Heard(c, m), c)
           /\ Nl!Heard(c, m).heard = IF m.type = "link" THEN Append(c.heard, m) ELSE c.heard
           /\ Nl!Heard(c, m).info = IF m.type = "link" /\ c.op = "get_xdp_info"
                                 THEN Nl!get_xdp_info(c, m).info ELSE c.info
<1>1. CASE m.type # "link"
    <2>1. Nl!Heard(c, m) = c
        BY <1>1 DEF Nl!Heard
    <2>2. QED
        BY <1>1, <2>1 DEF SameCall
<1>2. CASE m.type = "link"
    <2>1. m \in LinkMsgs
        BY <1>2 DEF Nl!Message, LinkMsgs, Progs
    <2>2. PICK info : info = IF c.op = "get_xdp_info" THEN Nl!get_xdp_info(c, m).info ELSE c.info
        OBVIOUS
    <2>3. info \in Infos
        BY <2>1, <2>2, InfoType DEF CallSet
    <2>4. PICK b : b = [c EXCEPT !.info = info]
        OBVIOUS
    <2>5. b = IF c.op = "get_xdp_info" THEN Nl!get_xdp_info(c, m) ELSE c
        <3>1. CASE c.op = "get_xdp_info"
            BY <2>1, <2>2, <2>4, <3>1, InfoType
        <3>2. CASE c.op # "get_xdp_info"
            BY <2>2, <2>4, <3>2 DEF CallSet
        <3>3. QED
            BY <3>1, <3>2
    <2>6. /\ b \in CallSet /\ b.op = c.op /\ b.own = c.own /\ b.seq = c.seq /\ b.req = c.req
          /\ b.link = c.link /\ b.mode = c.mode /\ b.had = c.had /\ b.applied = c.applied
          /\ b.clean = c.clean /\ b.heard = c.heard /\ b.info = info
        BY <2>3, <2>4 DEF CallSet
    <2>7. PICK heard : heard = Append(c.heard, m)
        OBVIOUS
    <2>8. heard \in Seq(LinkMsgs)
        BY <2>1, <2>7 DEF CallSet
    <2>9. Nl!Heard(c, m) = [b EXCEPT !.heard = heard]
        BY <1>2, <2>5, <2>6, <2>7 DEF Nl!Heard
    <2> HIDE DEF Nl!Heard
    <2>10. PICK d : d = Nl!Heard(c, m)
        OBVIOUS
    <2>11. /\ d \in CallSet /\ d.op = b.op /\ d.own = b.own /\ d.seq = b.seq /\ d.req = b.req
           /\ d.link = b.link /\ d.mode = b.mode /\ d.had = b.had /\ d.applied = b.applied
           /\ d.clean = b.clean /\ d.heard = heard /\ d.info = b.info
        BY <2>6, <2>8, <2>9, <2>10 DEF CallSet
    <2>12. QED
        BY <1>2, <2>2, <2>6, <2>7, <2>10, <2>11 DEF SameCall
<1>3. QED
    BY <1>1, <1>2

(* What one message about the interface says is what it answers.             *)
LEMMA InfoTrue ==
    ASSUME Nl!NetlinkAssumption, NEW c \in CallSet, c.info = NoInfo, NEW m \in LinkMsgs,
           c.link = m.link
    PROVE  Nl!get_xdp_id(Nl!get_xdp_info(c, m).info, c.mode) = Nl!Truth(m.progs, c.mode)
<1>1. PICK p \in Progs : p = m.progs
    BY DEF LinkMsgs
<1>2. c.mode \in Modes \cup {None}
    BY DEF CallSet
<1>3. CASE Nl!Attached(p) = {}
    <2>1. Nl!get_xdp_info(c, m).info = NoInfo
        <3>1. [c.info EXCEPT !.attach_mode = None] = NoInfo
            BY DEF NoInfo
        <3>2. Nl!get_xdp_info(c, m) = [c EXCEPT !.info = [c.info EXCEPT !.attach_mode = None]]
            BY <1>1, <1>3 DEF Nl!get_xdp_info
        <3>3. QED
            BY <3>1, <3>2 DEF CallSet
    <2>2. \A n \in Modes : p[n] = 0
        BY <1>3 DEF Nl!Attached
    <2>3. Nl!Cardinality(Nl!Attached(p)) # 1
        BY <1>3, AttachedModes
    <2>4. None # "multi"
        BY DEF Nl!NetlinkAssumption
    <2>5. CASE c.mode # None
        BY <1>1, <1>2, <2>1, <2>2, <2>5 DEF Nl!get_xdp_id, NoInfo, Nl!Truth
    <2>6. CASE c.mode = None
        BY <1>1, <2>1, <2>3, <2>4, <2>6 DEF Nl!get_xdp_id, NoInfo, Nl!Truth
    <2>7. QED
        BY <2>5, <2>6
<1>4. CASE Nl!Attached(p) # {}
    <2>1. PICK mode : mode = Nl!AttachMode(p)
        OBVIOUS
    <2>2. PICK info : info = [attach_mode |-> mode,
                prog_id |-> IF mode = "multi" THEN c.info.prog_id ELSE p[mode],
                ids |-> [n \in Modes |-> IF p[n] # 0 THEN p[n] ELSE c.info.ids[n]]]
        OBVIOUS
    <2>3. Nl!get_xdp_info(c, m).info = info
        <3>1. Nl!get_xdp_info(c, m) = [c EXCEPT !.info = info]
            BY <1>1, <1>4, <2>1, <2>2 DEF Nl!get_xdp_info
        <3>2. QED
            BY <3>1 DEF CallSet
    <2>4. CASE c.mode # None
        <3>1. c.mode \in Modes
            BY <1>2, <2>4
        <3>2. info.ids[c.mode] = IF p[c.mode] # 0 THEN p[c.mode] ELSE 0
            BY <2>2, <3>1 DEF NoInfo
        <3>3. QED
            BY <1>1, <2>3, <2>4, <3>2 DEF Nl!get_xdp_id, Nl!Truth
    <2>5. CASE c.mode = None
        <3>1. mode = "multi" <=> Nl!Cardinality(Nl!Attached(p)) # 1
            BY <1>4, <2>1, AttachedModes
        <3>2. CASE mode = "multi"
            BY <1>1, <2>2, <2>3, <2>5, <3>1, <3>2 DEF Nl!get_xdp_id, Nl!Truth
        <3>3. CASE mode # "multi"
            BY <1>1, <2>1, <2>2, <2>3, <2>5, <3>1, <3>3 DEF Nl!get_xdp_id, Nl!Truth
        <3>4. QED
            BY <3>2, <3>3
    <2>6. QED
        BY <2>4, <2>5
<1>5. QED
    BY <1>3, <1>4
-----------------------------------------------------------------------------
(* Interfaces are numbered from 1.                                           *)
LEMMA LinksFinite ==
    ASSUME Nl!NetlinkAssumption PROVE Nl!Cardinality(Links) \in Nat /\ Links \subseteq Nat
<1>1. PICK n \in Nat : n = Nl!Cardinality(Links)
    BY SizeNat DEF Nl!NetlinkAssumption
<1>2. Links = 1..n
    BY <1>1 DEF Nl!NetlinkAssumption
<1>3. QED
    BY <1>1, <1>2

(* A datagram read up to one of its messages.                                *)

LEMMA UptoKeeps ==
    ASSUME Nl!NetlinkAssumption, NEW c \in CallSet, NEW msgs \in Seq(Nl!Message)
    PROVE  \A n \in 0..Len(msgs) : SameCall(Nl!Upto(c, msgs)[n], c)
<1> DEFINE T == {n \in Nat : SameCall(Nl!Upto(c, msgs)[n], c)}
<1>1. Len(msgs) \in Nat
    OBVIOUS
<1>2. 0 \in T
    BY <1>1, UptoStep DEF SameCall
<1>3. ASSUME NEW n \in 0..Len(msgs), n \in T, n < Len(msgs) PROVE n + 1 \in T
    <2>1. PICK d : d = Nl!Upto(c, msgs)[n]
        OBVIOUS
    <2>2. d \in CallSet /\ SameCall(d, c)
        BY <1>3, <2>1 DEF SameCall
    <2>3. msgs[n + 1] \in Nl!Message
        BY <1>3, n + 1 \in 1..Len(msgs)
    <2>4. SameCall(Nl!Heard(d, msgs[n + 1]), d)
        BY <2>2, <2>3, HeardKeeps
    <2>5. Nl!Upto(c, msgs)[n + 1] = Nl!Heard(d, msgs[n + 1])
        BY <1>1, <1>3, <2>1, UptoStep
    <2>6. SameCall(Nl!Upto(c, msgs)[n + 1], c)
        BY <2>2, <2>4, <2>5 DEF SameCall
    <2>7. QED
        BY <2>6
<1>4. QED
    <2> HIDE DEF T
    <2>1. \A n \in 0..Len(msgs) : n \in T
        BY <1>1, <1>2, <1>3, Counting
    <2>2. QED
        BY <2>1 DEF T

LEMMA HeardStream ==
    ASSUME Nl!NetlinkAssumption, NEW d \in CallSet, HeardOK(d), InfoOK(d), NEW m,
           OwnMsg(d, m, Len(d.heard) + 1)
    PROVE  /\ Len(Nl!Heard(d, m).heard) = Len(d.heard) + 1
           /\ HeardOK(Nl!Heard(d, m)) /\ InfoOK(Nl!Heard(d, m))
<1>1. PICK h \in Nat : h = Len(d.heard)
    BY DEF CallSet
<1>2. /\ m \in LinkMsgs /\ m.req = d.req /\ m.link = h + 1 /\ m.type = "link"
      /\ (d.op = "get_xdp_info" /\ d.link = h + 1) => m.progs \in d.had
    BY <1>1 DEF OwnMsg, LinkMsgs
<1>3. m \in Nl!Message
    BY <1>2 DEF Nl!Message, LinkMsgs, Progs
<1>4. PICK e : e = Nl!Heard(d, m)
    OBVIOUS
<1>5. /\ SameCall(e, d) /\ e.heard = Append(d.heard, m)
      /\ e.info = IF d.op = "get_xdp_info" THEN Nl!get_xdp_info(d, m).info ELSE d.info
    BY <1>2, <1>3, <1>4, HeardKeeps
<1>6. /\ d.heard \in Seq(LinkMsgs) /\ Len(e.heard) = h + 1
      /\ \A n \in 1..h : e.heard[n] = d.heard[n]
      /\ e.heard[h + 1] = m
    BY <1>1, <1>2, <1>5 DEF CallSet
<1>7. HeardOK(e)
    <2>1. ASSUME NEW n \in 1..(h + 1) PROVE e.heard[n].link = n /\ e.heard[n].req = e.req
        <3>1. e.req = d.req
            BY <1>5 DEF SameCall
        <3>2. CASE n \in 1..h
            BY <1>1, <1>6, <3>1, <3>2 DEF HeardOK
        <3>3. CASE n = h + 1
            BY <1>2, <1>6, <3>1, <3>3
        <3>4. QED
            BY <3>2, <3>3
    <2>2. QED
        BY <1>6, <2>1 DEF HeardOK
<1>8. InfoOK(e)
    <2>1. e.op = d.op /\ e.link = d.link /\ e.mode = d.mode /\ e.had = d.had
        BY <1>5 DEF SameCall
    <2>2. SUFFICES ASSUME d.op = "get_xdp_info", d.link # 0
          PROVE  IF d.link <= h + 1
                 THEN \E p \in d.had : Nl!get_xdp_id(e.info, d.mode) = Nl!Truth(p, d.mode)
                 ELSE e.info = NoInfo
        BY <1>6, <2>1 DEF InfoOK
    <2>3. IF d.link <= h THEN \E p \in d.had : Nl!get_xdp_id(d.info, d.mode) = Nl!Truth(p, d.mode)
          ELSE d.info = NoInfo
        BY <1>1, <2>2 DEF InfoOK
    <2>4. e.info = Nl!get_xdp_info(d, m).info
        BY <1>5, <2>2
    <2>5. d.link \in Nat
        BY LinksFinite DEF CallSet
    <2>6. CASE d.link = h + 1
        <3>1. ~(d.link <= h) /\ d.link <= h + 1
            BY <2>6
        <3>2. Nl!get_xdp_id(Nl!get_xdp_info(d, m).info, d.mode) = Nl!Truth(m.progs, d.mode)
            BY <1>2, <2>3, <2>6, <3>1, InfoTrue
        <3>3. m.progs \in d.had
            BY <1>2, <2>2, <2>6
        <3>4. QED
            BY <2>4, <3>1, <3>2, <3>3
    <2>7. CASE d.link # h + 1
        <3>1. Nl!get_xdp_info(d, m) = d
            BY <1>2, <2>2, <2>7, InfoType
        <3>2. d.link <= h + 1 <=> d.link <= h
            BY <2>5, <2>7
        <3>3. QED
            BY <2>3, <2>4, <3>1, <3>2
    <2>8. QED
        BY <2>6, <2>7
<1>9. QED
    BY <1>1, <1>4, <1>6, <1>7, <1>8

LEMMA UptoStream ==
    ASSUME Nl!NetlinkAssumption, NEW c \in CallSet, HeardOK(c), InfoOK(c),
           NEW msgs \in Seq(Nl!Message), \A k \in 1..Len(msgs) :
               OwnMsg(c, msgs[k], Len(c.heard) + k)
    PROVE  \A n \in 0..Len(msgs) :
                /\ Len(Nl!Upto(c, msgs)[n].heard) = Len(c.heard) + n
                /\ HeardOK(Nl!Upto(c, msgs)[n]) /\ InfoOK(Nl!Upto(c, msgs)[n])
<1> DEFINE T == {n \in Nat : /\ Len(Nl!Upto(c, msgs)[n].heard) = Len(c.heard) + n
                             /\ HeardOK(Nl!Upto(c, msgs)[n]) /\ InfoOK(Nl!Upto(c, msgs)[n])}
<1>1. Len(msgs) \in Nat /\ Len(c.heard) \in Nat
    BY DEF CallSet
<1>2. 0 \in T
    <2>1. Nl!Upto(c, msgs)[0] = c
        BY <1>1, UptoStep
    <2>2. QED
        BY <1>1, <2>1
<1>3. ASSUME NEW n \in 0..Len(msgs), n \in T, n < Len(msgs) PROVE n + 1 \in T
    <2>1. PICK d : d = Nl!Upto(c, msgs)[n]
        OBVIOUS
    <2>2. d \in CallSet /\ SameCall(d, c)
        BY <2>1, UptoKeeps DEF SameCall
    <2>3. Len(d.heard) = Len(c.heard) + n /\ HeardOK(d) /\ InfoOK(d)
        BY <1>3, <2>1
    <2>4. OwnMsg(c, msgs[n + 1], Len(c.heard) + (n + 1))
        BY <1>3, n + 1 \in 1..Len(msgs)
    <2>5. Len(c.heard) + (n + 1) = Len(d.heard) + 1
        <3>1. PICK h \in Nat : h = Len(c.heard)
            BY <1>1
        <3>2. n \in Nat /\ Len(d.heard) = h + n
            BY <2>3, <3>1
        <3>3. h + (n + 1) = (h + n) + 1
            BY <3>2
        <3>4. QED
            BY <3>1, <3>2, <3>3
    <2>6. OwnMsg(d, msgs[n + 1], Len(d.heard) + 1)
        BY <2>2, <2>4, <2>5 DEF OwnMsg, SameCall
    <2>7. /\ Len(Nl!Heard(d, msgs[n + 1]).heard) = Len(d.heard) + 1
          /\ HeardOK(Nl!Heard(d, msgs[n + 1])) /\ InfoOK(Nl!Heard(d, msgs[n + 1]))
        BY <2>2, <2>3, <2>6, HeardStream
    <2>8. Nl!Upto(c, msgs)[n + 1] = Nl!Heard(d, msgs[n + 1])
        BY <1>1, <1>3, <2>1, UptoStep
    <2>9. n + 1 \in Nat
        OBVIOUS
    <2>10. QED
        BY <2>5, <2>7, <2>8, <2>9
<1>4. QED
    <2> HIDE DEF T
    <2>1. \A n \in 0..Len(msgs) : n \in T
        BY <1>1, <1>2, <1>3, Counting
    <2>2. QED
        BY <2>1 DEF T

(* What the kernel puts into the next datagram.                              *)
LEMMA NextDatagram ==
    ASSUME Nl!NetlinkAssumption, NlTypes, NEW d \in Nl!Dump, NEW g \in Nl!Datagrams(d)
    PROVE  /\ g.msgs \in Seq(Nl!Message) /\ g.msgs # <<>> /\ g.rest \in Nl!Dump \cup {None}
           /\ IF d.next \in Links
              THEN /\ g.rest \in Nl!Dump /\ g.rest.req = d.req /\ g.rest.seq = d.seq
                   /\ Len(g.msgs) \in Nat /\ d.next + Len(g.msgs) <= Nl!Cardinality(Links) + 1
                   /\ g.rest.next = IF d.next + Len(g.msgs) <= Nl!Cardinality(Links)
                                    THEN d.next + Len(g.msgs) ELSE 0
                   /\ \A k \in 1..Len(g.msgs) : g.msgs[k] = Nl!LinkMsg(d, d.next + k - 1)
              ELSE g.msgs = <<Nl!DoneMsg(d)>> /\ g.rest = None
<1>1. CASE d.next \in Links
    <2>1. PICK N \in Nat : Links = 1..N /\ N = Nl!Cardinality(Links)
        BY LinksFinite DEF Nl!NetlinkAssumption
    <2>2. PICK n \in 1..(N - d.next + 1) :
            g = [msgs |-> [k \in 1..n |-> Nl!LinkMsg(d, d.next + k - 1)],
                 rest |-> IF d.next + n \in Links THEN [d EXCEPT !.next = @ + n]
                          ELSE [d EXCEPT !.next = 0]]
        BY <1>1, <2>1 DEF Nl!Datagrams
    <2>3. d.next \in 1..N /\ n \in Nat /\ n >= 1 /\ d.next + n <= N + 1
        BY <1>1, <2>1
    <2>4. g.msgs = [k \in 1..n |-> Nl!LinkMsg(d, d.next + k - 1)]
        BY <2>2
    <2>5. ASSUME NEW k \in 1..n PROVE Nl!LinkMsg(d, d.next + k - 1) \in Nl!Message
        <3>1. d.next + k - 1 \in Links
            BY <2>1, <2>3
        <3>2. nl_kernel[d.next + k - 1] \in [Modes -> Nat]
            BY <3>1 DEF NlTypes, Progs
        <3>3. QED
            BY <3>1, <3>2 DEF Nl!LinkMsg, Nl!Message, Nl!Dump
    <2>6. g.msgs \in Seq(Nl!Message) /\ Len(g.msgs) = n
        BY <2>3, <2>4, <2>5
    <2>7. g.msgs # <<>>
        BY <2>3, <2>6
    <2>8. \A k \in 1..Len(g.msgs) : g.msgs[k] = Nl!LinkMsg(d, d.next + k - 1)
        BY <2>4, <2>6
    <2>9. PICK x \in Nat : x = IF d.next + n <= N THEN d.next + n ELSE 0
        BY <2>3
    <2>10. g.rest = [d EXCEPT !.next = x]
        <3>1. d.next + n \in Links <=> d.next + n <= N
            BY <2>1, <2>3
        <3>2. QED
            BY <2>2, <2>9, <3>1 DEF Nl!Dump
    <2>11. g.rest \in Nl!Dump /\ g.rest.req = d.req /\ g.rest.seq = d.seq /\ g.rest.next = x
        BY <2>10 DEF Nl!Dump
    <2>12. QED
        BY <1>1, <2>1, <2>3, <2>6, <2>7, <2>8, <2>9, <2>11
<1>2. CASE d.next \notin Links
    <2>1. g = [msgs |-> <<Nl!DoneMsg(d)>>, rest |-> None]
        BY <1>2 DEF Nl!Datagrams
    <2>2. Nl!DoneMsg(d) \in Nl!Message
        BY DEF Nl!DoneMsg, Nl!Message, Nl!Dump
    <2>3. <<Nl!DoneMsg(d)>> \in Seq(Nl!Message) /\ <<Nl!DoneMsg(d)>> # <<>>
        BY <2>2
    <2>4. QED
        BY <1>2, <2>1, <2>3
<1>3. QED
    BY <1>1, <1>2
-----------------------------------------------------------------------------
(* A dump's next datagram, for a call that heard all before it.              *)
LEMMA DumpGoesOn ==
    ASSUME Nl!NetlinkAssumption, NlTypes, NEW N \in Nat, Nl!Cardinality(Links) = N, Links = 1..N,
           NEW h \in Nat, h <= N, NEW c \in CallSet, Len(c.heard) = h,
           NEW d \in Nl!Dump, d.req = c.req, d.seq = c.seq,
           IF h < N THEN d.next = h + 1 ELSE d.next \notin Links,
           (c.op = "get_xdp_info" /\ c.link # 0) => nl_kernel[c.link] \in c.had,
           NEW g \in Nl!Datagrams(d)
    PROVE  IF g.rest = None THEN Over(c, g.msgs) ELSE GoesOn(c, g.msgs, g.rest)
<1>2. CASE h < N
    <2>0. h + 1 \in 1..N
        BY <1>2
    <2>1. d.next = h + 1 /\ d.next \in Links
        BY <1>2, <2>0
    <2>2. /\ g.rest \in Nl!Dump /\ g.rest.req = d.req /\ g.rest.seq = d.seq
          /\ Len(g.msgs) \in Nat /\ d.next + Len(g.msgs) <= N + 1
          /\ g.rest.next = IF d.next + Len(g.msgs) <= N THEN d.next + Len(g.msgs) ELSE 0
          /\ \A k \in 1..Len(g.msgs) : g.msgs[k] = Nl!LinkMsg(d, d.next + k - 1)
        BY <2>1, NextDatagram
    <2>3. g.rest # None
        BY <2>2 DEF Nl!NetlinkAssumption
    <2>9. PICK l \in Nat : l = Len(g.msgs)
        BY <2>2
    <2>4. PICK n \in Nat : n = h + l
        OBVIOUS
    <2>10. d.next + Len(g.msgs) = n + 1
        <3>1. d.next + Len(g.msgs) = (h + 1) + l
            BY <2>1, <2>9
        <3>2. (h + 1) + l = n + 1
            BY <2>4
        <3>3. QED
            BY <3>1, <3>2
    <2>5. n <= N /\ g.rest.next = IF n < N THEN n + 1 ELSE 0
        BY <2>2, <2>4, <2>10
    <2>6. ASSUME NEW k \in 1..Len(g.msgs) PROVE OwnMsg(c, g.msgs[k], h + k)
        <3>1. d.next + k - 1 = h + k /\ h + k \in Links
            BY <2>1, <2>4, <2>5, <2>9
        <3>2. g.msgs[k] = Nl!LinkMsg(d, h + k)
            BY <2>2, <3>1
        <3>3. nl_kernel[h + k] \in Progs
            BY <3>1 DEF NlTypes
        <3>4. QED
            BY <3>1, <3>2, <3>3 DEF OwnMsg, Nl!LinkMsg, LinkMsgs, Nl!Dump
    <2>7. GoesOn(c, g.msgs, g.rest)
        BY <2>2, <2>4, <2>5, <2>6, <2>9 DEF GoesOn
    <2>8. QED
        BY <2>3, <2>7
<1>3. CASE h = N
    <2>1. g.msgs = <<Nl!DoneMsg(d)>> /\ g.rest = None
        BY <1>3, NextDatagram
    <2>2. Over(c, g.msgs)
        BY <1>3, <2>1 DEF Over, Nl!DoneMsg
    <2>3. QED
        BY <2>1, <2>2
<1>4. QED
    BY <1>2, <1>3

LEMMA SocketTypes ==
    ASSUME Nl!NetlinkAssumption, NlInv, NEW s \in Nl!Sockets
    PROVE  /\ NlTypes /\ SocketInv(s)
           /\ nl_socket[s] # None => nl_socket[s] \in Nl!Socket
           /\ nl_call[s] # None => nl_call[s] \in CallSet /\ nl_socket[s] \in Nl!Socket
BY DEF NlInv, NlTypes, SocketInv

(* What a step that does not touch a socket, nor the kernel, leaves of it.   *)
LEMMA SocketStays ==
    ASSUME NEW t, SocketInv(t), nl_call'[t] = nl_call[t], nl_socket'[t] = nl_socket[t],
               reply'[t] = reply[t],
           nl_kernel' = nl_kernel
    PROVE  SocketInv(t)'
BY DEF SocketInv, CallOK

(* A call begins.                                                            *)
BeginsCall(c, op, own, q, r, so) ==
    /\ c \in CallSet /\ c.op = op /\ c.own = own /\ c.seq = q /\ c.req = r /\ c.link = 0
    /\ c.heard = <<>> /\ c.info = NoInfo
    /\ c.clean = (/\ \A k \in 1..Len(so.queue) : \A i \in 1..Len(so.queue[k]) :
                        so.queue[k][i].seq # q
                  /\ so.dump # None => so.dump.seq # q)
LEMMA CallBegins ==
    ASSUME Nl!NetlinkAssumption, NEW op \in Nl!Dumps
               \cup {"set"}, NEW own \in BOOLEAN, NEW q \in Nat,
           NEW r \in Nat, NEW so
    PROVE  BeginsCall(Nl!Calling(op, own, q, r, so), op, own, q, r, so)
<1>1. PICK c : c = Nl!Calling(op, own, q, r, so)
    OBVIOUS
<1>2. /\ c.op = op /\ c.own = own /\ c.seq = q /\ c.req = r /\ c.link = 0 /\ c.mode = None
      /\ c.info = NoInfo /\ c.heard = <<>> /\ c.had = {} /\ c.applied = FALSE
      /\ c.clean = (/\ \A k \in 1..Len(so.queue) : \A i \in 1..Len(so.queue[k]) :
                        so.queue[k][i].seq # q
                    /\ so.dump # None => so.dump.seq # q)
    BY <1>1 DEF Nl!Calling, NoInfo
<1>3. NoInfo \in Infos
    BY DEF NoInfo, Infos, Progs
<1>4. <<>> \in Seq(LinkMsgs) /\ {} \in SUBSET Progs
    OBVIOUS
<1>5. c = [op |-> c.op, own |-> c.own, seq |-> c.seq, req |-> c.req, link |-> c.link,
           mode |-> c.mode, info |-> c.info, heard |-> c.heard, had |-> c.had,
           applied |-> c.applied, clean |-> c.clean]
    BY <1>1 DEF Nl!Calling
<1>6. c.clean \in BOOLEAN
    BY <1>2
<1>7. c \in CallSet
    BY <1>2, <1>3, <1>4, <1>5, <1>6 DEF CallSet
<1>8. BeginsCall(c, op, own, q, r, so)
    BY <1>2, <1>7 DEF BeginsCall
<1>9. QED
    BY <1>1, <1>8

LEMMA OpenedClean ==
    ASSUME Nl!NetlinkAssumption, NEW op \in Nl!Dumps
               \cup {"set"}, NEW own \in BOOLEAN, NEW q \in Nat,
           NEW r \in Nat
    PROVE  Nl!Calling(op, own, q, r, Nl!Opened).clean
<1>1. Nl!Opened.queue = <<>> /\ Nl!Opened.dump = None
    BY DEF Nl!Opened
<1>2. 1..Len(Nl!Opened.queue) = {}
    BY <1>1
<1>3. BeginsCall(Nl!Calling(op, own, q, r, Nl!Opened), op, own, q, r, Nl!Opened)
    BY CallBegins
<1>4. QED
    BY <1>1, <1>2, <1>3 DEF BeginsCall
-----------------------------------------------------------------------------
(* What a call that ends returns, and what one that reads on has read.       *)

LEMMA ReplyEnds ==
    ASSUME Nl!NetlinkAssumption, NEW c \in CallSet, NEW so \in Nl!Socket, CallOK(c, so),
           NEW msgs \in Seq(Nl!Message), msgs # <<>>, so.queue[1] = msgs,
           NEW n \in 1..Len(msgs), NEW stop \in BOOLEAN, NEW ret,
           ret = Nl!Ends(c, msgs[n], stop), ret # None,
           \A k \in 1..(n - 1) : Nl!Ends(c, msgs[k], FALSE) = None,
           stop => Nl!Ends(c, msgs[n], FALSE) = None
    PROVE  ReplyOK([ret |-> ret, call |-> Nl!Upto(c, msgs)[IF stop THEN n ELSE n - 1]])
<1>1. PICK d : d = Nl!Upto(c, msgs)[IF stop THEN n ELSE n - 1]
    OBVIOUS
<1>2. Len(msgs) \in Nat /\ Len(msgs) > 0
    OBVIOUS
<1>3. SameCall(d, c)
    <2>1. (IF stop THEN n ELSE n - 1) \in 0..Len(msgs)
        BY <1>2
    <2>2. QED
        BY <1>1, <2>1, UptoKeeps
<1>4. Nl!Upto(c, msgs)[0] = c
    BY <1>2, UptoStep
<1>5. PICK r : r = [ret |-> ret, call |-> d]
    OBVIOUS
<1>6. r.ret = ret /\ r.call = d
    BY <1>5
<1>7. SUFFICES ReplyOK(r)
    BY <1>1, <1>5
<1>8. CASE ~c.clean
    BY <1>3, <1>6, <1>8 DEF ReplyOK, CallOK, SameCall, CallSet, Nl!Dumps
<1>9. CASE Blocked(c, so)
    <2>1. msgs[1].seq # c.seq /\ c.op # "set" /\ c.heard = <<>>
        BY <1>9 DEF Blocked
    <2>2. Nl!Ends(c, msgs[1], FALSE) = "invseq" /\ Nl!Ends(c, msgs[1], stop) = "invseq"
        BY <2>1 DEF Nl!Ends
    <2>3. "invseq" # None
        BY DEF Nl!NetlinkAssumption
    <2>4. n = 1
        <3>1. n > 1 => 1 \in 1..(n - 1)
            BY <1>2
        <3>2. ~(n > 1)
            BY <2>2, <2>3, <3>1
        <3>3. QED
            BY <1>2, <3>2
    <2>5. ~stop /\ ret = "invseq"
        BY <2>2, <2>3, <2>4
    <2>6. d = c
        BY <1>1, <1>4, <2>4, <2>5
    <2>7. 1..Len(d.heard) = {}
        BY <2>1, <2>6
    <2>8. QED
        BY <1>6, <2>1, <2>5, <2>6, <2>7 DEF ReplyOK
<1>10. CASE Answered(c, so)
    <2>1. /\ c.op = "set" /\ c.heard = <<>>
          /\ msgs = <<Nl!ErrorMsg(c.req, c.seq, ~c.applied)>>
        BY <1>10 DEF Answered
    <2>2. n = 1 /\ msgs[1] = Nl!ErrorMsg(c.req, c.seq, ~c.applied)
        BY <2>1
    <2>3. \A b \in BOOLEAN :
            Nl!Ends(c, msgs[1], b) = IF ~c.applied THEN "error" ELSE None
        BY <2>2 DEF Nl!Ends, Nl!ErrorMsg
    <2>4. ret = "error" /\ ~c.applied
        BY <2>2, <2>3
    <2>5. ~stop
        BY <2>2, <2>3, <2>4
    <2>6. d = c
        BY <1>1, <1>4, <2>2, <2>5
    <2>7. 1..Len(d.heard) = {}
        BY <2>1, <2>6
    <2>8. QED
        BY <1>6, <2>1, <2>4, <2>6, <2>7 DEF ReplyOK
<1>11. CASE Streaming(c, so) /\ so.dump = None
    <2>1. c.op # "set" /\ HeardOK(c) /\ InfoOK(c) /\ Over(c, msgs)
        BY <1>11 DEF Streaming
    <2>2. n = 1 /\ msgs[1].type = "done" /\ msgs[1].seq = c.seq
        BY <1>2, <2>1 DEF Over
    <2>3. Nl!Ends(c, msgs[1], FALSE) = "ok" /\ Nl!Ends(c, msgs[1], stop) = "ok" /\ "ok" # None
        BY <2>2 DEF Nl!Ends, Nl!NetlinkAssumption
    <2>9. ~stop
        BY <2>2, <2>3
    <2>4. d = c
        BY <1>1, <1>4, <2>2, <2>9
    <2>5. Len(c.heard) = Nl!Cardinality(Links)
        BY <2>1 DEF Over
    <2>6. c.op = "get_xdp_info" /\ c.link # 0 =>
            \E p \in c.had : Nl!get_xdp_id(c.info, c.mode) = Nl!Truth(p, c.mode)
        <3>1. c.link # 0 => c.link <= Nl!Cardinality(Links)
            BY LinksFinite DEF CallSet, Nl!NetlinkAssumption
        <3>2. QED
            BY <2>1, <2>5, <3>1 DEF InfoOK
    <2>7. \A k \in 1..Len(c.heard) : c.heard[k].req = c.req
        BY <2>1 DEF HeardOK
    <2>8. QED
        BY <1>6, <2>1, <2>4, <2>5, <2>6, <2>7 DEF ReplyOK
<1>12. CASE Streaming(c, so) /\ so.dump # None
    <2>1. c.op # "set" /\ HeardOK(c) /\ InfoOK(c) /\ GoesOn(c, msgs, so.dump)
        BY <1>12 DEF Streaming
    <2>2. \A k \in 1..Len(msgs) : OwnMsg(c, msgs[k], Len(c.heard) + k)
        BY <2>1 DEF GoesOn
    <2>3. msgs[n].type = "link" /\ msgs[n].seq = c.seq
        BY <2>2 DEF OwnMsg, LinkMsgs
    <2>4. stop /\ ret = "stopped"
        BY <2>3 DEF Nl!Ends
    <2>5. "stopped" # "ok" /\ n \in 0..Len(msgs)
        BY <1>2
    <2>6. HeardOK(d)
        BY <1>1, <2>1, <2>2, <2>4, <2>5, UptoStream
    <2>7. \A k \in 1..Len(d.heard) : d.heard[k].req = d.req
        BY <2>6 DEF HeardOK
    <2>8. d.op # "set"
        BY <1>3, <2>1 DEF SameCall
    <2>9. QED
        BY <1>6, <2>4, <2>7, <2>8 DEF ReplyOK
<1>13. QED
    BY <1>8, <1>9, <1>10, <1>11, <1>12 DEF CallOK

LEMMA ReadsOn ==
    ASSUME Nl!NetlinkAssumption, NlTypes, NEW c \in CallSet, NEW so \in Nl!Socket, CallOK(c, so),
           NEW msgs \in Seq(Nl!Message), msgs # <<>>, so.queue[1] = msgs,
           \A k \in 1..Len(msgs) : Nl!Ends(c, msgs[k], FALSE) = None,
           NEW g, g \in IF so.dump = None THEN {[msgs |-> <<>>, rest |-> None]}
                        ELSE Nl!Datagrams(so.dump),
           NEW left, left = Tail(so.queue) \o (IF g.msgs = <<>> THEN <<>> ELSE <<g.msgs>>)
    PROVE  IF \E k \in 1..Len(msgs) : Nl!Multi(msgs[k])
           THEN CallOK(Nl!Upto(c, msgs)[Len(msgs)], [queue |-> left, dump |-> g.rest])
           ELSE ReplyOK([ret |-> "ok", call |-> Nl!Upto(c, msgs)[Len(msgs)]])
<1>1. PICK d : d = Nl!Upto(c, msgs)[Len(msgs)]
    OBVIOUS
<1>2. Len(msgs) \in Nat /\ Len(msgs) > 0 /\ 1 \in 1..Len(msgs)
    OBVIOUS
<1>3. SameCall(d, c) /\ d \in CallSet
    BY <1>1, <1>2, UptoKeeps DEF SameCall
<1>4. PICK r : r = [ret |-> "ok", call |-> d]
    OBVIOUS
<1>5. r.ret = "ok" /\ r.call = d
    BY <1>4
<1>6. PICK so2 : so2 = [queue |-> left, dump |-> g.rest]
    OBVIOUS
<1>7. so2.queue = left /\ so2.dump = g.rest
    BY <1>6
<1>8. SUFFICES IF \E k \in 1..Len(msgs) : Nl!Multi(msgs[k]) THEN CallOK(d, so2) ELSE ReplyOK(r)
    BY <1>1, <1>4, <1>6
<1>9. CASE ~c.clean
    <2>1. ~d.clean /\ d.op = "get_link"
        BY <1>3, <1>9 DEF CallOK, SameCall, CallSet, Nl!Dumps
    <2>2. QED
        BY <1>5, <2>1 DEF ReplyOK, CallOK, Nl!Dumps
<1>10. CASE Blocked(c, so)
    <2>1. Nl!Ends(c, msgs[1], FALSE) = "invseq"
        BY <1>10 DEF Blocked, Nl!Ends
    <2>2. QED
        BY <1>2, <2>1 DEF Nl!NetlinkAssumption
<1>11. CASE Answered(c, so)
    <2>1. /\ c.op = "set" /\ c.heard = <<>>
          /\ msgs = <<Nl!ErrorMsg(c.req, c.seq, ~c.applied)>>
        BY <1>11 DEF Answered
    <2>2. Len(msgs) = 1 /\ msgs[1] = Nl!ErrorMsg(c.req, c.seq, ~c.applied)
        BY <2>1
    <2>3. c.applied
        <3>1. PICK m : m = msgs[1]
            OBVIOUS
        <3>2. m.type = "error" /\ m.seq = c.seq /\ m.error = ~c.applied
            BY <2>2, <3>1 DEF Nl!ErrorMsg
        <3>3. ~c.applied => Nl!Ends(c, m, FALSE) = "error"
            BY <3>2 DEF Nl!Ends
        <3>4. Nl!Ends(c, m, FALSE) # "error"
            BY <1>2, <3>1 DEF Nl!NetlinkAssumption
        <3>5. QED
            BY <3>3, <3>4
    <2>4. ~ \E k \in 1..Len(msgs) : Nl!Multi(msgs[k])
        BY <2>2 DEF Nl!Multi, Nl!ErrorMsg
    <2>5. d = c
        <3>1. Nl!Upto(c, msgs)[0 + 1] = Nl!Heard(Nl!Upto(c, msgs)[0], msgs[0 + 1])
                  /\ Nl!Upto(c, msgs)[0] = c
            BY <1>2, UptoStep
        <3>2. d = Nl!Heard(c, msgs[1])
            BY <1>1, <2>2, <3>1
        <3>3. QED
            BY <2>2, <3>2 DEF Nl!Heard, Nl!ErrorMsg
    <2>6. 1..Len(d.heard) = {}
        BY <2>1, <2>5
    <2>7. ReplyOK(r)
        BY <1>5, <2>1, <2>3, <2>5, <2>6 DEF ReplyOK, Nl!Dumps
    <2>8. QED
        BY <2>4, <2>7
<1>12. CASE Streaming(c, so) /\ so.dump = None
    <2>1. msgs[1].type = "done" /\ msgs[1].seq = c.seq
        BY <1>12 DEF Streaming, Over
    <2>2. Nl!Ends(c, msgs[1], FALSE) = "ok"
        BY <2>1 DEF Nl!Ends
    <2>3. QED
        BY <1>2, <2>2 DEF Nl!NetlinkAssumption
<1>13. CASE Streaming(c, so) /\ so.dump # None
    <2>1. c.op # "set" /\ HeardOK(c) /\ InfoOK(c) /\ GoesOn(c, msgs, so.dump) /\ Len(so.queue) = 1
        BY <1>13 DEF Streaming
    <2>2. \A k \in 1..Len(msgs) : OwnMsg(c, msgs[k], Len(c.heard) + k)
        BY <2>1 DEF GoesOn
    <2>3. Nl!Multi(msgs[1])
        BY <1>2, <2>2 DEF Nl!Multi, OwnMsg, LinkMsgs
    <2>4. Len(d.heard) = Len(c.heard) + Len(msgs) /\ HeardOK(d) /\ InfoOK(d)
        <3>1. Len(msgs) \in 0..Len(msgs)
            BY <1>2
        <3>2. QED
            BY <1>1, <2>1, <2>2, <3>1, UptoStream
    <2>5. PICK N \in Nat : Nl!Cardinality(Links) = N /\ Links = 1..N
        BY LinksFinite DEF Nl!NetlinkAssumption
    <2>6. PICK h \in Nat : h = Len(d.heard)
        BY <1>3 DEF CallSet
    <2>7. /\ so.dump \in Nl!Dump /\ so.dump.req = c.req /\ so.dump.seq = c.seq
          /\ h <= N /\ so.dump.next = IF h < N THEN h + 1 ELSE 0
        BY <2>1, <2>4, <2>5, <2>6 DEF GoesOn
    <2>8. g \in Nl!Datagrams(so.dump)
        BY <1>13
    <2>9. d.req = c.req /\ d.seq = c.seq /\ d.op = c.op /\ d.link = c.link /\ d.had = c.had
          /\ d.clean = c.clean
        BY <1>3 DEF SameCall
    <2>10. IF g.rest = None THEN Over(d, g.msgs) ELSE GoesOn(d, g.msgs, g.rest)
        <3>1. IF h < N THEN so.dump.next = h + 1 ELSE so.dump.next \notin Links
            BY <2>5, <2>7
        <3>2. (d.op = "get_xdp_info" /\ d.link # 0) => nl_kernel[d.link] \in d.had
            BY <2>9 DEF CallOK
        <3>3. QED
            BY <1>3, <2>5, <2>6, <2>7, <2>8, <2>9, <3>1, <3>2, DumpGoesOn
    <2>11. left = <<g.msgs>>
        <3>1. g.msgs # <<>>
            BY <2>7, <2>8, NextDatagram
        <3>2. PICK q \in Seq(Seq(Nl!Message)) : q = so.queue
            BY DEF Nl!Socket
        <3>3. q # <<>> /\ Len(q) = 1
            BY <2>1, <3>2
        <3>4. Tail(q) \in Seq(Seq(Nl!Message)) /\ Len(Tail(q)) = 0
            BY <3>3, HeadTailProperties
        <3>5. Tail(q) = <<>>
            BY <3>4, EmptySeq
        <3>6. left = <<>> \o <<g.msgs>>
            BY <3>1, <3>2, <3>5
        <3>7. g.msgs \in Seq(Nl!Message)
            BY <2>7, <2>8, NextDatagram
        <3>8. <<g.msgs>> \in Seq(Seq(Nl!Message))
            BY <3>7
        <3>9. QED
            BY <3>6, <3>8, ConcatEmptySeq
    <2>12. Len(left) = 1 /\ left[1] = g.msgs
        <3>1. \A x : Len(<<x>>) = 1 /\ <<x>>[1] = x
            OBVIOUS
        <3>2. QED
            BY <2>11, <3>1
    <2>13. Streaming(d, so2)
        BY <1>7, <2>1, <2>4, <2>9, <2>10, <2>12 DEF Streaming
    <2>14. CallOK(d, so2)
        BY <2>9, <2>13 DEF CallOK
    <2>15. QED
        BY <1>2, <2>3, <2>14
<1>14. QED
    BY <1>9, <1>10, <1>11, <1>12, <1>13 DEF CallOK
-----------------------------------------------------------------------------
(* The steps.                                                                *)

(* A step on one socket that leaves the kernel's interfaces alone.           *)
LEMMA OneSocket ==
    ASSUME Nl!NetlinkAssumption, NlInv, NEW s \in Nl!Sockets, nl_kernel' = nl_kernel,
           nl_now' \in Nat \ {0}, nl_requests' \in Nat,
           NEW c \in CallSet \cup {None}, NEW so \in Nl!Socket \cup {None}, NEW r,
           nl_call' = [nl_call EXCEPT ![s] = c], nl_socket' = [nl_socket EXCEPT ![s] = so],
           reply' = [reply EXCEPT ![s] = r],
           c # None => so # None /\ CallOK(c, so),
           so # None => QueueOK(so), r # None => ReplyOK(r)
    PROVE  NlInv'
<1>1. NlTypes /\ reply = [t \in Nl!Sockets |-> reply[t]] /\ \A t \in Nl!Sockets : SocketInv(t)
    BY DEF NlInv
<1>2. /\ nl_call'[s] = c /\ nl_socket'[s] = so /\ reply'[s] = r
      /\ \A t \in Nl!Sockets : t # s =>
            nl_call'[t] = nl_call[t] /\ nl_socket'[t] = nl_socket[t] /\ reply'[t] = reply[t]
    BY <1>1 DEF NlTypes
<1>3. NlTypes'
    BY <1>1 DEF NlTypes
<1>4. reply' = [t \in Nl!Sockets |-> reply'[t]]
    BY <1>1
<1>5. ASSUME NEW t \in Nl!Sockets PROVE SocketInv(t)'
    <2>1. CASE t = s
        BY <1>2, <2>1 DEF SocketInv, CallOK
    <2>2. CASE t # s
        BY <1>1, <1>2, <2>2, SocketStays
    <2>3. QED
        BY <2>1, <2>2
<1>6. QED
    BY <1>3, <1>4, <1>5 DEF NlInv

LEMMA NoCall ==
    ASSUME Nl!NetlinkAssumption, NlInv, NEW s \in Nl!Sockets
    PROVE  /\ nl_socket[s] = None => nl_call[s] = None
           /\ nl_call = [nl_call EXCEPT ![s] = nl_call[s]]
                  /\ nl_socket = [nl_socket EXCEPT ![s] = nl_socket[s]]
           /\ nl_now \in Nat \ {0} /\ nl_requests \in Nat
BY SocketTypes DEF NlTypes, SocketInv

LEMMA NlOpenStep ==
    ASSUME Nl!NetlinkAssumption, NlInv, NEW s \in Nl!Sockets, Nl!libbpf_netlink_open(s)
    PROVE NlInv'
<1>1. /\ nl_socket[s] = None /\ nl_socket' = [nl_socket EXCEPT ![s] = Nl!Opened]
      /\ reply' = [reply EXCEPT ![s] = None]
             /\ UNCHANGED <<nl_kernel, nl_now, nl_call, nl_requests>>
    BY DEF Nl!libbpf_netlink_open
<1>2. Nl!Opened \in Nl!Socket /\ QueueOK(Nl!Opened)
    <2>1. <<>> \in Seq(Seq(Nl!Message)) /\ Len(<<>>) = 0
        OBVIOUS
    <2>2. QED
        BY <2>1 DEF Nl!Opened, Nl!Socket, QueueOK
<1>3. nl_call' = [nl_call EXCEPT ![s] = None]
    BY <1>1, NoCall
<1>4. QED
    BY <1>1, <1>2, <1>3, NoCall, OneSocket

LEMMA NlCloseStep ==
    ASSUME Nl!NetlinkAssumption, NlInv, NEW s \in Nl!Sockets, Nl!CloseSocket(s) PROVE NlInv'
<1>1. /\ nl_call[s] = None /\ nl_socket' = [nl_socket EXCEPT ![s] = None]
      /\ reply' = [reply EXCEPT ![s] = None]
             /\ UNCHANGED <<nl_kernel, nl_now, nl_call, nl_requests>>
    BY DEF Nl!CloseSocket
<1>2. nl_call' = [nl_call EXCEPT ![s] = None]
    BY <1>1, NoCall
<1>3. QED
    BY <1>1, <1>2, NoCall, OneSocket

(* A dump starts for a call that asks.                                       *)
LEMMA StreamStarts ==
    ASSUME Nl!NetlinkAssumption, NlTypes, NEW c \in CallSet, c.op # "set", c.heard = <<>>,
           c.info = NoInfo, (c.op = "get_xdp_info" /\ c.link # 0) => nl_kernel[c.link] \in c.had,
           NEW g \in Nl!Datagrams([req |-> c.req, seq |-> c.seq, next |-> 1]),
           NEW so, so = [queue |-> <<g.msgs>>, dump |-> g.rest]
    PROVE  so \in Nl!Socket /\ QueueOK(so) /\ Streaming(c, so)
<1>1. PICK d : d = [req |-> c.req, seq |-> c.seq, next |-> 1]
    OBVIOUS
<1>2. d \in Nl!Dump /\ d.req = c.req /\ d.seq = c.seq /\ d.next = 1 /\ g \in Nl!Datagrams(d)
    BY <1>1 DEF Nl!Dump, CallSet
<1>3. g.msgs \in Seq(Nl!Message) /\ g.msgs # <<>> /\ g.rest \in Nl!Dump \cup {None}
    BY <1>2, NextDatagram
<1>4. PICK q : q = <<g.msgs>>
    OBVIOUS
<1>5. q \in Seq(Seq(Nl!Message)) /\ Len(q) = 1 /\ q[1] = g.msgs /\ q # <<>>
    BY <1>3, <1>4
<1>6. so.queue = q /\ so.dump = g.rest /\ so = [queue |-> q, dump |-> g.rest]
    BY <1>4
<1>7. so \in Nl!Socket
    BY <1>3, <1>5, <1>6 DEF Nl!Socket
<1>8. QueueOK(so)
    BY <1>3, <1>5, <1>6 DEF QueueOK
<1>9. PICK N \in Nat : Nl!Cardinality(Links) = N /\ Links = 1..N
    BY LinksFinite DEF Nl!NetlinkAssumption
<1>10. Len(c.heard) = 0
    OBVIOUS
<1>11. IF g.rest = None THEN Over(c, g.msgs) ELSE GoesOn(c, g.msgs, g.rest)
    <2>1. IF 0 < N THEN d.next = 0 + 1 ELSE d.next \notin Links
        BY <1>2, <1>9
    <2>2. 0 \in Nat /\ 0 <= N
        BY <1>9
    <2>3. QED
        BY <1>2, <1>9, <1>10, <2>1, <2>2, DumpGoesOn
<1>12. HeardOK(c) /\ InfoOK(c)
    <2>1. 1..Len(c.heard) = {}
        BY <1>10
    <2>2. c.link \in Nat
        BY LinksFinite DEF CallSet
    <2>3. c.link # 0 => ~(c.link <= Len(c.heard))
        BY <1>10, <2>2
    <2>4. QED
        BY <2>1, <2>3 DEF HeardOK, InfoOK
<1>13. QED
    BY <1>5, <1>6, <1>7, <1>8, <1>11, <1>12 DEF Streaming

Appended(so2, so, msgs, d) ==
    /\ so2 \in Nl!Socket /\ QueueOK(so2) /\ so2.queue # <<>>
    /\ so.queue # <<>> => so2.queue[1] = so.queue[1]
    /\ so.queue = <<>> => so2 = [queue |-> <<msgs>>, dump |-> d]
LEMMA QueueAppend ==
    ASSUME Nl!NetlinkAssumption, NEW so \in Nl!Socket, QueueOK(so), NEW msgs \in Seq(Nl!Message),
           msgs # <<>>, NEW d \in Nl!Dump \cup {None}, NEW so2,
           so2 = [queue |-> Append(so.queue, msgs), dump |-> d]
    PROVE  Appended(so2, so, msgs, d)
<1>1. PICK q \in Seq(Seq(Nl!Message)) : q = so.queue
    BY DEF Nl!Socket
<1>2. PICK q2 : q2 = Append(q, msgs)
    OBVIOUS
<1>3. /\ q2 \in Seq(Seq(Nl!Message)) /\ q2 # <<>> /\ Len(q2) = Len(q) + 1
      /\ \A i \in 1..Len(q) : q2[i] = q[i]
      /\ q2[Len(q) + 1] = msgs
    BY <1>2, AppendProperties
<1>4. so2.queue = q2 /\ so2.dump = d /\ so2 = [queue |-> q2, dump |-> d]
    BY <1>1, <1>2
<1>5. Len(q) \in Nat
    OBVIOUS
<1>6. \A k \in 1..Len(q2) : q2[k] # <<>>
    <2>1. ASSUME NEW k \in 1..Len(q2) PROVE k \in 1..Len(q) \/ k = Len(q) + 1
        BY <1>3, <1>5
    <2>2. \A k \in 1..Len(q) : q[k] # <<>>
        BY <1>1 DEF QueueOK
    <2>3. QED
        BY <1>3, <2>1, <2>2
<1>7. so2 \in Nl!Socket /\ QueueOK(so2)
    BY <1>3, <1>4, <1>6 DEF Nl!Socket, QueueOK
<1>8. q # <<>> => q2[1] = q[1]
    <2>1. q # <<>> => 1 \in 1..Len(q)
        BY EmptySeq, <1>5
    <2>2. QED
        BY <1>3, <2>1
<1>9. q = <<>> => q2 = <<msgs>>
    BY <1>2
<1>10. QED
    BY <1>1, <1>3, <1>4, <1>7, <1>8, <1>9 DEF Appended

LEMMA GetStep ==
    ASSUME Nl!NetlinkAssumption, NlInv, NEW s \in Nl!Sockets, Nl!libbpf_nl_get(s) PROVE NlInv'
<1>1. /\ nl_socket[s] # None /\ nl_call[s] = None /\ nl_requests' = nl_requests + 1
      /\ nl_call' = [nl_call EXCEPT ![s] = Nl!Calling("get_link", FALSE, nl_now, nl_requests',
             nl_socket[s])]
      /\ Nl!StartDump(s, nl_requests', nl_now)
      /\ reply' = [reply EXCEPT ![s] = None]
      /\ UNCHANGED <<nl_kernel, nl_now>>
    BY DEF Nl!libbpf_nl_get, Nl!Request
<1>2. /\ NlTypes /\ SocketInv(s) /\ nl_socket[s] \in Nl!Socket /\ QueueOK(nl_socket[s])
      /\ nl_now \in Nat \ {0} /\ nl_requests \in Nat
    BY <1>1, SocketTypes, NoCall DEF SocketInv
<1>3. PICK r \in Nat : r = nl_requests'
    BY <1>1, <1>2
<1>4. PICK q \in Nat : q = nl_now
    BY <1>2
<1>5. PICK so \in Nl!Socket : so = nl_socket[s]
    BY <1>2
<1>6. PICK c : c = Nl!Calling("get_link", FALSE, q, r, so)
    OBVIOUS
<1>7. /\ c \in CallSet /\ c.op = "get_link" /\ c.seq = q /\ c.req = r /\ c.link = 0
      /\ c.heard = <<>> /\ c.info = NoInfo
      /\ c.clean = (/\ \A k \in 1..Len(so.queue) : \A i \in 1..Len(so.queue[k]) :
                          so.queue[k][i].seq # q
                    /\ so.dump # None => so.dump.seq # q)
    <2>1. "get_link" \in Nl!Dumps \cup {"set"} /\ FALSE \in BOOLEAN
        BY DEF Nl!Dumps
    <2>2. PICK op \in Nl!Dumps \cup {"set"} : op = "get_link"
        BY <2>1
    <2>3. PICK own \in BOOLEAN : own = FALSE
        BY <2>1
    <2>4. c = Nl!Calling(op, own, q, r, so)
        BY <1>6, <2>2, <2>3
    <2>5. BeginsCall(c, op, own, q, r, so)
        BY <2>4, CallBegins
    <2>6. QED
        BY <2>2, <2>5 DEF BeginsCall
<1>8. QueueOK(so)
    BY <1>2, <1>5
<1>9. \E so2 \in Nl!Socket :
        /\ nl_socket' = [nl_socket EXCEPT ![s] = so2] /\ QueueOK(so2)
        /\ IF so.queue # <<>> THEN so2.queue # <<>> /\ so2.queue[1] = so.queue[1]
           ELSE Streaming(c, so2)
    <2>1. CASE so.dump # None
        <3>1. PICK e : e = Nl!ErrorMsg(r, q, TRUE)
            OBVIOUS
        <3>2. e \in Nl!Message
            BY <3>1 DEF Nl!ErrorMsg, Nl!Message
        <3>3. <<e>> \in Seq(Nl!Message) /\ <<e>> # <<>>
            BY <3>2
        <3>4. PICK so2 : so2 = [queue |-> Append(so.queue, <<e>>), dump |-> so.dump]
            OBVIOUS
        <3>5. nl_socket' = [nl_socket EXCEPT ![s].queue = Append(@, <<Nl!ErrorMsg(r, q, TRUE)>>)]
            BY <1>1, <1>3, <1>4, <1>5, <2>1 DEF Nl!StartDump
        <3>6. nl_socket' = [nl_socket EXCEPT ![s] = [so EXCEPT !.queue = Append(so.queue, <<e>>)]]
            BY <1>5, <3>1, <3>5
        <3>7. so2 = [so EXCEPT !.queue = Append(so.queue, <<e>>)]
            <4>1. PICK q2 : q2 = Append(so.queue, <<e>>)
                OBVIOUS
            <4>2. [queue |-> q2, dump |-> so.dump] = [so EXCEPT !.queue = q2]
                BY DEF Nl!Socket
            <4>3. QED
                BY <3>4, <4>1, <4>2
        <3>8. PICK d \in Nl!Dump \cup {None} : d = so.dump
            BY DEF Nl!Socket
        <3>9. so2 \in Nl!Socket /\ QueueOK(so2) /\ so2.queue # <<>>
              /\ (so.queue # <<>> => so2.queue[1] = so.queue[1])
            <4>1. so2 = [queue |-> Append(so.queue, <<e>>), dump |-> d]
                BY <3>4, <3>8
            <4>2. PICK l \in Seq(Nl!Message) : l = <<e>> /\ l # <<>>
                BY <3>3
            <4>3. so2 = [queue |-> Append(so.queue, l), dump |-> d]
                BY <4>1, <4>2
            <4>4. Appended(so2, so, l, d)
                BY <1>8, <4>2, <4>3, QueueAppend
            <4>5. QED
                BY <4>4 DEF Appended
        <3>10. so.queue # <<>>
            BY <1>8, <2>1 DEF QueueOK
        <3>11. QED
            BY <3>6, <3>7, <3>9, <3>10
    <2>2. CASE so.dump = None
        <3>1. PICK g \in Nl!Datagrams([req |-> r, seq |-> q, next |-> 1]) :
                nl_socket' = [nl_socket EXCEPT ![s] = [queue |-> Append(@.queue, g.msgs),
                    dump |-> g.rest]]
            BY <1>1, <1>3, <1>4, <1>5, <2>2 DEF Nl!StartDump
        <3>2. PICK so2 : so2 = [queue |-> Append(so.queue, g.msgs), dump |-> g.rest]
            OBVIOUS
        <3>3. nl_socket' = [nl_socket EXCEPT ![s] = so2]
            BY <1>5, <3>1, <3>2
        <3>4. [req |-> r, seq |-> q, next |-> 1] \in Nl!Dump
            BY DEF Nl!Dump
        <3>5. g.msgs \in Seq(Nl!Message) /\ g.msgs # <<>> /\ g.rest \in Nl!Dump \cup {None}
            BY <1>2, <3>4, NextDatagram
        <3>6. /\ so2 \in Nl!Socket /\ QueueOK(so2) /\ so2.queue # <<>>
              /\ so.queue # <<>> => so2.queue[1] = so.queue[1]
              /\ so.queue = <<>> => so2 = [queue |-> <<g.msgs>>, dump |-> g.rest]
            <4>1. Appended(so2, so, g.msgs, g.rest)
                BY <1>8, <3>2, <3>5, QueueAppend
            <4>2. QED
                BY <4>1 DEF Appended
        <3>7. so.queue = <<>> => Streaming(c, so2)
            <4>1. g \in Nl!Datagrams([req |-> c.req, seq |-> c.seq, next |-> 1])
                BY <1>7
            <4>2. c.op # "set" /\ c.op # "get_xdp_info"
                BY <1>7
            <4>3. QED
                BY <1>2, <1>7, <3>6, <4>1, <4>2, StreamStarts
        <3>8. QED
            BY <3>3, <3>6, <3>7
    <2>3. QED
        BY <2>1, <2>2
<1>10. PICK so2 \in Nl!Socket :
        /\ nl_socket' = [nl_socket EXCEPT ![s] = so2] /\ QueueOK(so2)
        /\ IF so.queue # <<>> THEN so2.queue # <<>> /\ so2.queue[1] = so.queue[1]
           ELSE Streaming(c, so2)
    BY <1>9
<1>11. c.clean /\ so.queue # <<>> => Blocked(c, so2)
    <2>1. SUFFICES ASSUME c.clean, so.queue # <<>> PROVE so.queue[1][1].seq # q
        BY <1>7, <1>10 DEF Blocked
    <2>2. so.queue \in Seq(Seq(Nl!Message))
        BY DEF Nl!Socket
    <2>3. Len(so.queue) \in Nat \ {0} /\ 1 \in 1..Len(so.queue)
        BY <2>1, <2>2, EmptySeq
    <2>4. so.queue[1] \in Seq(Nl!Message) /\ so.queue[1] # <<>>
        BY <1>8, <2>2, <2>3 DEF QueueOK
    <2>5. Len(so.queue[1]) \in Nat \ {0}
        BY <2>4, EmptySeq
    <2>6. 1 \in 1..Len(so.queue[1])
        BY <2>5
    <2>7. QED
        BY <1>7, <2>1, <2>3, <2>6
<1>12. CallOK(c, so2)
    BY <1>7, <1>10, <1>11 DEF CallOK
<1>13. nl_call' = [nl_call EXCEPT ![s] = c]
    BY <1>1, <1>3, <1>4, <1>5, <1>6
<1>14. so2 # None
    BY DEF Nl!NetlinkAssumption
<1>15. nl_requests' \in Nat /\ nl_now' \in Nat \ {0} /\ nl_kernel' = nl_kernel
    BY <1>1, <1>2
<1>16. QED
    BY <1>1, <1>7, <1>10, <1>12, <1>13, <1>14, <1>15, OneSocket
-----------------------------------------------------------------------------
(* What a query could answer grows with the kernel's changes.                *)
LEMMA WitnessKeeps ==
    ASSUME Nl!NetlinkAssumption, NEW c \in CallSet, c # None, NEW so, CallOK(c, so),
           NEW k \in [Links -> Progs], nl_kernel' = k, NEW d, d = Nl!Witnessed(c, k)
    PROVE  d \in CallSet /\ CallOK(d, so)'
<1>1. CASE c.op # "get_xdp_info" \/ c.link = 0
    <2>1. d = c
        BY <1>1 DEF Nl!Witnessed
    <2>2. QED
        BY <1>1, <2>1 DEF CallOK
<1>2. CASE ~(c.op # "get_xdp_info" \/ c.link = 0)
    <2>1. c.op = "get_xdp_info" /\ c.link \in Links
        BY <1>2 DEF CallSet
    <2>2. PICK p \in Progs : p = k[c.link]
        BY <2>1
    <2>3. PICK h \in SUBSET Progs : h = c.had \cup {p}
        BY DEF CallSet
    <2>4. d = [c EXCEPT !.had = h]
        BY <1>2, <2>2, <2>3 DEF Nl!Witnessed
    <2>5. d \in CallSet
        BY <2>4 DEF CallSet
    <2>6. /\ d.op = c.op /\ d.seq = c.seq /\ d.req = c.req /\ d.link = c.link /\ d.mode = c.mode
          /\ d.info = c.info /\ d.heard = c.heard /\ d.applied = c.applied /\ d.clean = c.clean
          /\ d.had = h
        BY <2>4 DEF CallSet
    <2>7. c.had \subseteq d.had /\ p \in d.had
        BY <2>3, <2>6
    <2>8. \A m, i : OwnMsg(c, m, i) => OwnMsg(d, m, i)
        BY <2>6, <2>7 DEF OwnMsg
    <2>9. \A g, e : GoesOn(c, g, e) => GoesOn(d, g, e)
        BY <2>6, <2>8 DEF GoesOn
    <2>10. HeardOK(c) => HeardOK(d)
        BY <2>6 DEF HeardOK
    <2>11. InfoOK(c) => InfoOK(d)
        BY <2>6, <2>7 DEF InfoOK
    <2>12. Streaming(c, so) => Streaming(d, so)
        BY <2>6, <2>9, <2>10, <2>11 DEF Streaming, Over
    <2>13. Blocked(c, so) => Blocked(d, so)
        BY <2>6 DEF Blocked
    <2>14. ~Answered(c, so)
        BY <2>1 DEF Answered
    <2>15. nl_kernel'[d.link] \in d.had
        BY <2>2, <2>6, <2>7
    <2>16. CallOK(d, so)'
        BY <2>6, <2>12, <2>13, <2>14, <2>15 DEF CallOK
    <2>17. QED
        BY <2>5, <2>16
<1>3. QED
    BY <1>1, <1>2

(* A call's arguments.                                                       *)
AskedFor(d, c, i, m, h, a) ==
    /\ d \in CallSet /\ d.op = c.op /\ d.own = c.own /\ d.seq = c.seq /\ d.req = c.req
    /\ d.link = i /\ d.mode = m /\ d.had = h /\ d.applied = a
    /\ d.info = c.info /\ d.heard = c.heard /\ d.clean = c.clean
LEMMA Asks ==
    ASSUME NEW c \in CallSet, NEW i \in Links \cup {0}, NEW m \in Modes \cup {None},
           NEW h \in SUBSET Progs, NEW a \in BOOLEAN, NEW d,
           \/ d = [c EXCEPT !.link = i, !.mode = m, !.had = h] /\ a = c.applied
           \/ d = [c EXCEPT !.link = i, !.mode = m, !.applied = a] /\ h = c.had
    PROVE  AskedFor(d, c, i, m, h, a)
<1>1. CASE d = [c EXCEPT !.link = i, !.mode = m, !.had = h] /\ a = c.applied
    BY <1>1 DEF CallSet, AskedFor
<1>2. CASE d = [c EXCEPT !.link = i, !.mode = m, !.applied = a] /\ h = c.had
    BY <1>2 DEF CallSet, AskedFor
<1>3. QED
    BY <1>1, <1>2

LEMMA InfoStep ==
    ASSUME Nl!NetlinkAssumption, NlInv, NEW s \in Nl!Sockets, Nl!bpf_get_link_xdp_info(s)
    PROVE NlInv'
<1>1. /\ nl_socket[s] = None /\ nl_requests' = nl_requests + 1
             /\ reply' = [reply EXCEPT ![s] = None]
      /\ UNCHANGED <<nl_kernel, nl_now>>
    BY DEF Nl!bpf_get_link_xdp_info, Nl!Request
<1>2. NlTypes /\ nl_now \in Nat \ {0} /\ nl_requests \in Nat
    BY SocketTypes, NoCall
<1>3. PICK r \in Nat : r = nl_requests'
    BY <1>1, <1>2
<1>4. PICK q \in Nat : q = nl_now
    BY <1>2
<1>5. PICK i \in Links \cup {0}, m \in Modes \cup {None},
           g \in Nl!Datagrams([req |-> r, seq |-> q, next |-> 1]) :
        /\ nl_call' = [nl_call EXCEPT ![s] = [Nl!Calling("get_xdp_info", TRUE, q, r,
               Nl!Opened) EXCEPT
                        !.link = i, !.mode = m,
                        !.had = IF i = 0 THEN {} ELSE {nl_kernel[i]}]]
        /\ nl_socket' = [nl_socket EXCEPT ![s] = [queue |-> <<g.msgs>>, dump |-> g.rest]]
    <2>1. PICK i \in Links \cup {0}, m \in Modes \cup {None},
               g \in Nl!Datagrams([req |-> nl_requests', seq |-> nl_now, next |-> 1]) :
            /\ nl_call' = [nl_call EXCEPT ![s] = [Nl!Calling("get_xdp_info", TRUE, nl_now,
                   nl_requests', Nl!Opened)
                            EXCEPT !.link = i, !.mode = m,
                                   !.had = IF i = 0 THEN {} ELSE {nl_kernel[i]}]]
            /\ nl_socket' = [nl_socket EXCEPT ![s] = [queue |-> <<g.msgs>>, dump |-> g.rest]]
        BY DEF Nl!bpf_get_link_xdp_info
    <2>2. g \in Nl!Datagrams([req |-> r, seq |-> q, next |-> 1])
        BY <1>3, <1>4
    <2>3. nl_call' = [nl_call EXCEPT ![s] = [Nl!Calling("get_xdp_info", TRUE, q, r, Nl!Opened)
                            EXCEPT !.link = i, !.mode = m,
                                   !.had = IF i = 0 THEN {} ELSE {nl_kernel[i]}]]
        BY <1>3, <1>4, <2>1
    <2>4. QED
        BY <2>1, <2>2, <2>3
<1>6. PICK h \in SUBSET Progs : h = IF i = 0 THEN {} ELSE {nl_kernel[i]}
    <2>1. i # 0 => nl_kernel[i] \in Progs
        BY <1>2 DEF NlTypes
    <2>2. QED
        BY <2>1
<1>7. PICK b : b = Nl!Calling("get_xdp_info", TRUE, q, r, Nl!Opened)
    OBVIOUS
<1>8. PICK op \in Nl!Dumps \cup {"set"}, own \in BOOLEAN : op = "get_xdp_info" /\ own = TRUE
    BY DEF Nl!Dumps
<1>9. BeginsCall(b, op, own, q, r, Nl!Opened) /\ b.clean
    <2>1. b = Nl!Calling(op, own, q, r, Nl!Opened)
        BY <1>7, <1>8
    <2>2. QED
        BY <2>1, CallBegins, OpenedClean
<1>10. /\ b \in CallSet /\ b.op = op /\ b.seq = q /\ b.req = r /\ b.heard = <<>>
              /\ b.info = NoInfo
       /\ b.applied \in BOOLEAN
    BY <1>9 DEF BeginsCall, CallSet
<1>11. PICK c : c = [b EXCEPT !.link = i, !.mode = m, !.had = h]
    OBVIOUS
<1>12. /\ c \in CallSet /\ c.op = b.op /\ c.own = b.own /\ c.seq = b.seq /\ c.req = b.req
       /\ c.link = i /\ c.mode = m /\ c.had = h
       /\ c.info = b.info /\ c.heard = b.heard /\ c.clean = b.clean
    <2>1. PICK a \in BOOLEAN : a = b.applied
        BY <1>10
    <2>2. AskedFor(c, b, i, m, h, a)
        BY <1>10, <1>11, <2>1, Asks
    <2>3. QED
        BY <2>2 DEF AskedFor
<1>13. PICK so : so = [queue |-> <<g.msgs>>, dump |-> g.rest]
    OBVIOUS
<1>14. i # 0 => nl_kernel[i] \in c.had
    BY <1>6, <1>12
<1>15. so \in Nl!Socket /\ QueueOK(so) /\ Streaming(c, so)
    <2>1. g \in Nl!Datagrams([req |-> c.req, seq |-> c.seq, next |-> 1])
        BY <1>10, <1>12
    <2>2. c.op # "set" /\ c.heard = <<>> /\ c.info = NoInfo
        BY <1>8, <1>10, <1>12
    <2>3. QED
        BY <1>2, <1>12, <1>13, <1>14, <2>1, <2>2, StreamStarts
<1>16. CallOK(c, so)
    BY <1>9, <1>12, <1>14, <1>15 DEF CallOK
<1>17. nl_call' = [nl_call EXCEPT ![s] = c] /\ nl_socket' = [nl_socket EXCEPT ![s] = so]
    BY <1>5, <1>6, <1>7, <1>11, <1>13
<1>18. so # None
    BY <1>15 DEF Nl!NetlinkAssumption
<1>19. nl_requests' \in Nat /\ nl_now' \in Nat \ {0} /\ nl_kernel' = nl_kernel
    BY <1>1, <1>2
<1>20. QED
    BY <1>1, <1>12, <1>15, <1>16, <1>17, <1>18, <1>19, OneSocket

LEMMA SetStep ==
    ASSUME Nl!NetlinkAssumption, NlInv, NEW s \in Nl!Sockets, Nl!bpf_set_link_xdp_fd(s)
    PROVE NlInv'
<1>1. /\ NlTypes /\ nl_now \in Nat \ {0} /\ nl_requests \in Nat /\ nl_socket[s] = None
             /\ nl_call[s] = None
      /\ nl_call = [nl_call EXCEPT ![s] = None] /\ nl_socket = [nl_socket EXCEPT ![s] = None]
    BY SocketTypes, NoCall DEF Nl!bpf_set_link_xdp_fd
<1>2. PICK op \in Nl!Dumps \cup {"set"}, own \in BOOLEAN : op = "set" /\ own = TRUE
    OBVIOUS
<1>3. CASE Nl!Fault /\ UNCHANGED <<nl_kernel, nl_now, nl_socket, nl_call, nl_requests>>
           /\ reply' = [reply EXCEPT ![s] =
                [ret |-> "failed", call |-> Nl!Calling("set", TRUE, 1, 0, Nl!Opened)]]
    <2>1. PICK b : b = Nl!Calling("set", TRUE, 1, 0, Nl!Opened)
        OBVIOUS
    <2>2. BeginsCall(b, op, own, 1, 0, Nl!Opened)
        <3>1. b = Nl!Calling(op, own, 1, 0, Nl!Opened)
            BY <1>2, <2>1
        <3>2. QED
            BY <3>1, CallBegins
    <2>3. PICK r : r = [ret |-> "failed", call |-> b]
        OBVIOUS
    <2>4. r.ret = "failed" /\ r.call = b /\ b.op = "set" /\ b.heard = <<>>
        BY <1>2, <2>2, <2>3 DEF BeginsCall
    <2>5. 1..Len(b.heard) = {}
        BY <2>4
    <2>6. ReplyOK(r)
        BY <2>4, <2>5 DEF ReplyOK, Nl!Dumps
    <2>7. /\ reply' = [reply EXCEPT ![s] = r] /\ nl_call' = [nl_call EXCEPT ![s] = None]
          /\ nl_socket' = [nl_socket EXCEPT ![s] = None]
          /\ nl_kernel' = nl_kernel /\ nl_now' \in Nat \ {0} /\ nl_requests' \in Nat
        BY <1>1, <1>3, <2>1, <2>3
    <2>8. QED
        BY <2>6, <2>7, OneSocket
<1>4. CASE ~(Nl!Fault /\ UNCHANGED <<nl_kernel, nl_now, nl_socket, nl_call, nl_requests>>
             /\ reply' = [reply EXCEPT ![s] =
                  [ret |-> "failed", call |-> Nl!Calling("set", TRUE, 1, 0, Nl!Opened)]])
    <2>1. Nl!Request /\ UNCHANGED <<nl_now, nl_faults>> /\ reply' = [reply EXCEPT ![s] = None]
        BY <1>4 DEF Nl!bpf_set_link_xdp_fd
    <2>2. PICK i \in Links, m \in Modes, p \in {0, nl_requests'} :
              \E e \in {None, 0, nl_kernel[i][m]} :
            LET done == Nl!Applies(i, m, e)
                changed == IF done THEN [nl_kernel EXCEPT ![i][m] = p] ELSE nl_kernel
            IN /\ nl_kernel' = changed
               /\ nl_call' = [t \in Nl!Sockets |->
                    IF t = s THEN [Nl!Calling("set", TRUE, 1, nl_requests', Nl!Opened) EXCEPT
                                    !.link = i, !.mode = m, !.applied = done]
                    ELSE Nl!Witnessed(nl_call[t], changed)]
               /\ nl_socket' = [nl_socket EXCEPT ![s] =
                    [Nl!Opened EXCEPT !.queue = <<<<Nl!ErrorMsg(nl_requests', 1, ~done)>>>>]]
        BY <1>4 DEF Nl!bpf_set_link_xdp_fd
    <2>3. PICK e \in {None, 0, nl_kernel[i][m]} :
            LET done == Nl!Applies(i, m, e)
                changed == IF done THEN [nl_kernel EXCEPT ![i][m] = p] ELSE nl_kernel
            IN /\ nl_kernel' = changed
               /\ nl_call' = [t \in Nl!Sockets |->
                    IF t = s THEN [Nl!Calling("set", TRUE, 1, nl_requests', Nl!Opened) EXCEPT
                                    !.link = i, !.mode = m, !.applied = done]
                    ELSE Nl!Witnessed(nl_call[t], changed)]
               /\ nl_socket' = [nl_socket EXCEPT ![s] =
                    [Nl!Opened EXCEPT !.queue = <<<<Nl!ErrorMsg(nl_requests', 1, ~done)>>>>]]
        BY <2>2
    <2>4. PICK done : done = Nl!Applies(i, m, e)
        OBVIOUS
    <2>5. PICK changed : changed = IF done THEN [nl_kernel EXCEPT ![i][m] = p] ELSE nl_kernel
        OBVIOUS
    <2>6. /\ nl_kernel' = changed
          /\ nl_call' = [t \in Nl!Sockets |->
                IF t = s THEN [Nl!Calling("set", TRUE, 1, nl_requests', Nl!Opened) EXCEPT
                                !.link = i, !.mode = m, !.applied = done]
                ELSE Nl!Witnessed(nl_call[t], changed)]
          /\ nl_socket' = [nl_socket EXCEPT ![s] =
                [Nl!Opened EXCEPT !.queue = <<<<Nl!ErrorMsg(nl_requests', 1, ~done)>>>>]]
        BY <2>3, <2>4, <2>5
    <2>7. PICK r \in Nat : r = nl_requests'
        BY <1>1, <2>1, <2>4, <2>5, <2>6 DEF Nl!Request
    <2>8. PICK a \in BOOLEAN : a = done
        BY <2>1, <2>4, <2>5, <2>6 DEF Nl!Applies
    <2>9. PICK b : b = Nl!Calling("set", TRUE, 1, r, Nl!Opened)
        OBVIOUS
    <2>10. BeginsCall(b, op, own, 1, r, Nl!Opened)
        <3>1. b = Nl!Calling(op, own, 1, r, Nl!Opened)
            BY <1>2, <2>9
        <3>2. QED
            BY <3>1, CallBegins
    <2>11. /\ b \in CallSet /\ b.op = "set" /\ b.seq = 1 /\ b.req = r /\ b.heard = <<>>
        BY <1>2, <2>10 DEF BeginsCall
    <2>12. PICK c : c = [b EXCEPT !.link = i, !.mode = m, !.applied = a]
        OBVIOUS
    <2>13. PICK h \in SUBSET Progs : h = b.had
        BY <2>11 DEF CallSet
    <2>14. AskedFor(c, b, i, m, h, a)
        BY <2>11, <2>12, <2>13, Asks
    <2>15. /\ c \in CallSet /\ c.op = "set" /\ c.seq = 1 /\ c.req = r /\ c.heard = <<>>
          /\ c.applied = a /\ c.clean = b.clean
        BY <2>11, <2>14 DEF AskedFor
    <2>16. b.clean
        <3>1. b = Nl!Calling(op, own, 1, r, Nl!Opened)
            BY <1>2, <2>9
        <3>2. QED
            BY <3>1, OpenedClean
    <2>17. PICK msg : msg = Nl!ErrorMsg(r, 1, ~a)
        OBVIOUS
    <2>18. msg \in Nl!Message
        BY <2>17 DEF Nl!ErrorMsg, Nl!Message
    <2>19. PICK q : q = <<<<msg>>>>
        OBVIOUS
    <2>20. q \in Seq(Seq(Nl!Message)) /\ Len(q) = 1 /\ q[1] = <<msg>> /\ <<msg>> # <<>>
        BY <2>18, <2>19
    <2>21. PICK so : so = [queue |-> q, dump |-> None]
        OBVIOUS
    <2>22. so \in Nl!Socket /\ QueueOK(so)
        <3>1. so.queue = q /\ so.dump = None
            BY <2>21
        <3>2. \A k \in 1..Len(q) : q[k] # <<>>
            <4>1. \A k \in 1..Len(q) : k = 1
                BY <2>20
            <4>2. q[1] # <<>>
                BY <2>20
            <4>3. QED
                BY <4>1, <4>2
        <3>3. QueueOK(so)
            BY <3>1, <3>2 DEF QueueOK
        <3>4. so \in Nl!Socket
            BY <2>20, <2>21 DEF Nl!Socket
        <3>5. QED
            BY <3>3, <3>4
    <2>23. Answered(c, so)
        BY <2>15, <2>17, <2>19, <2>21 DEF Answered
    <2>24. nl_socket' = [nl_socket EXCEPT ![s] = so]
        <3>1. [Nl!Opened EXCEPT !.queue = q] = [queue |-> q, dump |-> None]
            BY DEF Nl!Opened
        <3>2. q = <<<<Nl!ErrorMsg(nl_requests', 1, ~done)>>>>
            BY <2>7, <2>8, <2>17, <2>19
        <3>3. QED
            BY <2>1, <2>4, <2>5, <2>6, <2>21, <3>1, <3>2
    <2>25. nl_call'[s] = c
        BY <2>1, <2>4, <2>5, <2>6, <2>7, <2>8, <2>9, <2>12
    <2>26. PICK k \in [Links -> Progs] : k = changed
        <3>1. [nl_kernel EXCEPT ![i][m] = p] \in [Links -> Progs]
            <4>1. PICK row \in Progs : row = nl_kernel[i]
                BY <1>1 DEF NlTypes
            <4>2. p \in Nat
                BY <2>7
            <4>3. PICK row2 \in Progs : row2 = [row EXCEPT ![m] = p]
                BY <4>2 DEF Progs
            <4>4. [nl_kernel EXCEPT ![i][m] = p] = [nl_kernel EXCEPT ![i] = row2]
                BY <4>1, <4>3
            <4>5. QED
                BY <1>1, <4>4 DEF NlTypes
        <3>2. QED
            BY <1>1, <2>1, <2>4, <2>5, <2>6, <3>1 DEF NlTypes
    <2>27. ASSUME NEW t \in Nl!Sockets, t # s
           PROVE  /\ nl_call'[t] \in CallSet \cup {None} /\ SocketInv(t)'
        <3>1. nl_call'[t] = Nl!Witnessed(nl_call[t], k)
            BY <2>1, <2>4, <2>5, <2>6, <2>26, <2>27
        <3>2. nl_socket'[t] = nl_socket[t] /\ reply'[t] = reply[t]
            BY <1>1, <2>1, <2>4, <2>5, <2>6, <2>24, <2>27 DEF NlTypes, NlInv
        <3>3. SocketInv(t) /\ (nl_call[t] # None => nl_call[t] \in CallSet)
            BY SocketTypes
        <3>4. CASE nl_call[t] = None
            <4>1. nl_call'[t] = None
                BY <3>1, <3>4 DEF Nl!Witnessed
            <4>2. QED
                BY <3>2, <3>3, <4>1 DEF SocketInv
        <3>5. CASE nl_call[t] # None
            <4>1. PICK ct \in CallSet : ct = nl_call[t]
                BY <3>3, <3>5
            <4>2. PICK st : st = nl_socket[t]
                OBVIOUS
            <4>3. PICK d : d = Nl!Witnessed(ct, k)
                OBVIOUS
            <4>4. ct # None /\ CallOK(ct, st) /\ nl_kernel' = k
                BY <2>1, <2>4, <2>5, <2>6, <2>26, <3>3, <3>5, <4>1, <4>2 DEF SocketInv
            <4>5. d \in CallSet /\ CallOK(d, st)'
                BY <4>3, <4>4, WitnessKeeps
            <4>6. nl_call'[t] = d /\ nl_socket'[t] = st
                BY <3>1, <3>2, <4>1, <4>2, <4>3
            <4>7. CallOK(nl_call[t], nl_socket[t])'
                BY <4>5, <4>6 DEF CallOK
            <4>8. QED
                BY <3>2, <3>3, <3>5, <4>5, <4>6, <4>7 DEF SocketInv
        <3>6. QED
            BY <3>4, <3>5
    <2>28. nl_socket'[s] = so /\ reply'[s] = None
        BY <1>1, <2>1, <2>4, <2>5, <2>6, <2>24 DEF NlTypes, NlInv
    <2>29. SocketInv(s)'
        <3>1. CallOK(nl_call[s], nl_socket[s])'
            BY <2>15, <2>16, <2>23, <2>25, <2>28 DEF CallOK, Answered
        <3>2. so # None
            BY <2>22 DEF Nl!NetlinkAssumption
        <3>3. QED
            BY <2>22, <2>28, <3>1, <3>2 DEF SocketInv, QueueOK
    <2>30. NlTypes'
        <3>1. nl_call' \in [Nl!Sockets -> CallSet \cup {None}]
            BY <2>1, <2>4, <2>5, <2>6, <2>15, <2>25, <2>27
        <3>2. nl_socket' \in [Nl!Sockets -> Nl!Socket \cup {None}]
            BY <1>1, <2>22, <2>24 DEF NlTypes
        <3>3. QED
            BY <1>1, <2>1, <2>4, <2>5, <2>6, <2>7, <2>26, <3>1, <3>2 DEF NlTypes
    <2>31. reply' = [t \in Nl!Sockets |-> reply'[t]]
        BY <2>1, <2>4, <2>5, <2>6 DEF NlInv
    <2>32. QED
        BY <2>27, <2>29, <2>30, <2>31 DEF NlInv
<1>5. QED
    BY <1>3, <1>4

(* The two ways a datagram is read: up to the message that ends the call, or *)
(* all of it.                                                                *)
LeftOver(so, g) == Tail(so.queue) \o (IF g.msgs = <<>> THEN <<>> ELSE <<g.msgs>>)
KeptSocket(s, so, g, own) ==
    [nl_socket EXCEPT ![s] = IF own THEN None ELSE [queue |-> LeftOver(so, g), dump |-> g.rest]]
EndedAt(s, c, msgs, so, g, n, stop) ==
    /\ Nl!Ends(c, msgs[n], stop) # None
    /\ \A k \in 1..(n - 1) : Nl!Ends(c, msgs[k], FALSE) = None
    /\ IF stop THEN Nl!Ends(c, msgs[n], FALSE) = None /\ c.op = "get_link" /\ Nl!Fault
       ELSE UNCHANGED nl_faults
    /\ Nl!Return(s, Nl!Ends(c, msgs[n], stop), Nl!Upto(c, msgs)[IF stop THEN n ELSE n - 1])
    /\ nl_socket' = KeptSocket(s, so, g, c.own)
ReadAll(s, c, msgs, so, g) ==
    /\ \A k \in 1..Len(msgs) : Nl!Ends(c, msgs[k], FALSE) = None
    /\ IF \E k \in 1..Len(msgs) : Nl!Multi(msgs[k])
       THEN /\ nl_call' = [nl_call EXCEPT ![s] = Nl!Upto(c, msgs)[Len(msgs)]]
            /\ nl_socket' = KeptSocket(s, so, g, FALSE)
            /\ UNCHANGED reply
       ELSE Nl!Return(s, "ok", Nl!Upto(c, msgs)[Len(msgs)])
           /\ nl_socket' = KeptSocket(s, so, g, c.own)
More(so) == IF so.dump = None THEN {[msgs |-> <<>>, rest |-> None]} ELSE Nl!Datagrams(so.dump)

LEMMA RecvStep ==
    ASSUME Nl!NetlinkAssumption, NlInv, NEW s \in Nl!Sockets, Nl!bpf_netlink_recv(s) PROVE NlInv'
<1>1. nl_call[s] # None /\ nl_socket[s].queue # <<>>
          /\ UNCHANGED <<nl_kernel, nl_now, nl_requests>>
    BY DEF Nl!bpf_netlink_recv
<1>2. PICK c \in CallSet : c = nl_call[s]
    BY <1>1, SocketTypes
<1>3. PICK so \in Nl!Socket : so = nl_socket[s]
    BY <1>1, SocketTypes
<1>4. NlTypes /\ CallOK(c, so) /\ QueueOK(so) /\ so.queue # <<>>
      /\ nl_now \in Nat \ {0} /\ nl_requests \in Nat
    BY <1>1, <1>2, <1>3, SocketTypes, NoCall DEF SocketInv
<1>5. PICK q \in Seq(Seq(Nl!Message)) : q = so.queue
    BY DEF Nl!Socket
<1>6. PICK tl : tl = Tail(q)
    OBVIOUS
<1>7. q # <<>> /\ \A k \in 1..Len(q) : q[k] # <<>>
    BY <1>4, <1>5 DEF QueueOK
<1>8. /\ Head(q) = q[1] /\ q[1] \in Seq(Nl!Message) /\ q[1] # <<>>
      /\ tl \in Seq(Seq(Nl!Message)) /\ Len(tl) \in Nat
      /\ \A k \in 1..Len(tl) : tl[k] # <<>>
    <2>1. Len(q) \in Nat /\ Len(q) # 0
        BY <1>7, EmptySeq
    <2>2. 1 \in 1..Len(q)
        BY <2>1
    <2>3. q[1] \in Seq(Nl!Message) /\ q[1] # <<>> /\ Head(q) = q[1]
        BY <1>7, <2>2
    <2>4. tl \in Seq(Seq(Nl!Message)) /\ Len(tl) = Len(q) - 1
          /\ \A k \in 1..Len(tl) : tl[k] = q[k + 1]
        BY <1>6, <1>7, HeadTailProperties
    <2>5. ASSUME NEW k \in 1..Len(tl) PROVE k + 1 \in 1..Len(q)
        BY <2>1, <2>4
    <2>6. QED
        BY <1>7, <2>1, <2>3, <2>4, <2>5
<1>9. PICK msgs \in Seq(Nl!Message) : msgs = Head(nl_socket[s].queue) /\ so.queue[1] = msgs
          /\ msgs # <<>>
    BY <1>3, <1>5, <1>8
<1>10. PICK g \in More(so) :
        \/ \E n \in 1..Len(msgs), stop \in BOOLEAN : EndedAt(s, c, msgs, so, g, n, stop)
        \/ ReadAll(s, c, msgs, so, g)
    <2>1. \E g \in More(nl_socket[s]) :
            \/ \E n \in 1..Len(Head(nl_socket[s].queue)), stop \in BOOLEAN :
                    EndedAt(s, nl_call[s], Head(nl_socket[s].queue), nl_socket[s], g, n, stop)
            \/ ReadAll(s, nl_call[s], Head(nl_socket[s].queue), nl_socket[s], g)
        BY DEF Nl!bpf_netlink_recv, More, EndedAt, ReadAll, KeptSocket, LeftOver
    <2>2. QED
        BY <1>2, <1>3, <1>9, <2>1
<1>11. PICK left : left = LeftOver(so, g)
    OBVIOUS
<1>12. PICK so2 : so2 = [queue |-> left, dump |-> g.rest]
    OBVIOUS
<1>13. /\ g.msgs \in Seq(Nl!Message) /\ g.rest \in Nl!Dump \cup {None}
       /\ g.rest # None => g.msgs # <<>>
    <2>1. CASE so.dump = None
        <3>1. g = [msgs |-> <<>>, rest |-> None]
            BY <1>10, <2>1 DEF More
        <3>2. QED
            BY <3>1
    <2>2. CASE so.dump # None
        <3>1. so.dump \in Nl!Dump
            BY <2>2 DEF Nl!Socket
        <3>2. QED
            BY <1>4, <1>10, <2>2, <3>1, NextDatagram DEF More
    <2>3. QED
        BY <2>1, <2>2
<1>14. so2 \in Nl!Socket /\ QueueOK(so2)
    <2>1. CASE g.msgs = <<>>
        <3>1. left = tl /\ g.rest = None
            BY <1>5, <1>6, <1>8, <1>11, <1>13, <2>1, ConcatEmptySeq DEF LeftOver
        <3>2. so2.queue = tl /\ so2.dump = None /\ so2 = [queue |-> tl, dump |-> None]
            BY <1>12, <3>1
        <3>3. QED
            BY <1>8, <3>2 DEF Nl!Socket, QueueOK
    <2>2. CASE g.msgs # <<>>
        <3>1. PICK l \in Seq(Nl!Message), d \in Nl!Dump \cup {None} :
                l = g.msgs /\ l # <<>> /\ d = g.rest
            BY <1>13, <2>2
        <3>2. left = Append(tl, l)
            BY <1>5, <1>6, <1>8, <1>11, <2>2, <3>1, AppendIsConcat DEF LeftOver
        <3>3. PICK so1 : so1 = [queue |-> tl, dump |-> None]
            OBVIOUS
        <3>4. so1.queue = tl /\ so1.dump = None
            BY <3>3
        <3>5. so1 \in Nl!Socket /\ QueueOK(so1)
            BY <1>8, <3>3, <3>4 DEF Nl!Socket, QueueOK
        <3>6. so2 = [queue |-> Append(so1.queue, l), dump |-> d]
            BY <1>12, <3>1, <3>2, <3>4
        <3>7. Appended(so2, so1, l, d)
            BY <3>1, <3>5, <3>6, QueueAppend
        <3>8. QED
            BY <3>7 DEF Appended
    <2>3. QED
        BY <2>1, <2>2
<1>15. /\ nl_kernel' = nl_kernel /\ nl_now' \in Nat \ {0} /\ nl_requests' \in Nat
    BY <1>1, <1>4
<1>16. so2 # None
    BY <1>14 DEF Nl!NetlinkAssumption
<1>17. ASSUME NEW ret, NEW d, ReplyOK([ret |-> ret, call |-> d]), Nl!Return(s, ret, d),
              nl_socket' = KeptSocket(s, so, g, c.own)
       PROVE  NlInv'
    <2>1. PICK kept \in Nl!Socket \cup {None} :
            nl_socket' = [nl_socket EXCEPT ![s] = kept] /\ (kept # None => QueueOK(kept))
        <3>1. CASE c.own
            BY <1>17, <3>1 DEF KeptSocket
        <3>2. CASE ~c.own
            BY <1>11, <1>12, <1>14, <1>17, <3>2 DEF KeptSocket
        <3>3. QED
            BY <3>1, <3>2
    <2>2. PICK r : r = [ret |-> ret, call |-> d]
        OBVIOUS
    <2>3. reply' = [reply EXCEPT ![s] = r] /\ nl_call' = [nl_call EXCEPT ![s] = None]
              /\ ReplyOK(r)
        BY <1>17, <2>2 DEF Nl!Return
    <2>4. QED
        BY <1>15, <2>1, <2>3, OneSocket
<1>18. CASE \E n \in 1..Len(msgs), stop \in BOOLEAN : EndedAt(s, c, msgs, so, g, n, stop)
    <2>1. PICK n \in 1..Len(msgs), stop \in BOOLEAN : EndedAt(s, c, msgs, so, g, n, stop)
        BY <1>18
    <2>2. PICK ret : ret = Nl!Ends(c, msgs[n], stop)
        OBVIOUS
    <2>3. ReplyOK([ret |-> ret, call |-> Nl!Upto(c, msgs)[IF stop THEN n ELSE n - 1]])
        BY <1>4, <1>9, <2>1, <2>2, ReplyEnds DEF EndedAt
    <2>4. QED
        BY <1>17, <2>1, <2>2, <2>3 DEF EndedAt
<1>19. CASE ReadAll(s, c, msgs, so, g)
    <2>1. PICK d : d = Nl!Upto(c, msgs)[Len(msgs)]
        OBVIOUS
    <2>2. IF \E k \in 1..Len(msgs) : Nl!Multi(msgs[k])
          THEN CallOK(d, so2) ELSE ReplyOK([ret |-> "ok", call |-> d])
        BY <1>4, <1>9, <1>10, <1>11, <1>12, <1>19, <2>1, ReadsOn DEF More, ReadAll, LeftOver
    <2>3. CASE ~ \E k \in 1..Len(msgs) : Nl!Multi(msgs[k])
        BY <1>17, <1>19, <2>1, <2>2, <2>3 DEF ReadAll
    <2>4. CASE \E k \in 1..Len(msgs) : Nl!Multi(msgs[k])
        <3>1. /\ nl_call' = [nl_call EXCEPT ![s] = d]
                     /\ nl_socket' = [nl_socket EXCEPT ![s] = so2]
              /\ reply' = reply
            BY <1>11, <1>12, <1>19, <2>1, <2>4 DEF ReadAll, KeptSocket
        <3>2. d \in CallSet
            <4>1. Len(msgs) \in 0..Len(msgs)
                OBVIOUS
            <4>2. QED
                BY <2>1, <4>1, UptoKeeps DEF SameCall
        <3>3. PICK r : r = reply[s] /\ reply' = [reply EXCEPT ![s] = r]
            BY <3>1 DEF NlInv
        <3>4. r # None => ReplyOK(r)
            BY <3>3, SocketTypes DEF SocketInv
        <3>5. QED
            BY <1>14, <1>15, <1>16, <2>2, <2>4, <3>1, <3>2, <3>3, <3>4, OneSocket
    <2>5. QED
        BY <2>3, <2>4
<1>20. QED
    BY <1>10, <1>18, <1>19

LEMMA FailStep ==
    ASSUME Nl!NetlinkAssumption, NlInv, NEW s \in Nl!Sockets, Nl!RecvFails(s) PROVE NlInv'
<1>1. /\ nl_call[s] # None /\ Nl!Return(s, "failed", nl_call[s])
      /\ nl_socket' = [nl_socket EXCEPT ![s] = IF nl_call[s].own THEN None ELSE @]
      /\ UNCHANGED <<nl_kernel, nl_now, nl_requests>>
    BY DEF Nl!RecvFails
<1>2. PICK c \in CallSet : c = nl_call[s]
    BY <1>1, SocketTypes
<1>3. PICK so \in Nl!Socket : so = nl_socket[s]
    BY <1>1, SocketTypes
<1>4. CallOK(c, so) /\ QueueOK(so) /\ nl_now \in Nat \ {0} /\ nl_requests \in Nat
    BY <1>1, <1>2, <1>3, SocketTypes, NoCall DEF SocketInv
<1>5. PICK r : r = [ret |-> "failed", call |-> c]
    OBVIOUS
<1>6. r.ret = "failed" /\ r.call = c
    BY <1>5
<1>7. c.clean => \A n \in 1..Len(c.heard) : c.heard[n].req = c.req
    <2>1. c.heard = <<>> => 1..Len(c.heard) = {}
        OBVIOUS
    <2>2. QED
        BY <1>4, <2>1 DEF CallOK, Blocked, Answered, Streaming, HeardOK
<1>8. ReplyOK(r)
    BY <1>6, <1>7 DEF ReplyOK, Nl!Dumps
<1>9. PICK kept \in Nl!Socket \cup {None} :
        nl_socket' = [nl_socket EXCEPT ![s] = kept] /\ (kept # None => QueueOK(kept))
    <2>1. CASE c.own
        BY <1>1, <1>2, <2>1
    <2>2. CASE ~c.own
        BY <1>1, <1>2, <1>3, <1>4, <2>2
    <2>3. QED
        BY <2>1, <2>2
<1>10. reply' = [reply EXCEPT ![s] = r] /\ nl_call' = [nl_call EXCEPT ![s] = None]
    BY <1>1, <1>2, <1>5 DEF Nl!Return
<1>11. nl_kernel' = nl_kernel /\ nl_now' \in Nat \ {0} /\ nl_requests' \in Nat
    BY <1>1, <1>4
<1>12. QED
    BY <1>8, <1>9, <1>10, <1>11, OneSocket

LEMMA IdleStep ==
    ASSUME NlInv, UNCHANGED <<nl_kernel, nl_socket, nl_call, reply, nl_requests>>,
               nl_now' \in Nat \ {0}
    PROVE  NlInv'
<1>1. \A t \in Nl!Sockets : SocketInv(t)'
    BY SocketStays DEF NlInv
<1>2. NlTypes'
    BY DEF NlTypes, NlInv
<1>3. QED
    BY <1>1, <1>2 DEF NlInv

LEMMA NlInit == ASSUME Nl!NetlinkAssumption, Nl!Init PROVE NlInv
<1>1. nl_kernel \in [Links -> Progs]
    BY DEF Nl!Init, Progs
<1>2. NlTypes
    BY <1>1 DEF Nl!Init, NlTypes
<1>3. QED
    BY <1>2 DEF Nl!Init, NlInv, SocketInv

LEMMA NlStep == ASSUME Nl!NetlinkAssumption, NlInv, [Nl!Next]_(Nl!nlvars) PROVE NlInv'
<1>1. \A s \in Attaching \cup Dumping : s \in Nl!Sockets
    BY DEF Nl!Sockets
<1>2. NlTypes
    BY DEF NlInv
<1>3. ASSUME NEW s \in Dumping, Nl!libbpf_netlink_open(s) PROVE NlInv'
    BY <1>1, <1>3, NlOpenStep
<1>4. ASSUME NEW s \in Dumping, Nl!CloseSocket(s) PROVE NlInv'
    BY <1>1, <1>4, NlCloseStep
<1>5. ASSUME NEW s \in Dumping, Nl!libbpf_nl_get(s) PROVE NlInv'
    BY <1>1, <1>5, GetStep
<1>6. ASSUME NEW s \in Dumping, Nl!bpf_get_link_xdp_info(s) PROVE NlInv'
    BY <1>1, <1>6, InfoStep
<1>7. ASSUME NEW s \in Attaching, Nl!bpf_set_link_xdp_fd(s) PROVE NlInv'
    BY <1>1, <1>7, SetStep
<1>8. ASSUME NEW s \in Nl!Sockets, Nl!bpf_netlink_recv(s) PROVE NlInv'
    BY <1>8, RecvStep
<1>9. ASSUME NEW s \in Nl!Sockets, Nl!RecvFails(s) PROVE NlInv'
    BY <1>9, FailStep
<1>10. CASE Nl!Tick
    <2>1. nl_now' \in Nat \ {0} /\ UNCHANGED <<nl_kernel, nl_socket, nl_call, reply, nl_requests>>
        BY <1>2, <1>10 DEF Nl!Tick, NlTypes
    <2>2. QED
        BY <2>1, IdleStep
<1>11. CASE UNCHANGED Nl!nlvars
    <2>1. nl_now' \in Nat \ {0} /\ UNCHANGED <<nl_kernel, nl_socket, nl_call, reply, nl_requests>>
        BY <1>2, <1>11 DEF Nl!nlvars, NlTypes
    <2>2. QED
        BY <2>1, IdleStep
<1>12. QED
    BY <1>3, <1>4, <1>5, <1>6, <1>7, <1>8, <1>9, <1>10, <1>11 DEF Nl!Next

LEMMA NlSafe == ASSUME Nl!NetlinkAssumption, NlInv PROVE Nl!NetlinkSafe
<1>1. ASSUME NEW s \in Nl!Sockets, reply[s] # None PROVE ReplyOK(reply[s])
    BY <1>1 DEF NlInv, SocketInv
<1>2. ASSUME NEW s \in Nl!Sockets, nl_call[s] # None, nl_call[s].clean
      PROVE  \A n \in 1..Len(nl_call[s].heard) : nl_call[s].heard[n].req = nl_call[s].req
    <2>1. CallOK(nl_call[s], nl_socket[s])
        BY <1>2 DEF NlInv, SocketInv
    <2>2. nl_call[s].heard = <<>> => 1..Len(nl_call[s].heard) = {}
        OBVIOUS
    <2>3. QED
        BY <1>2, <2>1, <2>2 DEF CallOK, Blocked, Answered, Streaming, HeardOK
<1>3. Nl!DumpsOwn
    BY <1>1, <1>2 DEF Nl!DumpsOwn, ReplyOK
<1>4. Nl!DumpsWhole
    BY <1>1 DEF Nl!DumpsWhole, ReplyOK, HeardOK
<1>5. Nl!QueryTrue
    BY <1>1 DEF Nl!QueryTrue, ReplyOK
<1>6. Nl!SetTrue
    BY <1>1 DEF Nl!SetTrue, ReplyOK
<1>7. QED
    BY <1>3, <1>4, <1>5, <1>6 DEF Nl!NetlinkSafe

-----------------------------------------------------------------------------
(* nlattr.c, the parser of attributes.                                       *)

(* The attributes of a type that the loop has visited.                       *)
Visited(t) == {k \in 1..Len(seen) : seen[k].type = t}

(* What the index holds is the last attribute of its type that was visited,  *)
(* but for the one that made the function fail; the visited ones follow each *)
(* other, up to where the loop is.                                           *)
Attribs == [at : Int, type : Types, nla_len : NlaLens, terminated : BOOLEAN]
Indexed(t, k) ==
    /\ tb[t] = seen[k] /\ seen[k].type = t
    /\ policy # None => seen[k].nla_len - Attr!NLA_HDRLEN >= policy.min
AttrInv ==
    /\ attr_len \in Nat /\ rem \in Int
    /\ seen \in Seq(Attribs)
    /\ \A k \in 1..Len(seen) : seen[k].at + seen[k].nla_len <= attr_len
    /\ \A j, k \in 1..Len(seen) : j < k => seen[j].at + seen[j].nla_len <= seen[k].at
    /\ attr_err # -1 => \A k \in 1..Len(seen) : seen[k].at + seen[k].nla_len <= Attr!Offset
    /\ DOMAIN tb = 0..maxtype
    /\ \A t \in 0..maxtype :
        /\ tb[t] = None \/ \E k \in 1..Len(seen) : Indexed(t, k)
        /\ attr_err # -1 =>
            /\ Visited(t) = {} => tb[t] = None
            /\ Visited(t) # {} =>
                \E k \in Visited(t) : tb[t] = seen[k] /\ \A j \in Visited(t) : j <= k

LEMMA AttrInit == ASSUME Attr!AttrAssumption, Attr!Init PROVE AttrInv
<1>1. seen = <<>> /\ Len(seen) = 0 /\ rem = attr_len /\ attr_len \in Nat
    BY DEF Attr!Init, Attr!AttrAssumption
<1>2. \A t \in 0..maxtype : tb[t] = None /\ Visited(t) = {}
    BY <1>1 DEF Attr!Init, Visited
<1>3. QED
    BY <1>1, <1>2 DEF Attr!Init, AttrInv

LEMMA AttrReset == ASSUME Attr!AttrAssumption, Attr!libbpf_nla_parse PROVE AttrInv'
<1>1. seen' = <<>> /\ Len(seen') = 0 /\ rem' = attr_len' /\ attr_len' \in Nat
          /\ tb' = [t \in 0..maxtype |-> None]
    BY DEF Attr!libbpf_nla_parse, Attr!AttrAssumption
<1>2. \A t \in 0..maxtype : tb'[t] = None /\ Visited(t)' = {}
    BY <1>1 DEF Visited
<1>3. QED
    BY <1>1, <1>2 DEF AttrInv

(* One attribute: it is in the stream behind the others.                     *)
LEMMA AttrVisits ==
    ASSUME Attr!AttrAssumption, AttrInv, attr_err = None, NEW n \in NlaLens, NEW t \in Types,
               NEW z \in BOOLEAN,
           Attr!Attribute(t, n, z)
    PROVE  AttrInv'
<1> DEFINE nla == [at |-> Attr!Offset, type |-> t, nla_len |-> n, terminated |-> z]
           m == Len(seen) + 1
<1>1. /\ n \in Nat /\ t \in Nat /\ maxtype \in Nat /\ attr_len \in Nat /\ rem \in Int /\ n <= rem
      /\ seen \in Seq(Attribs) /\ attr_err # -1 /\ DOMAIN tb = 0..maxtype
    BY DEF Attr!AttrAssumption, AttrInv, Attr!Attribute, Attr!nla_ok
<1>2. nla \in Attribs /\ Attr!Offset \in Int /\ Attr!Offset + n <= attr_len
    BY <1>1 DEF Attribs, Attr!Offset
<1>3. /\ seen' = Append(seen, nla) /\ attr_len' = attr_len /\ policy' = policy
      /\ \/ /\ t <= maxtype => Attr!Valid(n, z)
            /\ tb' = IF t > maxtype THEN tb ELSE [tb EXCEPT ![t] = nla]
            /\ rem' = rem - Attr!NLA_ALIGN(n) /\ attr_err' = attr_err
         \/ attr_err' = -1 /\ tb' = tb /\ rem' = rem
    BY DEF Attr!Attribute
<1> HIDE DEF nla
<1>4. /\ seen' \in Seq(Attribs) /\ Len(seen') = m /\ m \in 1..m
      /\ seen'[m] = nla /\ \A k \in 1..Len(seen) : seen'[k] = seen[k] /\ k < m
      /\ \A k \in 1..m : k = m \/ k \in 1..Len(seen)
    BY <1>1, <1>2, <1>3
<1>5. nla.at = Attr!Offset /\ nla.type = t /\ nla.nla_len = n
    BY DEF nla
<1>6. \A k \in 1..Len(seen) : seen[k].at + seen[k].nla_len <= Attr!Offset
          /\ seen[k].at + seen[k].nla_len <= attr_len
    BY <1>1 DEF AttrInv
<1>7. \A k \in 1..m : seen'[k].at + seen'[k].nla_len <= attr_len'
    BY <1>2, <1>3, <1>4, <1>5, <1>6
<1>8. \A j, k \in 1..m : j < k => seen'[j].at + seen'[j].nla_len <= seen'[k].at
    <2>1. ASSUME NEW j \in 1..m, NEW k \in 1..m, j < k
          PROVE seen'[j].at + seen'[j].nla_len <= seen'[k].at
        <3>1. j \in 1..Len(seen) /\ seen'[j] = seen[j]
            BY <2>1, <1>1, <1>4
        <3>2. CASE k = m
            BY <3>1, <3>2, <1>4, <1>5, <1>6
        <3>3. CASE k # m
            BY <3>1, <3>3, <2>1, <1>4 DEF AttrInv
        <3>4. QED
            BY <3>2, <3>3
    <2>2. QED
        BY <2>1
<1>9. attr_err' # -1 => \A k \in 1..m : seen'[k].at + seen'[k].nla_len <= Attr!Offset'
    <2>1. SUFFICES ASSUME attr_err' # -1, NEW k \in 1..m
                   PROVE seen'[k].at + seen'[k].nla_len <= Attr!Offset'
        OBVIOUS
    <2>2. rem' = rem - Attr!NLA_ALIGN(n) /\ attr_len' = attr_len
        BY <2>1, <1>3
    <2>3. Attr!NLA_ALIGN(n) \in Int /\ Attr!NLA_ALIGN(n) >= n
        BY <1>1 DEF Attr!NLA_ALIGN
    <2>4. Attr!Offset' = Attr!Offset + Attr!NLA_ALIGN(n)
        <3> DEFINE a == Attr!NLA_ALIGN(n)
        <3> HIDE DEF a
        <3>1. rem' = rem - a /\ a \in Int
            BY <2>2, <2>3 DEF a
        <3>2. Attr!Offset' = Attr!Offset + a
            BY <3>1, <2>2, <1>1 DEF Attr!Offset
        <3>3. QED
            BY <3>2 DEF a
    <2>5. CASE k = m
        BY <2>3, <2>4, <2>5, <1>1, <1>2, <1>4, <1>5
    <2>6. CASE k # m
        <3>1. k \in 1..Len(seen) /\ seen'[k] = seen[k] /\ seen[k] \in Attribs
            BY <2>6, <1>1, <1>4
        <3>2. seen[k].at \in Int /\ seen[k].nla_len \in Int
            <4>1. seen[k].at \in Int /\ seen[k].nla_len \in NlaLens
                BY <3>1 DEF Attribs
            <4>2. NlaLens \subseteq Int
                BY DEF Attr!AttrAssumption
            <4>3. QED
                BY <4>1, <4>2
        <3> DEFINE o == seen[k].at + seen[k].nla_len
                   a == Attr!NLA_ALIGN(n)
        <3>3. o \in Int /\ o <= Attr!Offset /\ a \in Int /\ a >= 0
            BY <3>1, <3>2, <2>3, <1>1, <1>6
        <3>4. Attr!Offset' = Attr!Offset + a /\ Attr!Offset \in Int
            BY <2>4, <1>2
        <3>5. seen'[k].at + seen'[k].nla_len = o
            BY <3>1
        <3> HIDE DEF o, a
        <3>6. QED
            BY <3>3, <3>4, <3>5
    <2>7. QED
        BY <2>5, <2>6
<1>10. ASSUME NEW u \in 0..maxtype
       PROVE  Visited(u)' = IF u = t THEN Visited(u) \cup {m} ELSE Visited(u)
    BY <1>4, <1>5 DEF Visited
<1>11. DOMAIN tb' = 0..maxtype
    BY <1>1, <1>3
<1>12. ASSUME NEW u \in 0..maxtype
       PROVE  /\ tb'[u] = None \/ \E k \in 1..m : Indexed(u, k)'
              /\ attr_err' # -1 =>
                    /\ Visited(u)' = {} => tb'[u] = None
                    /\ Visited(u)' # {} =>
                        \E k \in Visited(u)' : tb'[u] = seen'[k] /\ \A j \in Visited(u)' : j <= k
    <2>1. /\ tb[u] = None \/ \E k \in 1..Len(seen) : Indexed(u, k)
          /\ Visited(u) = {} => tb[u] = None
          /\ Visited(u) # {} =>
                 \E k \in Visited(u) : tb[u] = seen[k] /\ \A j \in Visited(u) : j <= k
        BY <1>1 DEF AttrInv
    <2>2. \A k \in Visited(u) : k \in 1..Len(seen) /\ seen'[k] = seen[k] /\ k < m
        BY <1>4 DEF Visited
    <2>3. ASSUME tb'[u] = tb[u] PROVE tb'[u] = None \/ \E k \in 1..m : Indexed(u, k)'
        BY <2>1, <2>3, <1>3, <1>4 DEF Indexed
    <2>4. CASE u = t /\ attr_err' # -1
        <3>1. tb'[u] = nla /\ Attr!Valid(n, z)
            BY <2>4, <1>1, <1>3, <1>12
        <3> PICK last \in 1..m : last = m
            BY <1>4
        <3>2. Indexed(u, last)'
            <4>1. policy # None => n - Attr!NLA_HDRLEN >= policy.min
                BY <3>1 DEF Attr!Valid
            <4>2. tb'[u] = seen'[last] /\ seen'[last].type = u /\ seen'[last].nla_len = n
                BY <3>1, <2>4, <1>4, <1>5
            <4>3. QED
                BY <4>1, <4>2, <1>3 DEF Indexed
        <3>3. last \in Visited(u)' /\ \A j \in Visited(u)' : j <= last
            BY <2>2, <2>4, <1>10, <1>1
        <3>4. tb'[u] = seen'[last]
            BY <3>1, <1>4
        <3>5. QED
            BY <3>2, <3>3, <3>4
    <2>5. CASE u # t \/ attr_err' = -1
        <3>1. tb'[u] = tb[u]
            BY <2>5, <1>1, <1>3
        <3>2. attr_err' # -1 => Visited(u)' = Visited(u)
            BY <2>5, <1>10
        <3>3. attr_err' # -1 =>
                    /\ Visited(u)' = {} => tb'[u] = None
                    /\ Visited(u)' # {} =>
                        \E k \in Visited(u)' : tb'[u] = seen'[k] /\ \A j \in Visited(u)' : j <= k
            BY <3>1, <3>2, <2>1, <2>2
        <3>4. QED
            BY <3>1, <3>3, <2>3
    <2>6. QED
        BY <2>4, <2>5
<1>13. attr_len' \in Nat /\ rem' \in Int
    BY <1>1, <1>3 DEF Attr!NLA_ALIGN
<1>14. QED
    BY <1>4, <1>7, <1>8, <1>9, <1>11, <1>12, <1>13 DEF AttrInv

LEMMA AttrStep == ASSUME Attr!AttrAssumption, AttrInv, [Attr!Next]_(Attr!navars) PROVE AttrInv'
<1>1. CASE UNCHANGED Attr!navars
    BY <1>1 DEF Attr!navars, AttrInv, Visited, Indexed, Attr!Offset
<1>2. ASSUME NEW n \in NlaLens, attr_err = None, Attr!Return(n) PROVE AttrInv'
    <2>1. attr_err # -1 /\ UNCHANGED <<attr_len, policy, rem, tb, seen>>
        BY <1>2 DEF Attr!Return, Attr!AttrAssumption
    <2>2. \A t \in 0..maxtype : Visited(t)' = Visited(t)
              /\ \A k \in 1..Len(seen) : Indexed(t, k)' <=> Indexed(t, k)
        BY <2>1 DEF Visited, Indexed
    <2>3. Attr!Offset' = Attr!Offset
        BY <2>1 DEF Attr!Offset
    <2>4. QED
        BY <2>1, <2>2, <2>3 DEF AttrInv
<1>3. QED
    BY <1>1, <1>2, AttrReset, AttrVisits DEF Attr!Next

LEMMA AttrSafe == ASSUME Attr!AttrAssumption, AttrInv PROVE Attr!IndexSound
<1>1. ASSUME NEW t \in 0..maxtype, tb[t] # None
      PROVE  /\ tb[t].type = t /\ tb[t].at + tb[t].nla_len <= attr_len
             /\ policy # None => tb[t].nla_len - Attr!NLA_HDRLEN >= policy.min
    BY <1>1 DEF AttrInv, Indexed
<1>2. ASSUME NEW t \in 0..maxtype, attr_err = 0
      PROVE  IF Visited(t) = {} THEN tb[t] = None
             ELSE tb[t] = seen[CHOOSE k \in Visited(t) : \A j \in Visited(t) : j <= k]
    <2>1. CASE Visited(t) = {}
        BY <2>1, <1>2 DEF AttrInv
    <2>2. CASE Visited(t) # {}
        <3>1. PICK k \in Visited(t) : tb[t] = seen[k] /\ \A j \in Visited(t) : j <= k
            BY <2>2, <1>2 DEF AttrInv
        <3> DEFINE last == CHOOSE i \in Visited(t) : \A j \in Visited(t) : j <= i
        <3>2. last \in Visited(t) /\ \A j \in Visited(t) : j <= last
            BY <3>1
        <3>3. \A i \in Visited(t) : i \in Int
            BY DEF Visited
        <3>4. last = k
            BY <3>1, <3>2, <3>3
        <3>5. QED
            BY <3>1, <3>4, <2>2
    <2>3. QED
        BY <2>1, <2>2
<1>3. \A j, k \in 1..Len(seen) : j < k => seen[j].at + seen[j].nla_len <= seen[k].at
    BY DEF AttrInv
<1>4. QED
    BY <1>1, <1>2, <1>3 DEF Attr!IndexSound, Visited

-----------------------------------------------------------------------------
(* The parts together.                                                       *)

DeliveryInv ==
    /\ part = "xdp" => XdpInv
    /\ part = "ring" => Ring!IInv
    /\ part = "perf" => PerfInv
    /\ part = "netlink" => NlInv
    /\ part = "attr" => AttrInv

LEMMA DeliveryInit == Init => DeliveryInv
<1> SUFFICES ASSUME Init PROVE DeliveryInv
    OBVIOUS
<1>1. Xdp!Init => XdpInv
    BY XdpSizes, XdpInit
<1>2. Ring!Init => Ring!IInv
    BY RingInit
<1>3. Perf!Init => PerfInv
    BY PerfSizes, PerfInit
<1>4. Nl!Init => NlInv
    BY NlSizes, NlInit
<1>5. Attr!Init => AttrInv
    BY AttrSizes, AttrInit
<1>6. QED
    BY <1>1, <1>2, <1>3, <1>4, <1>5, PartInit DEF DeliveryInv

LEMMA DeliveryStep == DeliveryInv /\ [Next]_vars => DeliveryInv'
<1> SUFFICES ASSUME DeliveryInv, [Next]_vars PROVE DeliveryInv'
    OBVIOUS
<1>1. ASSUME XdpInv, [Xdp!Next]_xdpVars PROVE XdpInv'
    BY <1>1, XdpSizes, XdpStep DEF xdpVars, Xdp!xdpvars
<1>2. ASSUME Ring!IInv, [Ring!Next]_ringVars PROVE Ring!IInv'
    BY <1>2, RingStep
<1>3. ASSUME PerfInv, [Perf!Next]_perfVars PROVE PerfInv'
    BY <1>3, PerfSizes, PerfStep DEF perfVars, Perf!pbvars
<1>4. ASSUME NlInv, [Nl!Next]_nlVars PROVE NlInv'
    BY <1>4, NlSizes, NlStep DEF nlVars, Nl!nlvars
<1>5. ASSUME AttrInv, [Attr!Next]_attrVars PROVE AttrInv'
    BY <1>5, AttrSizes, AttrStep DEF attrVars, Attr!navars
<1>6. QED
    BY <1>1, <1>2, <1>3, <1>4, <1>5, PartSteps DEF DeliveryInv

(* The program that receives packets has the backend in its map, and every   *)
(* packet it sends goes to the one address stored for it, the backend's with *)
(* its octets reversed (main.go:28-74, xdp_bpf.c:79-126); frames come        *)
(* back from the rings of a socket in order, and no ring is overfull         *)
(* (xsk.h:48-164); the reader of a perf buffer gets every record that was    *)
(* written, whole and in order, or is told how many it missed                *)
(* (libbpf.c:7947-8375); a dump is whole and of its own request, a query     *)
(* answers what was so, and a caller hears whether its program was put       *)
(* (netlink.c:77-348); the index of a stream of attributes points at         *)
(* attributes in it that keep the policy (nlattr.c:107-198).  The numbers of *)
(* processes, CPUs, interfaces, samples, requests and failures, and the      *)
(* sizes of rings and streams, are any.                                      *)
THEOREM AllDelivered == Spec => []Delivered
<1>1. DeliveryInv => Delivered
    <2>1. XdpInv => Xdp!PutReachesProgram /\ Xdp!TxToStoredAddress
        BY XdpSafe
    <2>2. Ring!IInv => Ring!ReturnedInOrder /\ Ring!NeverOverfull
        BY RingSafe
    <2>3. PerfInv => Perf!PerfBufferSafe
        BY PerfSizes, PerfSafe
    <2>4. NlInv => Nl!NetlinkSafe
        BY NlSizes, NlSafe
    <2>5. AttrInv => Attr!IndexSound
        BY AttrSizes, AttrSafe
    <2>6. QED
        BY <2>1, <2>2, <2>3, <2>4, <2>5 DEF DeliveryInv, Delivered
<1>2. QED
    BY <1>1, DeliveryInit, DeliveryStep, PTL DEF Spec
=============================================================================
