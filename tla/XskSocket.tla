------------------------------ MODULE XskSocket ------------------------------
(* xsk.c: a umem and the AF_XDP sockets that share it.  The first socket     *)
(* uses the umem's own descriptor, the others one of their own; unless       *)
(* inhibited, a socket uses the XDP program of the interface, loading one    *)
(* when there is none, and enters itself into the program's xsks_map.  Any   *)
(* step of a call may fail; what the call did by then is taken back step by  *)
(* step behind the labels at its end, and what these forget stays.           *)
EXTENDS Naturals, FiniteSets

CONSTANTS
    Sockets,        \* names for the sockets an application creates
    MaxFaults,      \* bound: failing steps
    None

VARIABLES
    umem,           \* "none", "created", "deleted"
    refcount,
    fds,            \* open descriptors: of the umem, of a socket, of a program or map
    maps,           \* mapped rings: <<owner, which>>
    sock,           \* socket -> None, or what xsk_socket__create left in it
    call,           \* the creation under way, or None; `at` is its step or label
    bound,          \* owners of descriptors that are bound to a queue
    attached,       \* the interface has an XDP program, with an xsks_map
    xsks_map,       \* sockets in that map
    faults,
    lost            \* mappings and references that the code forgot (history)

xsvars == <<umem, refcount, fds, maps, sock, call, bound, attached, xsks_map, faults, lost>>

Owners == Sockets \cup {"umem"}
Steps ==
    {"register", "map fill", "map comp", "out_mmap", "out_umem",
     "socket", "options", "map rx", "map tx", "bind", "query", "new map", "load", "attach",
     "open program", "lookup", "enter", "out_mmap_tx", "out_mmap_rx", "out_socket"}

TypeOK ==
    /\ umem \in {"none", "created", "deleted"}
    /\ refcount \in 0..(Cardinality(Sockets) + MaxFaults)
    /\ fds \subseteq {"fd", "prog", "map"} \X Owners
    /\ maps \subseteq Owners \X {"fill", "comp", "rx", "tx"}
    /\ sock \in [Sockets -> {None} \cup
           [fd : Owners, rx : BOOLEAN, tx : BOOLEAN, prog : BOOLEAN]]
    /\ call \in {None} \cup [of : Owners, fd : Owners, rx : BOOLEAN, tx : BOOLEAN,
                             prog : BOOLEAN, at : Steps]
    /\ bound \subseteq Owners /\ xsks_map \subseteq Sockets
    /\ attached \in BOOLEAN
    /\ faults \in 0..MaxFaults
    /\ lost \subseteq Owners \X {"fill", "comp", "rx", "tx", "reference"}

Init ==
    /\ umem = "none"
    /\ refcount = 0
    /\ fds = {}
    /\ maps = {}
    /\ sock = [s \in Sockets |-> None]
    /\ call = None
    /\ bound = {}
    /\ attached \in BOOLEAN
    /\ xsks_map = {}
    /\ faults = 0
    /\ lost = {}

Fault == faults < MaxFaults /\ faults' = faults + 1
At(step) == call # None /\ call.at = step
Goto(step) == call' = [call EXCEPT !.at = step]
Works(step) == Goto(step) /\ UNCHANGED faults
Fails(label) == Goto(label) /\ Fault

(* munmap of one of the two mappings that may stand under one name leaves    *)
(* the forgotten one.                                                        *)
Unmapped(rings) == maps \ (rings \ lost)

-----------------------------------------------------------------------------
(* xsk_umem__create: the descriptor; the registration, the ring sizes and    *)
(* the offsets, which leave nothing of their own; the two mappings.          *)
CreateUmem ==
    /\ umem = "none" /\ call = None
    /\ fds' = fds \cup {<<"fd", "umem">>}
    /\ call' = [of |-> "umem", fd |-> "umem", rx |-> FALSE, tx |-> FALSE, prog |-> FALSE,
                at |-> "register"]
    /\ UNCHANGED <<umem, refcount, maps, sock, bound, attached, xsks_map, faults, lost>>
RegisterUmem ==
    /\ At("register")
    /\ Works("map fill") \/ Fails("out_umem")
    /\ UNCHANGED <<umem, refcount, fds, maps, sock, bound, attached, xsks_map, lost>>
MapFill ==
    /\ At("map fill")
    /\ \/ Works("map comp") /\ maps' = maps \cup {<<"umem", "fill">>}
       \/ Fails("out_umem") /\ UNCHANGED maps
    /\ UNCHANGED <<umem, refcount, fds, sock, bound, attached, xsks_map, lost>>
MapComp ==
    /\ At("map comp")
    /\ \/ /\ maps' = maps \cup {<<"umem", "comp">>}
          /\ umem' = "created"
          /\ call' = None
          /\ UNCHANGED faults
       \/ Fails("out_mmap") /\ UNCHANGED <<maps, umem>>
    /\ UNCHANGED <<refcount, fds, sock, bound, attached, xsks_map, lost>>
(* out_mmap passes munmap the result of the second mmap, MAP_FAILED: the     *)
(* first mapping stays.                                                      *)
OutMmap ==
    /\ At("out_mmap")
    /\ lost' = lost \cup {<<"umem", "fill">>}
    /\ Goto("out_umem")
    /\ UNCHANGED <<umem, refcount, fds, maps, sock, bound, attached, xsks_map, faults>>
OutUmem ==
    /\ At("out_umem")
    /\ fds' = fds \ {<<"fd", "umem">>}
    /\ call' = None
    /\ UNCHANGED <<umem, refcount, maps, sock, bound, attached, xsks_map, faults, lost>>

(* xsk_umem__delete refuses while the umem is in use.  When the offsets      *)
(* cannot be had the rings stay mapped; the descriptor is closed all the     *)
(* same.                                                                     *)
UmemRings == {<<"umem", "fill">>, <<"umem", "comp">>}
DeleteUmem ==
    /\ umem = "created" /\ call = None
    /\ refcount = 0
    /\ umem' = "deleted"
    /\ \/ maps' = Unmapped(UmemRings) /\ UNCHANGED <<faults, lost>>
       \/ Fault /\ lost' = lost \cup UmemRings /\ UNCHANGED maps
    /\ fds' = fds \ {<<"fd", "umem">>}
    /\ bound' = bound \ {"umem"}
    /\ UNCHANGED <<refcount, sock, call, attached, xsks_map>>

-----------------------------------------------------------------------------
(* xsk_socket__create counts its reference first; the first socket takes the *)
(* umem's descriptor, and only it may have a program of libbpf's.            *)
CreateSocket(s) ==
    /\ umem = "created" /\ call = None
    /\ sock[s] = None
    /\ \E rx, tx, prog \in BOOLEAN :
        /\ rx \/ tx
        /\ refcount > 0 => ~prog                \* else EBUSY
        /\ call' = [of |-> s, fd |-> IF refcount > 0 THEN s ELSE "umem", rx |-> rx, tx |-> tx,
                    prog |-> prog, at |-> "socket"]
    /\ refcount' = refcount + 1
    /\ UNCHANGED <<umem, fds, maps, sock, bound, attached, xsks_map, faults, lost>>

(* A socket() that fails jumps behind the decrement of the count.            *)
OpenSocket ==
    /\ At("socket")
    /\ \/ /\ Works("options")
          /\ fds' = fds \cup {<<"fd", call.fd>>}
          /\ UNCHANGED lost
       \/ /\ call.fd # "umem"
          /\ Fault
          /\ call' = None
          /\ lost' = lost \cup {<<call.of, "reference">>}
          /\ UNCHANGED fds
    /\ UNCHANGED <<umem, refcount, maps, sock, bound, attached, xsks_map>>

(* The index of the interface, the ring sizes and the offsets leave nothing  *)
(* of their own.  A descriptor that is bound, that of a umem whose first     *)
(* socket is gone, cannot be set up again.                                   *)
SetOptions ==
    /\ At("options")
    /\ \/ call.fd \notin bound /\ Works("map rx")
       \/ call.fd \notin bound /\ Fails("out_socket")
       \/ call.fd \in bound /\ Works("out_socket")
    /\ UNCHANGED <<umem, refcount, fds, maps, sock, bound, attached, xsks_map, lost>>

MapRx ==
    /\ At("map rx")
    /\ \/ ~call.rx /\ Works("map tx") /\ UNCHANGED maps
       \/ call.rx /\ Works("map tx") /\ maps' = maps \cup {<<call.of, "rx">>}
       \/ call.rx /\ Fails("out_socket") /\ UNCHANGED maps
    /\ UNCHANGED <<umem, refcount, fds, sock, bound, attached, xsks_map, lost>>
MapTx ==
    /\ At("map tx")
    /\ \/ ~call.tx /\ Works("bind") /\ UNCHANGED maps
       \/ call.tx /\ Works("bind") /\ maps' = maps \cup {<<call.of, "tx">>}
       \/ call.tx /\ Fails("out_mmap_rx") /\ UNCHANGED maps
    /\ UNCHANGED <<umem, refcount, fds, sock, bound, attached, xsks_map, lost>>

(* The call returns the socket.                                              *)
Created ==
    /\ sock' = [sock EXCEPT ![call.of] =
           [fd |-> call.fd, rx |-> call.rx, tx |-> call.tx, prog |-> call.prog]]
    /\ call' = None
Bind ==
    /\ At("bind")
    /\ \/ /\ bound' = bound \cup {call.fd}
          /\ IF call.prog THEN Goto("query") /\ UNCHANGED sock ELSE Created
          /\ UNCHANGED faults
       \/ Fails("out_mmap_tx") /\ UNCHANGED <<bound, sock>>
    /\ UNCHANGED <<umem, refcount, fds, maps, attached, xsks_map, lost>>

-----------------------------------------------------------------------------
(* xsk_setup_xdp_prog: is there a program on the interface?                  *)
QueryProgram ==
    /\ At("query")
    /\ Works(IF attached THEN "open program" ELSE "new map") \/ Fails("out_mmap_tx")
    /\ UNCHANGED <<umem, refcount, fds, maps, sock, bound, attached, xsks_map, lost>>

(* xsk_delete_bpf_maps, and the program's descriptor.                        *)
MapFd == <<"map", call.of>>
ProgFd == <<"prog", call.of>>
NewMap ==
    /\ At("new map")
    /\ \/ Works("load") /\ fds' = fds \cup {MapFd}
       \/ Fails("out_mmap_tx") /\ UNCHANGED fds
    /\ UNCHANGED <<umem, refcount, maps, sock, bound, attached, xsks_map, lost>>
LoadProgram ==
    /\ At("load")
    /\ \/ Works("attach") /\ fds' = fds \cup {ProgFd}
       \/ Fails("out_mmap_tx") /\ fds' = fds \ {MapFd}
    /\ UNCHANGED <<umem, refcount, maps, sock, bound, attached, xsks_map, lost>>
AttachProgram ==
    /\ At("attach")
    /\ \/ Works("enter") /\ attached' = TRUE /\ UNCHANGED fds
       \/ Fails("out_mmap_tx") /\ fds' = fds \ {ProgFd, MapFd} /\ UNCHANGED attached
    /\ UNCHANGED <<umem, refcount, maps, sock, bound, xsks_map, lost>>

OpenProgram ==
    /\ At("open program")
    /\ \/ Works("lookup") /\ fds' = fds \cup {ProgFd}
       \/ Fails("out_mmap_tx") /\ UNCHANGED fds
    /\ UNCHANGED <<umem, refcount, maps, sock, bound, attached, xsks_map, lost>>
LookupMaps ==
    /\ At("lookup")
    /\ \/ Works("enter") /\ fds' = fds \cup {MapFd}
       \/ Fails("out_mmap_tx") /\ fds' = fds \ {ProgFd}
    /\ UNCHANGED <<umem, refcount, maps, sock, bound, attached, xsks_map, lost>>

(* xsk_set_bpf_maps.  A program that was just attached stays attached.       *)
EnterMap ==
    /\ At("enter")
    /\ \/ /\ xsks_map' = IF call.rx THEN xsks_map \cup {call.of} ELSE xsks_map
          /\ Created
          /\ UNCHANGED <<fds, faults>>
       \/ /\ call.rx
          /\ Fails("out_mmap_tx")
          /\ fds' = fds \ {MapFd, ProgFd}
          /\ UNCHANGED <<xsks_map, sock>>
    /\ UNCHANGED <<umem, refcount, maps, bound, attached, lost>>

-----------------------------------------------------------------------------
(* The labels at the end of xsk_socket__create: each goes on to the next.    *)
OutMmapTx ==
    /\ At("out_mmap_tx")
    /\ maps' = IF call.tx THEN Unmapped({<<call.of, "tx">>}) ELSE maps
    /\ Goto("out_mmap_rx")
    /\ UNCHANGED <<umem, refcount, fds, sock, bound, attached, xsks_map, faults, lost>>
OutMmapRx ==
    /\ At("out_mmap_rx")
    /\ maps' = IF call.rx THEN Unmapped({<<call.of, "rx">>}) ELSE maps
    /\ Goto("out_socket")
    /\ UNCHANGED <<umem, refcount, fds, sock, bound, attached, xsks_map, faults, lost>>
(* The descriptor is closed unless this was the last reference: then it is   *)
(* the umem's.                                                               *)
OutSocketNoRelease ==
    /\ At("out_socket")
    /\ fds' = IF refcount # 1 THEN fds \ {<<"fd", call.fd>>} ELSE fds
    /\ bound' = IF refcount # 1 THEN bound \ {call.fd} ELSE bound
    /\ call' = None
    /\ UNCHANGED <<umem, refcount, maps, sock, attached, xsks_map, faults, lost>>
OutSocket ==
    /\ At("out_socket")
    /\ refcount' = refcount - 1
    /\ fds' = IF refcount' # 0 THEN fds \ {<<"fd", call.fd>>} ELSE fds
    /\ bound' = IF refcount' # 0 THEN bound \ {call.fd} ELSE bound
    /\ call' = None
    /\ UNCHANGED <<umem, maps, sock, attached, xsks_map, faults, lost>>

(* xsk_socket__delete: the entry in the map, the descriptors, the mappings,  *)
(* which stay when the offsets cannot be had.  The kernel drops the entry of *)
(* a socket that goes away, too.  The program stays attached.                *)
SocketRings(s) ==
    (IF sock[s].rx THEN {<<s, "rx">>} ELSE {}) \cup (IF sock[s].tx THEN {<<s, "tx">>} ELSE {})
OwnFd(s) == IF sock[s].fd = "umem" THEN {} ELSE {s}
DeleteSocket(s) ==
    /\ sock[s] # None /\ call = None
    /\ fds' = fds \ ({"prog", "map"} \X {s} \cup {"fd"} \X OwnFd(s))
    /\ \/ maps' = Unmapped(SocketRings(s)) /\ UNCHANGED <<faults, lost>>
       \/ Fault /\ lost' = lost \cup SocketRings(s) /\ UNCHANGED maps
    /\ xsks_map' = xsks_map \ {s}
    /\ bound' = bound \ OwnFd(s)
    /\ refcount' = refcount - 1
    /\ sock' = [sock EXCEPT ![s] = None]
    /\ UNCHANGED <<umem, call, attached>>

Next ==
    \/ CreateUmem \/ RegisterUmem \/ MapFill \/ MapComp \/ OutMmap \/ OutUmem \/ DeleteUmem
    \/ OpenSocket \/ SetOptions \/ MapRx \/ MapTx \/ Bind
    \/ QueryProgram \/ NewMap \/ LoadProgram \/ AttachProgram
    \/ OpenProgram \/ LookupMaps \/ EnterMap
    \/ OutMmapTx \/ OutMmapRx \/ OutSocket
    \/ \E s \in Sockets : CreateSocket(s) \/ DeleteSocket(s)
Spec == Init /\ [][Next]_xsvars

-----------------------------------------------------------------------------
Live == {s \in Sockets : sock[s] # None}
(* Sockets and the creation under way.                                       *)
Users == Cardinality(Live) + (IF call # None /\ call.of # "umem" THEN 1 ELSE 0)

(* The umem counts its sockets, whatever failed in which order, so that      *)
(* xsk_umem__delete (xsk.c:761) refuses as long as one is left, and only     *)
(* then; the exception is a socket() that failed (xsk.c:619), after which it *)
(* refuses for ever.                                                         *)
UmemCountsSockets ==
    /\ refcount >= Users
    /\ refcount > Users => \E s \in Sockets : <<s, "reference">> \in lost
    /\ umem # "created" => Live = {}

(* Between the calls every descriptor and every mapping belongs to the umem  *)
(* or to a live socket: a call that failed, at whichever step, and the two   *)
(* that delete leave nothing else (xsk.c:740-750).  The exceptions are the   *)
(* mappings the code forgets: the fill ring of a umem whose second mapping   *)
(* failed (xsk.c:311), and the rings of a umem or a socket that is deleted   *)
(* while its offsets cannot be had (xsk.c:764, 792).                         *)
NothingLeft == call = None =>
    LET created == IF umem = "created" THEN {"umem"} ELSE {}
        ours == {"fd"} \X (created \cup {sock[s].fd : s \in Live})
                \cup {"prog", "map"} \X {s \in Live : sock[s].prog}
        rings == created \X {"fill", "comp"} \cup UNION {SocketRings(s) : s \in Live}
    IN  fds = ours /\ rings \subseteq maps /\ maps \subseteq rings \cup lost

(* No socket that is gone is in the map that steers packets, and one that    *)
(* receives by libbpf's program is (xsk.c:480, 542); no two live sockets     *)
(* have the same descriptor.                                                 *)
SocketsReachable ==
    /\ xsks_map \subseteq Live
    /\ \A s \in Live :
        /\ sock[s].prog => attached /\ (sock[s].rx => s \in xsks_map)
        /\ \A other \in Live : sock[other].fd = sock[s].fd => other = s

SocketsSafe == UmemCountsSockets /\ NothingLeft /\ SocketsReachable
=============================================================================
