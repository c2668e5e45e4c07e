------------------------------- MODULE BpfLink -------------------------------
(* Links and skeletons of libbpf.c: a process loads the skeleton of an       *)
(* object, attaches its programs and its struct_ops map, pins, disconnects   *)
(* and destroys links, ends at any moment, and a later process opens what    *)
(* was pinned.  Descriptors are numbers that the kernel gives out again as   *)
(* soon as they are closed.  The kernel drops a hook with its last           *)
(* reference; a perf event cannot be pinned, and a registered struct_ops map *)
(* stays registered until its element is deleted.                            *)
EXTENDS Naturals, Sequences, FiniteSets

CONSTANTS
    Kind,           \* the programs of the skeleton: "perf", "raw" or "none"
    MaxFd,          \* bound: descriptors
    MaxHooks,       \* bound: attachments
    MaxCalls,       \* bound: calls of the library
    MaxFaults,      \* bound: failing system calls and crashes
    None

VARIABLES
    obj,            \* "none" or "loaded"
    prog_fd,        \* program -> its descriptor
    map_fd,         \* descriptor of the struct_ops map
    fdtab,          \* descriptor -> what it refers to, or None
    links,          \* slot (a program of the skeleton, or one of three others) ->
                    \* None or [fd, detach, pinned, disconnected, target, stale]
    attaching,      \* the program bpf_object__attach_skeleton is at, or 0
    event,          \* the perf event opened for that program, [fd, refused], or None
    hooks,          \* number of hooks so far
    registered,     \* the struct_ops map is registered
    pin,            \* what is pinned at the path, or None
    unlinked,       \* the path was unpinned through another link (history)
    released,       \* hooks let go without detaching, or lost (history)
    calls, faults

lkvars == <<obj, prog_fd, map_fd, fdtab, links, attaching, event, hooks, registered, pin,
            unlinked, released, calls, faults>>

Progs == 1..Len(Kind)
Cgroup == Len(Kind) + 1
Ops == Len(Kind) + 2
Opened == Len(Kind) + 3
Slots == Progs \cup {Cgroup, Ops, Opened}
Fds == 1..MaxFd
Prog(i) == <<"prog", i>>
StructOps == <<"map", 0>>
Hook(n) == <<"hook", n>>
Hooks == {Hook(n) : n \in 1..MaxHooks}
Things == {Prog(i) : i \in Progs} \cup {StructOps} \cup Hooks

TypeOK ==
    /\ obj \in {"none", "loaded"}
    /\ prog_fd \in [Progs -> Fds \cup {0}] /\ map_fd \in Fds \cup {0}
    /\ fdtab \in [Fds -> Things \cup {None}]
    /\ links \in [Slots -> {None} \cup
           [fd : Fds, detach : {"fd", "perf_event", "struct_ops"}, pinned : BOOLEAN,
            disconnected : BOOLEAN, target : Things, stale : BOOLEAN]]
    /\ attaching \in 0..Len(Kind)
    /\ event \in {None} \cup [fd : Fds, refused : BOOLEAN]
    /\ hooks \in 0..MaxHooks
    /\ registered \in BOOLEAN /\ pin \in Things \cup {None}
    /\ unlinked \in BOOLEAN /\ released \subseteq Things
    /\ calls \in 0..MaxCalls /\ faults \in 0..MaxFaults

Init ==
    /\ obj = "none"
    /\ prog_fd = [i \in Progs |-> 0]
    /\ map_fd = 0
    /\ fdtab = [n \in Fds |-> None]
    /\ links = [s \in Slots |-> None]
    /\ attaching = 0
    /\ event = None
    /\ hooks = 0
    /\ registered = FALSE
    /\ pin = None
    /\ unlinked = FALSE
    /\ released = {}
    /\ calls = 0 /\ faults = 0

Fault == faults < MaxFaults /\ faults' = faults + 1
Free(tab, n) == tab[n] = None /\ \A k \in 1..(n - 1) : tab[k] # None
OpenFd(n, thing) == Free(fdtab, n) /\ fdtab' = [fdtab EXCEPT ![n] = thing]
Link(n, detach, thing) ==
    [fd |-> n, detach |-> detach, pinned |-> FALSE, disconnected |-> FALSE, target |-> thing,
     stale |-> FALSE]
Call == attaching = 0 /\ calls < MaxCalls /\ calls' = calls + 1

-----------------------------------------------------------------------------
(* bpf_object__open_skeleton and bpf_object__load_skeleton: descriptors for  *)
(* the map and the programs, in this order.  A failure leaves an object      *)
(* without descriptors, which destroy_skeleton closes.                       *)
LoadSkeleton ==
    /\ Call /\ obj = "none"
    /\ \E fds \in [0..Len(Kind) -> Fds] :
        /\ \A i \in 0..Len(Kind) : fdtab[fds[i]] = None
        /\ \A i \in 1..Len(Kind) : fds[i - 1] < fds[i]
        /\ \A n \in Fds : n < fds[Len(Kind)] /\ fdtab[n] = None => \E i \in 0..Len(Kind) : fds[i] = n
        /\ map_fd' = fds[0]
        /\ prog_fd' = [i \in Progs |-> fds[i]]
        /\ fdtab' = [n \in Fds |-> IF n = fds[0] THEN StructOps
                                   ELSE IF \E i \in Progs : fds[i] = n
                                        THEN Prog(CHOOSE i \in Progs : fds[i] = n)
                                        ELSE fdtab[n]]
    /\ obj' = "loaded"
    /\ UNCHANGED <<links, attaching, event, hooks, registered, pin, unlinked, released, faults>>

(* A link for a hook of the kernel: a raw tracepoint or BTF id, a cgroup.     *)
(* The slot's former link, if there is one, is forgotten.                    *)
Forgotten(slot) ==
    IF links[slot] = None THEN released ELSE released \cup {links[slot].target}
Hooked(n) ==
    /\ hooks < MaxHooks
    /\ hooks' = hooks + 1
    /\ OpenFd(n, Hook(hooks'))
AttachRaw(slot) ==
    /\ \E n \in Fds :
        /\ Hooked(n)
        /\ links' = [links EXCEPT ![slot] = Link(n, "fd", Hook(hooks'))]
    /\ released' = Forgotten(slot)

(* bpf_object__attach_skeleton: one program after the other, those without   *)
(* an attach function are left out, and a failure ends it where it is.       *)
Following(i) == IF i < Len(Kind) THEN i + 1 ELSE 0
AttachSkeleton ==
    /\ Call /\ obj = "loaded"
    /\ attaching' = 1
    /\ UNCHANGED <<obj, prog_fd, map_fd, fdtab, links, event, hooks, registered, pin, unlinked,
                   released, faults>>
AttachFails ==
    /\ released' = Forgotten(attaching)
    /\ links' = [links EXCEPT ![attaching] = None]
    /\ attaching' = 0
AttachProgram ==
    /\ attaching # 0 /\ event = None
    /\ \/ /\ Kind[attaching] = "none"
          /\ attaching' = Following(attaching)
          /\ UNCHANGED <<fdtab, links, hooks, released, faults>>
       \/ /\ Kind[attaching] = "raw"
          /\ AttachRaw(attaching)
          /\ attaching' = Following(attaching)
          /\ UNCHANGED faults
       \/ Kind[attaching] # "none" /\ Fault /\ AttachFails /\ UNCHANGED <<fdtab, hooks>>
    /\ UNCHANGED <<obj, prog_fd, map_fd, event, registered, pin, unlinked, calls>>

(* A kprobe, uprobe or tracepoint: the perf event is opened first; the       *)
(* program is set and the event enabled; when one of these fails,            *)
(* bpf_program__attach_perf_event leaves the descriptor to its caller.       *)
OpenEvent ==
    /\ attaching # 0 /\ Kind[attaching] = "perf" /\ event = None
    /\ \E n \in Fds : Hooked(n) /\ event' = [fd |-> n, refused |-> FALSE]
    /\ UNCHANGED <<obj, prog_fd, map_fd, links, attaching, registered, pin, unlinked, released,
                   calls, faults>>
AttachPerf ==
    /\ event # None /\ ~event.refused
    /\ \/ /\ links' = [links EXCEPT ![attaching] =
                 Link(event.fd, "perf_event", fdtab[event.fd])]
          /\ released' = Forgotten(attaching)
          /\ attaching' = Following(attaching)
          /\ event' = None
          /\ UNCHANGED faults
       \/ /\ Fault
          /\ event' = [event EXCEPT !.refused = TRUE]
          /\ UNCHANGED <<links, released, attaching>>
    /\ UNCHANGED <<obj, prog_fd, map_fd, fdtab, hooks, registered, pin, unlinked, calls>>
CloseEvent ==
    /\ event # None /\ event.refused
    /\ fdtab' = [fdtab EXCEPT ![event.fd] = None]
    /\ event' = None
    /\ AttachFails
    /\ UNCHANGED <<obj, prog_fd, map_fd, hooks, registered, pin, unlinked, calls, faults>>

(* bpf_program__attach_cgroup, the application keeps the link.               *)
AttachCgroup ==
    /\ Call /\ obj = "loaded" /\ links[Cgroup] = None
    /\ AttachRaw(Cgroup)
    /\ UNCHANGED <<obj, prog_fd, map_fd, attaching, event, registered, pin, unlinked, faults>>

(* bpf_map__attach_struct_ops: the link borrows the descriptor of the map.   *)
(* A map that is registered already is refused by the kernel.                *)
AttachStructOps ==
    /\ Call /\ obj = "loaded" /\ links[Ops] = None /\ ~registered
    /\ registered' = TRUE
    /\ links' = [links EXCEPT ![Ops] = Link(map_fd, "struct_ops", StructOps)]
    /\ UNCHANGED <<obj, prog_fd, map_fd, fdtab, attaching, event, hooks, pin, unlinked, released, faults>>

-----------------------------------------------------------------------------
(* bpf_link__pin, also of a struct_ops link, which pins the map.             *)
Pin(slot) ==
    /\ Call /\ links[slot] # None /\ ~links[slot].pinned
    /\ pin = None
    /\ links[slot].detach # "perf_event"
    /\ fdtab[links[slot].fd] # None
    /\ pin' = fdtab[links[slot].fd]
    /\ links' = [links EXCEPT ![slot].pinned = TRUE]
    /\ UNCHANGED <<obj, prog_fd, map_fd, fdtab, attaching, event, hooks, registered, unlinked, released,
                   faults>>

(* bpf_link__unpin removes whatever is at the path.                          *)
Unpin(slot) ==
    /\ Call /\ links[slot] # None /\ links[slot].pinned
    /\ pin # None
    /\ pin' = None
    /\ unlinked' = (unlinked \/ \E other \in Slots \ {slot} : links[other] # None /\ links[other].pinned)
    /\ links' = [links EXCEPT ![slot].pinned = FALSE]
    /\ UNCHANGED <<obj, prog_fd, map_fd, fdtab, attaching, event, hooks, registered, released, faults>>

(* bpf_link__open                                                            *)
OpenPinned ==
    /\ Call /\ links[Opened] = None /\ pin # None
    /\ \E n \in Fds :
        /\ OpenFd(n, pin)
        /\ links' = [links EXCEPT ![Opened] = [Link(n, "fd", pin) EXCEPT !.pinned = TRUE]]
    /\ UNCHANGED <<obj, prog_fd, map_fd, attaching, event, hooks, registered, pin, unlinked, released,
                   faults>>

Disconnect(slot) ==
    /\ Call /\ links[slot] # None /\ ~links[slot].disconnected
    /\ links' = [links EXCEPT ![slot].disconnected = TRUE]
    /\ UNCHANGED <<obj, prog_fd, map_fd, fdtab, attaching, event, hooks, registered, pin, unlinked,
                   released, faults>>

(* bpf_link__detach_fd, bpf_link__detach_perf_event close the descriptor,    *)
(* whatever the ioctl says; bpf_link__detach_struct_ops deletes an element   *)
(* of whatever map the number stands for now.                                *)
ClosesAll(link) == ~link.disconnected
Closes(link) == ~link.disconnected /\ link.detach # "struct_ops"
Unregisters(link) ==
    ~link.disconnected /\ link.detach = "struct_ops" /\ fdtab[link.fd] = StructOps

(* bpf_link__destroy of the links in some slots.                             *)
DestroyLinks(slots) ==
    LET gone == {links[s] : s \in slots} \ {None}
    IN  /\ fdtab' = [n \in Fds |->
               IF \E link \in gone : Closes(link) /\ link.fd = n THEN None ELSE fdtab[n]]
        /\ registered' = (registered /\ ~\E link \in gone : Unregisters(link))
        /\ released' = released \cup {link.target : link \in {x \in gone : x.disconnected}}
        /\ links' = [s \in Slots |-> IF s \in slots THEN None ELSE links[s]]

Destroy(slot) ==
    /\ Call /\ slot \notin Progs /\ links[slot] # None
    /\ DestroyLinks({slot})
    /\ UNCHANGED <<obj, prog_fd, map_fd, attaching, event, hooks, pin, unlinked, faults>>

DetachSkeleton ==
    /\ Call /\ obj = "loaded"
    /\ DestroyLinks(Progs)
    /\ UNCHANGED <<obj, prog_fd, map_fd, attaching, event, hooks, pin, unlinked, faults>>

(* bpf_object__destroy_skeleton detaches the programs, then closes the       *)
(* object with its descriptors.  Links the application made itself it must   *)
(* have destroyed before: the struct_ops link keeps a number that is closed. *)
DestroySkeleton ==
    /\ Call /\ obj = "loaded"
    /\ LET gone == {links[s] : s \in Progs} \ {None}
       IN  /\ fdtab' = [n \in Fds |->
                  IF n = map_fd \/ (\E i \in Progs : prog_fd[i] = n)
                        \/ \E link \in gone : Closes(link) /\ link.fd = n
                  THEN None ELSE fdtab[n]]
           /\ released' = released \cup {link.target : link \in {x \in gone : x.disconnected}}
           /\ links' = [s \in Slots |-> IF s \in Progs THEN None
                   ELSE IF s = Ops /\ links[s] # None THEN [links[s] EXCEPT !.stale = TRUE]
                   ELSE links[s]]
    /\ obj' = "none"
    /\ prog_fd' = [i \in Progs |-> 0]
    /\ map_fd' = 0
    /\ UNCHANGED <<attaching, event, hooks, registered, pin, unlinked, faults>>

(* The process ends, at any step, and another one is started.                *)
Ends ==
    /\ Fault
    /\ obj' = "none"
    /\ prog_fd' = [i \in Progs |-> 0]
    /\ map_fd' = 0
    /\ fdtab' = [n \in Fds |-> None]
    /\ links' = [s \in Slots |-> None]
    /\ attaching' = 0 /\ event' = None
    /\ released' = {}
    /\ unlinked' = FALSE
    /\ UNCHANGED <<hooks, registered, pin, calls>>

Next ==
    \/ LoadSkeleton \/ AttachSkeleton \/ AttachProgram
    \/ OpenEvent \/ AttachPerf \/ CloseEvent
    \/ AttachCgroup \/ AttachStructOps
    \/ OpenPinned \/ DetachSkeleton \/ DestroySkeleton \/ Ends
    \/ \E s \in Slots : Pin(s) \/ Unpin(s) \/ Disconnect(s) \/ Destroy(s)
Spec == Init /\ [][Next]_lkvars

-----------------------------------------------------------------------------
Attached(thing) == pin = thing \/ \E n \in Fds : fdtab[n] = thing

(* A link detaches what it attached: its descriptor was not closed, and not  *)
(* given to something else, as long as it lives (libbpf.c:7312-7343).  A     *)
(* struct_ops link that outlives its object is the exception: its number is  *)
(* closed, and may be another file's (7940), in which it then deletes an     *)
(* element; but it never closes that file.                                   *)
LinkOwnsDescriptor == \A s \in Slots : links[s] # None =>
    \/ fdtab[links[s].fd] = links[s].target
    \/ links[s].stale

(* Nothing stays attached, and no descriptor stays open, that no link stands *)
(* for: it is pinned, was disconnected, its link was overwritten by a second *)
(* bpf_object__attach_skeleton (libbpf.c:8857), or its attachment is under   *)
(* way; also not when a perf event was opened and could not be enabled.      *)
AttachedIsHeld ==
    /\ \A h \in Hooks : Attached(h) =>
        \/ h \in released \cup {pin}
        \/ \E s \in Slots : links[s] # None /\ links[s].target = h
        \/ event # None /\ fdtab[event.fd] = h
    /\ obj = "none" /\ (\A s \in Slots : links[s] = None) =>
        \A n \in Fds : fdtab[n] # None => fdtab[n] \in released

(* bpf_link__pin_path tells where the link is pinned, unless the file was    *)
(* removed through another link of the process (libbpf.c:7402).              *)
PinPathTrue == \A s \in Slots :
    links[s] # None /\ links[s].pinned /\ ~links[s].stale /\ ~unlinked =>
        pin = links[s].target

(* Destroying links leaves the descriptors of the object alone: those of the *)
(* programs, and that of the map a struct_ops link borrows (libbpf.c:7898).  *)
ObjectKeepsDescriptors == obj = "loaded" =>
    /\ fdtab[map_fd] = StructOps
    /\ \A i \in Progs : fdtab[prog_fd[i]] = Prog(i)

LinksSafe == ObjectKeepsDescriptors /\ LinkOwnsDescriptor /\ AttachedIsHeld /\ PinPathTrue
=============================================================================
