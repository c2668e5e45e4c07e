------------------------------ MODULE BpfObject ------------------------------
(* The life of a bpf_object in libbpf.c: open, load, pin, unpin and close,   *)
(* by processes that share the BPF file system and may load the same object  *)
(* file.  A map with LIBBPF_PIN_BY_NAME has a pin_path from the beginning:   *)
(* load takes the map that is pinned there, or creates one and pins it.      *)
(* System calls of the processes interleave; a call may fail at any of them. *)
EXTENDS Naturals, Sequences, FiniteSets

CONSTANTS
    Objects,            \* one object per process
    MapSeq,             \* obj->maps, in order
    ByName,             \* the maps pinned by name
    Def,                \* object, map -> its definition (type, sizes, flags)
    Prog,               \* the program of the object
    Root, Dir,          \* the root of automatic pins, and another directory
    MaxIds,             \* bound: kernel objects created
    MaxCalls,           \* bound: pin and unpin calls
    MaxFaults,          \* bound: failing system calls, except unlink
    MaxStuck,           \* bound: paths that unlink cannot remove
    None

VARIABLES
    state,              \* object -> "none", "open", "loading", "loaded", "failed", "closed"
    call,               \* object -> the call under way [op, i, dir, made]
    maps,               \* object, map -> [fd, pin_path, pinned, reused]
    instance,           \* object -> the loaded program, or None
    leaked,             \* object -> what its pin_fd, never closed, still refers to
    pins,               \* BPF file system: path -> [id, by] or None; by a process that ended: None
    kernel,             \* the kernel objects, a sequence of their definitions
    calls, faults,
    unlinked,           \* paths removed while another object counted on them (history)
    stuck               \* paths that could not be removed (history)

objvars == <<state, call, maps, instance, leaked, pins, kernel, calls, faults, unlinked,
             stuck>>

Maps == {MapSeq[i] : i \in 1..Len(MapSeq)}
Paths == {Root, Dir} \X (Maps \cup {Prog})
Ids == 1..MaxIds
Idle == [op |-> "none", i |-> 0, dir |-> None, made |-> {}]
Fresh == [fd |-> None, pin_path |-> None, pinned |-> FALSE, reused |-> FALSE]
Ops == {"none", "before", "reuse", "create", "pin", "programs", "undo",
        "pin maps", "roll back", "pin programs", "unpin maps"}

TypeOK ==
    /\ state \in [Objects -> {"none", "open", "loading", "loaded", "failed", "closed"}]
    /\ \A o \in Objects :
        /\ call[o].op \in Ops /\ call[o].i \in 0..(Len(MapSeq) + 1)
        /\ call[o].dir \in {None, Root, Dir} /\ call[o].made \subseteq Paths
    /\ maps \in [Objects -> [Maps -> [fd : Ids \cup {None}, pin_path : Paths \cup {None},
                                      pinned : BOOLEAN, reused : BOOLEAN]]]
    /\ instance \in [Objects -> Ids \cup {None}]
    /\ leaked \in [Objects -> SUBSET Ids]
    /\ pins \in [Paths -> [id : Ids, by : Objects \cup {None}] \cup {None}]
    /\ Len(kernel) <= MaxIds /\ calls \in 0..MaxCalls /\ faults \in 0..MaxFaults
    /\ unlinked \subseteq Paths /\ stuck \subseteq Paths

Init ==
    /\ state = [o \in Objects |-> "none"]
    /\ call = [o \in Objects |-> Idle]
    /\ maps = [o \in Objects |-> [m \in Maps |-> Fresh]]
    /\ instance = [o \in Objects |-> None]
    /\ leaked = [o \in Objects |-> {}]
    /\ pins = [p \in Paths |-> None]
    /\ kernel = <<>>
    /\ calls = 0 /\ faults = 0
    /\ unlinked = {} /\ stuck = {}

-----------------------------------------------------------------------------
At(o, op) == call[o].op = op
Map(o) == MapSeq[call[o].i]
Goto(o, op) == call' = [call EXCEPT ![o].op = op]
Next_i(o, op) == call' = [call EXCEPT ![o].op = op, ![o].i = @ + 1]
Return(o) == call' = [call EXCEPT ![o] = Idle]
Fault == faults < MaxFaults /\ faults' = faults + 1

(* bpf_object__open: maps pinned by name have their path.                    *)
Open(o) ==
    /\ state[o] = "none"
    /\ state' = [state EXCEPT ![o] = "open"]
    /\ maps' = [maps EXCEPT ![o] = [m \in Maps |->
           [Fresh EXCEPT !.pin_path = IF m \in ByName THEN <<Root, m>> ELSE None]]]
    /\ UNCHANGED <<call, instance, leaked, pins, kernel, calls, faults, unlinked, stuck>>

(* bpf_map__set_pin_path before the load.                                    *)
SetPinPath(o) ==
    /\ state[o] = "open" /\ calls < MaxCalls
    /\ calls' = calls + 1
    /\ \E m \in Maps : \E p \in {None, <<Root, m>>, <<Dir, m>>} \ {maps[o][m].pin_path} :
           maps' = [maps EXCEPT ![o][m].pin_path = p]
    /\ UNCHANGED <<state, call, instance, leaked, pins, kernel, faults, unlinked, stuck>>

(* bpf_object__load_xattr sets loaded first: a second load is refused, after *)
(* a failed one too.  What comes before the maps may fail.                   *)
Load(o) ==
    /\ state[o] = "open"
    /\ state' = [state EXCEPT ![o] = "loading"]
    /\ \/ call' = [call EXCEPT ![o] = [Idle EXCEPT !.op = "reuse", !.i = 1]] /\ UNCHANGED faults
       \/ call' = [call EXCEPT ![o] = [Idle EXCEPT !.op = "undo", !.i = 1]] /\ Fault
    /\ UNCHANGED <<maps, instance, leaked, pins, kernel, calls, unlinked, stuck>>

(* err_out of bpf_object__create_maps closes the maps before i; the others   *)
(* are closed by bpf_object__unload.                                         *)
CreateFails(o) ==
    /\ maps' = [maps EXCEPT ![o] = [m \in Maps |->
           IF \E j \in 1..call[o].i : MapSeq[j] = m THEN [maps[o][m] EXCEPT !.fd = None]
           ELSE maps[o][m]]]
    /\ call' = [call EXCEPT ![o].op = "undo", ![o].i = 1]

(* bpf_object__reuse_map: nothing at the path, a map with other parameters,  *)
(* or the map; its descriptor is duplicated and the first one stays open.    *)
CompatWhatever(o, id) == kernel[id] # Prog
Compat(o, id) == kernel[id] = Def[o][Map(o)]
ReuseMap(o) ==
    LET path == maps[o][Map(o)].pin_path
        found == path # None /\ pins[path] # None
    IN  /\ At(o, "reuse") /\ call[o].i <= Len(MapSeq)
        /\ \/ /\ ~found
              /\ Goto(o, "create")
              /\ UNCHANGED <<maps, leaked, faults>>
           \/ /\ found
              /\ LET id == pins[path].id
                 IN IF Compat(o, id)
                    THEN /\ maps' = [maps EXCEPT ![o][Map(o)] =
                                [@ EXCEPT !.fd = id, !.pinned = TRUE, !.reused = TRUE]]
                         /\ leaked' = [leaked EXCEPT ![o] = @ \cup {id}]
                         /\ Next_i(o, "reuse")
                    ELSE CreateFails(o) /\ UNCHANGED leaked
              /\ UNCHANGED faults
           \/ path # None /\ Fault /\ CreateFails(o) /\ UNCHANGED leaked
        /\ UNCHANGED <<state, instance, pins, kernel, calls, unlinked, stuck>>

(* bpf_object__create_map and the initial content.                           *)
CreateMap(o) ==
    /\ At(o, "create")
    /\ \/ /\ Len(kernel) < MaxIds
          /\ kernel' = Append(kernel, Def[o][Map(o)])
          /\ maps' = [maps EXCEPT ![o][Map(o)].fd = Len(kernel')]
          /\ IF maps[o][Map(o)].pin_path # None THEN Goto(o, "pin") ELSE Next_i(o, "reuse")
          /\ UNCHANGED faults
       \/ Fault /\ CreateFails(o) /\ UNCHANGED kernel
    /\ UNCHANGED <<state, instance, leaked, pins, calls, unlinked, stuck>>

-----------------------------------------------------------------------------
(* bpf_map__pin: what is refused, what is done already, and the path.        *)
Refused(map, path) ==
    \/ map.pin_path # None /\ path \notin {None, map.pin_path}
    \/ map.pin_path = None /\ (path = None \/ map.pinned)
PinPath(map, path) == IF map.pin_path # None THEN map.pin_path ELSE path
CanPin(fd, path) == fd # None /\ pins[path] = None

(* The map is pinned, or was already.                                        *)
Pinned(o, m, path) ==
    LET map == maps[o][m]
        p == PinPath(map, path)
    IN  /\ ~Refused(map, path)
        /\ \/ map.pinned /\ UNCHANGED <<maps, pins>>
           \/ /\ ~map.pinned /\ CanPin(map.fd, p)
              /\ pins' = [pins EXCEPT ![p] = [id |-> map.fd, by |-> o]]
              /\ maps' = [maps EXCEPT ![o][m] = [@ EXCEPT !.pin_path = p, !.pinned = TRUE]]
(* It is not; the map may keep the path all the same.                        *)
NotPinned(o, m, path) ==
    LET map == maps[o][m]
        p == PinPath(map, path)
    IN  \/ Refused(map, path) /\ UNCHANGED <<maps, faults>>
        \/ /\ ~Refused(map, path) /\ ~map.pinned
           /\ CanPin(map.fd, p) => Fault
           /\ ~CanPin(map.fd, p) => UNCHANGED faults
           /\ maps' = [maps EXCEPT ![o][m].pin_path = p]

(* bpf_map__unpin, which removes whatever is at the path; the check of the   *)
(* path and unlink may fail, and the map then counts as pinned still.        *)
Counted(o, p) == \E b \in Objects \ {o}, m \in Maps :
    maps[b][m].pinned /\ maps[b][m].pin_path = p
Unlink(o, p) ==
    /\ pins' = [pins EXCEPT ![p] = None]
    /\ unlinked' = IF Counted(o, p) THEN unlinked \cup {p} ELSE unlinked
CanUnpin(map, path) ==
    /\ map.pin_path # None \/ path # None
    /\ map.pin_path # None => path \in {None, map.pin_path}
    /\ pins[PinPath(map, path)] # None
Unpinned(o, m, path) ==
    /\ CanUnpin(maps[o][m], path)
    /\ Unlink(o, PinPath(maps[o][m], path))
    /\ maps' = [maps EXCEPT ![o][m].pinned = FALSE]
    /\ UNCHANGED <<faults, stuck>>
NotUnpinned(o, m, path) ==
    /\ IF CanUnpin(maps[o][m], path)
       THEN /\ stuck' = stuck \cup {PinPath(maps[o][m], path)}
            /\ Cardinality(stuck') <= MaxStuck
       ELSE UNCHANGED stuck
    /\ UNCHANGED <<maps, pins, faults, unlinked>>
NothingToUnpin == UNCHANGED <<maps, pins, unlinked, faults, stuck>>

(* The automatic pin of bpf_object__create_maps; without it the load fails.  *)
PinFails(o) ==
    /\ CanPin(maps[o][Map(o)].fd, maps[o][Map(o)].pin_path) => Fault
    /\ ~CanPin(maps[o][Map(o)].fd, maps[o][Map(o)].pin_path) => UNCHANGED faults
    /\ CreateFails(o)
AutoPin(o) ==
    /\ At(o, "pin")
    /\ \/ Pinned(o, Map(o), None) /\ Next_i(o, "reuse") /\ UNCHANGED faults
       \/ PinFails(o) /\ UNCHANGED pins
    /\ UNCHANGED <<state, instance, leaked, kernel, calls, unlinked, stuck>>

(* bpf_object__relocate and bpf_object__load_progs.                          *)
LoadProgs(o) ==
    /\ At(o, "reuse") /\ call[o].i > Len(MapSeq)
    /\ \/ /\ Len(kernel) < MaxIds
          /\ kernel' = Append(kernel, Prog)
          /\ instance' = [instance EXCEPT ![o] = Len(kernel')]
          /\ state' = [state EXCEPT ![o] = "loaded"]
          /\ Return(o)
          /\ UNCHANGED faults
       \/ /\ Fault
          /\ call' = [call EXCEPT ![o].op = "undo", ![o].i = 1]
          /\ UNCHANGED <<kernel, instance, state>>
    /\ UNCHANGED <<maps, leaked, pins, calls, unlinked, stuck>>

(* A failed load unpins the maps it pinned, whether this works or not, and   *)
(* unloads the object.                                                       *)
AllPinned(o) == maps[o][Map(o)].pinned
OwnPinned(o) == maps[o][Map(o)].pinned /\ ~maps[o][Map(o)].reused
Undo(o) ==
    /\ At(o, "undo") /\ call[o].i <= Len(MapSeq)
    /\ IF OwnPinned(o) THEN Unpinned(o, Map(o), None) \/ NotUnpinned(o, Map(o), None)
       ELSE NothingToUnpin
    /\ Next_i(o, "undo")
    /\ UNCHANGED <<state, instance, leaked, kernel, calls>>
(* bpf_object__unload                                                        *)
Unloaded(o) ==
    /\ maps' = [maps EXCEPT ![o] = [m \in Maps |-> [maps[o][m] EXCEPT !.fd = None]]]
    /\ instance' = [instance EXCEPT ![o] = None]
UnloadFailed(o) ==
    /\ At(o, "undo") /\ call[o].i > Len(MapSeq)
    /\ Unloaded(o)
    /\ state' = [state EXCEPT ![o] = "failed"]
    /\ Return(o)
    /\ UNCHANGED <<leaked, pins, kernel, calls, faults, unlinked, stuck>>

-----------------------------------------------------------------------------
(* bpf_object__pin_maps and bpf_object__pin (maps, then programs), also on   *)
(* an object whose load failed, for it has `loaded` set.                     *)
Ready(o) == state[o] \in {"loaded", "failed"} /\ At(o, "none") /\ calls < MaxCalls
Begin(o, op, dir) ==
    /\ Ready(o)
    /\ calls' = calls + 1
    /\ call' = [call EXCEPT ![o] = [op |-> op, i |-> 1, dir |-> dir, made |-> {}]]
    /\ UNCHANGED <<state, maps, instance, leaked, pins, kernel, faults, unlinked, stuck>>
Pin(o) == \E dir \in {None, Root, Dir} : Begin(o, "pin maps", dir)
UnpinMaps(o) == \E dir \in {None, Root, Dir} : Begin(o, "unpin maps", dir)

Given(o) == IF call[o].dir = None THEN None ELSE <<call[o].dir, Map(o)>>
Skips(o) == call[o].dir = None /\ maps[o][Map(o)].pin_path = None

PinMap(o) ==
    /\ At(o, "pin maps") /\ call[o].i <= Len(MapSeq)
    /\ \/ Skips(o) /\ Next_i(o, "pin maps") /\ UNCHANGED <<maps, pins, faults>>
       \/ /\ ~Skips(o)
          /\ Pinned(o, Map(o), Given(o))
          /\ call' = [call EXCEPT ![o].i = @ + 1,
                 ![o].made = @ \cup {p \in Paths : pins[p] # pins'[p]}]
          /\ UNCHANGED faults
       \/ /\ ~Skips(o)
          /\ NotPinned(o, Map(o), Given(o))
          /\ call' = [call EXCEPT ![o].op = "roll back", ![o].i = @ - 1]
          /\ UNCHANGED pins
    /\ UNCHANGED <<state, instance, leaked, kernel, calls, unlinked, stuck>>

(* err_unpin_maps: backwards, errors ignored; maps pinned before the call    *)
(* are unpinned as well.                                                     *)
RollBack(o) ==
    /\ At(o, "roll back") /\ call[o].i > 0
    /\ IF maps[o][Map(o)].pin_path # None
       THEN Unpinned(o, Map(o), None) \/ NotUnpinned(o, Map(o), None)
       ELSE NothingToUnpin
    /\ call' = [call EXCEPT ![o].i = @ - 1]
    /\ UNCHANGED <<state, instance, leaked, kernel, calls>>
RolledBack(o) ==
    /\ At(o, "roll back") /\ call[o].i = 0
    /\ Return(o)
    /\ UNCHANGED <<state, maps, instance, leaked, pins, kernel, calls, faults, unlinked, stuck>>

(* bpf_object__pin_programs, for a directory; the maps are unpinned again    *)
(* when it fails.                                                            *)
PinPrograms(o) ==
    LET path == <<call[o].dir, Prog>>
    IN  /\ At(o, "pin maps") /\ call[o].i > Len(MapSeq)
        /\ \/ call[o].dir = None /\ Return(o) /\ UNCHANGED <<pins, faults>>
           \/ /\ call[o].dir # None /\ CanPin(instance[o], path)
              /\ pins' = [pins EXCEPT ![path] = [id |-> instance[o], by |-> o]]
              /\ Return(o)
              /\ UNCHANGED faults
           \/ /\ call[o].dir # None
              /\ CanPin(instance[o], path) => Fault
              /\ ~CanPin(instance[o], path) => UNCHANGED faults
              /\ call' = [call EXCEPT ![o].op = "unpin maps", ![o].i = 1]
              /\ UNCHANGED pins
        /\ UNCHANGED <<state, maps, instance, leaked, kernel, calls, unlinked, stuck>>

(* bpf_object__unpin_maps stops at the first error.                          *)
UnpinMap(o) ==
    /\ At(o, "unpin maps")
    /\ \/ call[o].i > Len(MapSeq) /\ Return(o) /\ NothingToUnpin
       \/ /\ call[o].i <= Len(MapSeq)
          /\ \/ Skips(o) /\ Next_i(o, "unpin maps") /\ NothingToUnpin
             \/ ~Skips(o) /\ Unpinned(o, Map(o), Given(o)) /\ Next_i(o, "unpin maps")
             \/ ~Skips(o) /\ NotUnpinned(o, Map(o), Given(o)) /\ Return(o)
    /\ UNCHANGED <<state, instance, leaked, kernel, calls>>

(* bpf_object__close: pins stay.                                             *)
Close(o) ==
    /\ state[o] \in {"open", "loaded", "failed"} /\ At(o, "none")
    /\ instance' = [instance EXCEPT ![o] = None]
    /\ maps' = [maps EXCEPT ![o] = [m \in Maps |-> Fresh]]
    /\ state' = [state EXCEPT ![o] = "closed"]
    /\ UNCHANGED <<call, leaked, pins, kernel, calls, faults, unlinked, stuck>>

(* The process ends at any point, and is started again.                      *)
Ends(o) ==
    /\ state[o] # "none"
    /\ faults < MaxFaults \/ state[o] = "closed"
    /\ faults' = IF state[o] = "closed" THEN faults ELSE faults + 1
    /\ state' = [state EXCEPT ![o] = "none"]
    /\ call' = [call EXCEPT ![o] = Idle]
    /\ maps' = [maps EXCEPT ![o] = [m \in Maps |-> Fresh]]
    /\ instance' = [instance EXCEPT ![o] = None]
    /\ leaked' = [leaked EXCEPT ![o] = {}]
    /\ pins' = [p \in Paths |-> IF pins[p] # None /\ pins[p].by = o
                               THEN [pins[p] EXCEPT !.by = None] ELSE pins[p]]
    /\ UNCHANGED <<kernel, calls, unlinked, stuck>>

Next == \E o \in Objects :
    \/ Open(o) \/ SetPinPath(o) \/ Load(o) \/ ReuseMap(o) \/ CreateMap(o) \/ AutoPin(o)
    \/ LoadProgs(o) \/ Undo(o) \/ UnloadFailed(o) \/ Pin(o) \/ UnpinMaps(o) \/ PinMap(o)
    \/ RollBack(o) \/ RolledBack(o) \/ PinPrograms(o) \/ UnpinMap(o) \/ Close(o) \/ Ends(o)
Spec == Init /\ [][Next]_objvars

-----------------------------------------------------------------------------
(* Processes that loaded a map by the same path share one map, as long as    *)
(* nobody unpinned it: the lookup and the pin are two system calls, and what *)
(* makes this true is that the second pin fails the load.                    *)
SharedByName == \A a, b \in Objects : \A m \in Maps :
    LET p == maps[a][m].pin_path
    IN  /\ state[a] = "loaded" /\ state[b] = "loaded"
        /\ maps[a][m].pinned /\ maps[b][m].pinned
        /\ p = maps[b][m].pin_path /\ p \notin unlinked
        => maps[a][m].fd = maps[b][m].fd

(* A loaded object has the maps its programs were written for, whoever       *)
(* created them.                                                             *)
LoadedMapsMatch == \A o \in Objects : state[o] = "loaded" =>
    \A m \in Maps : maps[o][m].fd # None /\ kernel[maps[o][m].fd] = Def[o][m]

(* A load that failed leaves no descriptor, and no pin that it made: neither *)
(* the map at which it failed nor those before it.  The exception is a pin   *)
(* that unlink did not remove, which the code does not look at (5660).       *)
FailedLoadLeavesNothing == \A o \in Objects : state[o] = "failed" =>
    /\ instance[o] = None /\ \A m \in Maps : maps[o][m].fd = None
    /\ \A p \in Paths : pins[p] # None => pins[p].by # o \/ p \in unlinked \cup stuck

(* It removes no pin of another process, unless the path was unpinned and    *)
(* pinned again behind its back.                                             *)
FailedLoadKeepsForeignPins == [][\A o \in Objects : At(o, "undo") /\ call'[o] # call[o] =>
    \A p \in Paths : pins[p] # None /\ pins'[p] = None =>
        pins[p].by = o \/ p \in unlinked]_objvars

(* bpf_map__is_pinned tells the truth to the process that loaded the map,    *)
(* unless another one unpinned it.                                           *)
PinnedMeansPinned == \A o \in Objects, m \in Maps :
    LET map == maps[o][m]
    IN  map.pinned /\ map.fd # None /\ map.pin_path \notin unlinked =>
            pins[map.pin_path] # None /\ pins[map.pin_path].id = map.fd

(* A call of bpf_object__pin or bpf_object__pin_maps that fails leaves none  *)
(* of the pins it made, as long as nobody removes a pin under another's      *)
(* feet, except those that unlink did not remove: the code goes on to the    *)
(* others in bpf_object__pin_maps (6067), and bpf_object__unpin_maps, with   *)
(* which bpf_object__pin takes its maps back (6201), stops at the first.     *)
Position(p) == CHOOSE i \in 1..Len(MapSeq) : MapSeq[i] = p[2]
PinsAllOrNothing == [][\A o \in Objects :
    (At(o, "roll back") \/ (At(o, "unpin maps") /\ call[o].made # {}))
        /\ state'[o] = state[o] /\ call'[o].op = "none" /\ unlinked = {} =>
        \A p \in call[o].made : pins'[p] # None /\ pins'[p].by = o =>
            IF At(o, "roll back") THEN p \in stuck'
            ELSE \E q \in stuck' : Position(q) <= Position(p)]_objvars

(* What the end of a failed bpf_object__pin_maps removes are pins of maps of *)
(* this object, also those that were there before the call, and never one of *)
(* another map that is at the path, as long as the object is loaded and      *)
(* nobody removes a pin under another's feet (6067).                         *)
RollsBackOwnMaps == [][\A o \in Objects :
    At(o, "roll back") /\ state[o] = "loaded" /\ state'[o] = "loaded" /\ call'[o] # call[o] =>
        \A p \in Paths : pins[p] # None /\ pins'[p] = None =>
            p \in unlinked \/ \E m \in Maps : maps[o][m].pin_path = p /\ maps[o][m].fd = pins[p].id
    ]_objvars
=============================================================================
