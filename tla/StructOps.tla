------------------------------ MODULE StructOps -------------------------------
(* libbpf.c: struct_ops maps.  A variable of section .struct_ops is a table  *)
(* of functions laid out as the object was compiled; relocations say which   *)
(* program fills which slot; at load time the table is laid out again as the *)
(* running kernel has the structure, member by member, by name; attaching    *)
(* writes the programs' descriptors.  Offsets and sizes count words.         *)
EXTENDS Integers, Sequences, FiniteSets

CONSTANTS
    Vars,           \* the variables of the section: sequences of [type, off]
    LocalTypes,     \* type id -> [name, struct, size, members]
    Kernels,        \* name -> [type, id, vsize, doff] of the running kernel
    Relocs,         \* sequences of [off, prog]: the programs' places in the section
    SecType,        \* program -> the type its section name stands for, or None
    SecSize,        \* the words of section .struct_ops
    MaxFaults,      \* bound: failing allocations
    None

VARIABLES
    vars, kernel, relocs,   \* the object file and the kernel it is loaded on
    phase,          \* open, reloc, load, attach, done
    n,              \* the next variable, relocation or map
    maps,           \* [type, off, progs, func_off, vdata]
    progs,          \* program -> [type, attach_btf_id, expected_attach_type]
    err,
    faults

stvars == <<vars, kernel, relocs, phase, n, maps, progs, err, faults>>
world == <<vars, kernel, relocs>>

EINVAL == -22  ENOTSUP == -95  ENOENT == -2  ENOMEM == -12

Progs == DOMAIN SecType
Word(off) == 100 + off          \* what the object file has at an offset

Type(m) == LocalTypes[m.type]
Slots(m) == DOMAIN Type(m).members

---------------------------------------------------------------------------
Init ==
    /\ vars \in Vars /\ kernel \in Kernels /\ relocs \in Relocs
    /\ phase = "open" /\ n = 1 /\ maps = <<>>
    /\ progs = [p \in Progs |-> [type |-> "unspec", attach_btf_id |-> 0, expected_attach_type |-> 0]]
    /\ err = 0 /\ faults = 0

Fail(e) ==
    /\ err' = e /\ phase' = "done"
    /\ UNCHANGED <<world, n, maps, progs, faults>>

Fault ==
    /\ phase \in {"open", "load"} /\ n <= IF phase = "open" THEN Len(vars) ELSE Len(maps)
    /\ faults < MaxFaults /\ faults' = faults + 1
    /\ err' = ENOMEM /\ phase' = "done"
    /\ UNCHANGED <<world, n, maps, progs>>

Goto(ph) == phase' = ph /\ n' = 1

(* bpf_object__init_struct_ops_maps, one variable.                           *)
init_struct_ops_maps ==
    LET v == vars[n]
    IN /\ phase = "open" /\ n <= Len(vars)
       /\ CASE LocalTypes[v.type].name = "" -> Fail(ENOTSUP)
            [] LocalTypes[v.type].name # "" /\ ~LocalTypes[v.type].struct -> Fail(EINVAL)
            [] OTHER ->
                 IF v.off + LocalTypes[v.type].size > SecSize THEN Fail(EINVAL)
                 ELSE /\ maps' = Append(maps, [type |-> v.type, off |-> v.off,
                                    progs |-> [i \in DOMAIN LocalTypes[v.type].members |-> None],
                                    func_off |-> [i \in DOMAIN LocalTypes[v.type].members |-> None],
                                    vdata |-> <<>>])
                      /\ n' = n + 1
                      /\ UNCHANGED <<world, phase, progs, err, faults>>

OpenEnd ==
    /\ phase = "open" /\ n > Len(vars) /\ Goto("reloc")
    /\ UNCHANGED <<world, maps, progs, err, faults>>

---------------------------------------------------------------------------
(* find_struct_ops_map_by_offset and find_member_by_offset.                  *)
MapsAt(off) == {k \in DOMAIN maps : off \in maps[k].off..(maps[k].off + Type(maps[k]).size - 1)}
First(S) == CHOOSE k \in S : \A j \in S : k <= j
MembersAt(m, moff) == {i \in Slots(m) : Type(m).members[i].off = moff}

Fits(p, m, i) ==
    IF progs[p].type = "unspec" THEN SecType[p] \in {None, "struct_ops"}
    ELSE progs[p] = [type |-> "struct_ops", attach_btf_id |-> m.type, expected_attach_type |-> i]

(* bpf_object__collect_st_ops_relos, one relocation.                         *)
collect_st_ops_relos ==
    LET r == relocs[n]
        k == First(MapsAt(r.off))
        m == maps[k]
        here == MembersAt(m, r.off - m.off)
        i == First(here)
    IN /\ phase = "reloc" /\ n <= Len(relocs)
       /\ IF MapsAt(r.off) = {} THEN Fail(EINVAL)
          ELSE IF here = {} THEN Fail(EINVAL)
          ELSE IF Type(m).members[i].kind # "func" \/ r.prog = None THEN Fail(EINVAL)
          ELSE IF ~Fits(r.prog, m, i) THEN Fail(EINVAL)
          ELSE /\ progs' = [progs EXCEPT ![r.prog] =
                     [type |-> "struct_ops", attach_btf_id |-> m.type, expected_attach_type |-> i]]
               /\ maps' = [maps EXCEPT ![k].progs[i] = r.prog]
               /\ n' = n + 1
               /\ UNCHANGED <<world, phase, err, faults>>

RelocEnd ==
    /\ phase = "reloc" /\ n > Len(relocs) /\ Goto("load")
    /\ UNCHANGED <<world, maps, progs, err, faults>>

---------------------------------------------------------------------------
(* find_member_by_name, in the structure of the kernel.                      *)
ByName(kt, name) == {j \in DOMAIN kt.members : kt.members[j].name = name}

(* The first member that cannot be carried over decides the error.           *)
Unmatched(m, kt) ==
    {i \in Slots(m) :
        LET x == Type(m).members[i]
            y == kt.members[First(ByName(kt, x.name))]
        IN IF ByName(kt, x.name) = {} THEN TRUE
           ELSE \/ x.kind = "bitfield" \/ y.kind = "bitfield"
                \/ x.kind # y.kind \/ x.kind = "ptr"
                \/ x.kind = "data" /\ x.size # y.size}

(* A mutant: members are carried over to the places they were compiled for.  *)
KernelOffLocal(m, kt, i) == Type(m).members[i].off
KernelOff(m, kt, i) == kt.members[First(ByName(kt, Type(m).members[i].name))].off

Laid(m, k) ==
    LET kt == k.type
        from(i) == m.off + Type(m).members[i].off
        at(i) == k.doff + KernelOff(m, kt, i)
        copied == {i \in Slots(m) : Type(m).members[i].kind = "data"}
        src(w) == {i \in copied : w \in at(i)..(at(i) + Type(m).members[i].size - 1)}
    IN [w \in 0..(k.vsize - 1) |->
           IF src(w) = {} THEN 0
           ELSE LET i == CHOOSE x \in src(w) : TRUE IN Word(from(i) + w - at(i))]

(* bpf_map__init_kern_struct_ops, one map.                                   *)
init_kern_struct_ops ==
    LET m == maps[n]
        k == kernel[Type(m).name]
        kt == k.type
    IN /\ phase = "load" /\ n <= Len(maps)
       /\ CASE Type(m).name \notin DOMAIN kernel -> Fail(ENOENT)
            [] OTHER ->
                 CASE k.doff = None -> Fail(EINVAL)
                   [] OTHER ->
                        IF Unmatched(m, kt) # {} THEN Fail(ENOTSUP)
                        ELSE /\ maps' = [maps EXCEPT ![n].vdata = Laid(m, k),
                                   ![n].func_off = [i \in Slots(m) |->
                                       IF m.progs[i] = None THEN None ELSE k.doff + KernelOff(m, kt, i)]]
                             /\ progs' = [p \in Progs |->
                                   IF \E i \in Slots(m) : m.progs[i] = p
                                   THEN [progs[p] EXCEPT !.attach_btf_id = k.id,
                                         !.expected_attach_type =
                                            First(ByName(kt, Type(m).members[CHOOSE i \in Slots(m) : m.progs[i] = p].name))]
                                   ELSE progs[p]]
                             /\ n' = n + 1
                             /\ UNCHANGED <<world, phase, err, faults>>

LoadEnd ==
    /\ phase = "load" /\ n > Len(maps) /\ Goto("attach")
    /\ UNCHANGED <<world, maps, progs, err, faults>>

(* bpf_map__attach_struct_ops: the descriptors go where the kernel has the   *)
(* functions.                                                                *)
FdOf(p) == 200 + p
attach_struct_ops ==
    LET m == maps[n]
    IN /\ phase = "attach" /\ n <= Len(maps)
       /\ maps' = [maps EXCEPT ![n].vdata = [w \in DOMAIN m.vdata |->
                      IF \E i \in Slots(m) : m.func_off[i] = w
                      THEN FdOf(m.progs[CHOOSE i \in Slots(m) : m.func_off[i] = w]) ELSE m.vdata[w]]]
       /\ n' = n + 1
       /\ UNCHANGED <<world, phase, progs, err, faults>>
AttachEnd ==
    /\ phase = "attach" /\ n > Len(maps) /\ Goto("done")
    /\ UNCHANGED <<world, maps, progs, err, faults>>

Next ==
    \/ init_struct_ops_maps \/ OpenEnd
    \/ collect_st_ops_relos \/ RelocEnd
    \/ init_kern_struct_ops \/ LoadEnd
    \/ attach_struct_ops \/ AttachEnd
    \/ Fault

---------------------------------------------------------------------------
TypeOK ==
    /\ phase \in {"open", "reloc", "load", "attach", "done"} /\ n >= 1
    /\ err # 0 => phase = "done"
    /\ faults \in 0..MaxFaults

Done == phase = "done" /\ err = 0

(* The last relocation of a slot decides who fills it.                       *)
Given(m, i) ==
    LET at == {j \in DOMAIN relocs : relocs[j].off = m.off + Type(m).members[i].off}
    IN IF at = {} THEN None ELSE relocs[CHOOSE j \in at : \A x \in at : x <= j].prog

(* The kernel finds each program under the name of the member the object     *)
(* gave it, and each datum under its own; the members only it has are zero.  *)
TableRight ==
    Done => \A m \in {maps[k] : k \in DOMAIN maps} :
        LET k == kernel[Type(m).name]
            kt == k.type
            Mine(j) == {i \in Slots(m) : Type(m).members[i].name = kt.members[j].name}
            x(j) == Type(m).members[First(Mine(j))]
        IN \A j \in DOMAIN kt.members : \A w \in 0..(kt.members[j].size - 1) :
             m.vdata[k.doff + kt.members[j].off + w] =
                IF Mine(j) = {} THEN 0
                ELSE IF kt.members[j].kind = "data" THEN Word(m.off + x(j).off + w)
                ELSE IF Given(m, First(Mine(j))) = None THEN 0
                ELSE FdOf(Given(m, First(Mine(j))))

(* What the verifier is told of a program, the structure and the member it   *)
(* implements, is true of every slot the program fills.                      *)
VerifiedAsUsed ==
    Done => \A m \in {maps[k] : k \in DOMAIN maps} : \A i \in Slots(m) :
        m.progs[i] # None =>
            LET k == kernel[Type(m).name]
                p == progs[m.progs[i]]
            IN /\ p.type = "struct_ops" /\ p.attach_btf_id = k.id
               /\ k.type.members[p.expected_attach_type].name = Type(m).members[i].name

StructOpsRight == TableRight /\ VerifiedAsUsed
================================================================================
