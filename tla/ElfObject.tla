------------------------------- MODULE ElfObject ------------------------------
(* libbpf.c: bpf_object__open reads the sections of an ELF file, the type    *)
(* information and the definitions of the maps, and names the programs;      *)
(* bpf_object__load rewrites the type information for kernels that lack some *)
(* of its kinds.  Sections count from 1, as in the file.                     *)
EXTENDS Integers, Sequences, SequencesExt

CONSTANTS
    Files,          \* [secs, syms, mapsec, vars, externs, btf_ok, ext_ok, data_ok, types]
    CapSets,        \* what kernels know: subsets of {"datasec", "func", "func_global"}
    DefSize,        \* sizeof(struct bpf_map_def)
    MaxFaults,      \* bound: failing allocations
    None

VARIABLES
    file, strict, caps,
    pc, n,          \* the stage, and the next section, symbol, variable or program
    efile,          \* the section index by name; 0 for -1
    progs, maps,
    btf, btf_ext,   \* whether the object holds them
    types,          \* the types of the BTF
    err, faults

elfvars == <<file, strict, caps, pc, n, efile, progs, maps, btf, btf_ext, types, err, faults>>
world == <<file, strict, caps>>

EINVAL == -22  ENOTSUP == -95  ENOENT == -2  ENOMEM == -12  EOPNOTSUPP == -95  FORMAT == -4001

Named == {"maps", ".maps", ".BTF", ".BTF.ext"}
Sec(k) == file.secs[k]

Init ==
    /\ file \in Files /\ strict \in BOOLEAN /\ caps \in CapSets
    /\ pc = "elf" /\ n = 1
    /\ efile = [s \in Named \cup {".text", ".data", ".rodata", ".bss", ".struct_ops", "symtab"} |-> 0]
    /\ progs = <<>> /\ maps = <<>> /\ btf = FALSE /\ btf_ext = FALSE
    /\ types = file.types /\ err = 0 /\ faults = 0

Fail(e) ==
    /\ err' = e /\ pc' = "failed"
    /\ UNCHANGED <<world, n, efile, progs, maps, btf, btf_ext, types, faults>>

Fault ==
    /\ pc \in {"elf", "user", "btfmaps", "global", "names"}
    /\ faults < MaxFaults /\ faults' = faults + 1
    /\ err' = ENOMEM /\ pc' = "failed"
    /\ UNCHANGED <<world, n, efile, progs, maps, btf, btf_ext, types>>

Goto(ph) == pc' = ph /\ n' = 1

---------------------------------------------------------------------------
(* bpf_object__elf_collect, one section.  A name decides before the type.    *)
Programs(s) == s.type = "progbits" /\ s.size > 0 /\ s.exec
Stored(s) ==
    \/ s.name \in Named
    \/ s.name \notin {"license", "version"} /\ s.type = "symtab"
    \/ s.type = "progbits" /\ s.size > 0 /\ s.name \in {".data", ".rodata", ".struct_ops"} /\ ~s.exec
    \/ s.type = "nobits" /\ s.name = ".bss"
    \/ Programs(s) /\ s.name = ".text"

elf_collect ==
    LET s == Sec(n)
        key == IF s.type = "symtab" /\ s.name \notin Named THEN "symtab" ELSE s.name
        program == Programs(s) /\ s.name \notin Named \cup {"license", "version"}
    IN /\ pc = "elf" /\ n <= Len(file.secs)
       /\ IF s.name = "version" /\ s.size # 4 THEN Fail(FORMAT)
          ELSE IF Stored(s) /\ key = "symtab" /\ efile["symtab"] # 0 THEN Fail(FORMAT)
          ELSE IF program /\ s.size % 8 # 0 THEN Fail(EINVAL)
          ELSE /\ efile' = IF Stored(s) THEN [efile EXCEPT ![key] = n] ELSE efile
               /\ progs' = IF program THEN Append(progs, [sec |-> n, name |-> None]) ELSE progs
               /\ n' = n + 1
               /\ UNCHANGED <<world, pc, maps, btf, btf_ext, types, err, faults>>

(* bpf_object__init_btf.                                                     *)
libbpf_needs_btf(externs) == efile[".maps"] # 0 \/ efile[".struct_ops"] # 0 \/ externs > 0
init_btf ==
    LET parsed == efile[".BTF"] # 0 /\ file.btf_ok
    IN /\ pc = "elf" /\ n > Len(file.secs)
       /\ IF efile["symtab"] = 0 THEN Fail(FORMAT)
          ELSE IF ~parsed /\ libbpf_needs_btf(0) THEN Fail(IF efile[".BTF"] = 0 THEN ENOENT ELSE EINVAL)
          ELSE /\ btf' = parsed
               /\ btf_ext' = (parsed /\ efile[".BTF.ext"] # 0 /\ file.ext_ok)
               /\ Goto("finalize")
               /\ UNCHANGED <<world, efile, progs, maps, types, err, faults>>

(* bpf_object__collect_externs (see Externs) and bpf_object__finalize_btf.   *)
finalize_btf ==
    /\ pc = "finalize"
    /\ IF file.externs > 0 /\ ~btf THEN Fail(-3)
       ELSE IF btf /\ ~file.data_ok /\ libbpf_needs_btf(file.externs) THEN Fail(ENOENT)
       ELSE /\ btf' = (btf /\ file.data_ok)
            /\ btf_ext' = (btf_ext /\ file.data_ok)
            /\ Goto("user")
            /\ UNCHANGED <<world, efile, progs, maps, types, err, faults>>

---------------------------------------------------------------------------
(* bpf_object__init_user_maps, one symbol of section "maps": definitions all *)
(* have the size of the section divided by the number of its symbols.        *)
MapSyms == SelectSeq(file.syms, LAMBDA y : y.shndx = efile["maps"])
SymDefSize == Sec(efile["maps"]).size \div Len(MapSyms)
Sizeable ==
    /\ Sec(efile["maps"]).size > 0 /\ Len(MapSyms) > 0
    /\ Sec(efile["maps"]).size % Len(MapSyms) = 0

(* A field is read at its place in the section, 0 beyond the definition.     *)
FieldAt(off, sz) == [k \in 1..DefSize |-> IF k <= sz THEN file.mapsec[off + k] ELSE 0]
Excess(off, sz) == \E k \in (DefSize + 1)..sz : file.mapsec[off + k] # 0

Map(kind, sec, off, name, def) == [kind |-> kind, sec |-> sec, off |-> off, name |-> name, def |-> def]

init_user_maps ==
    /\ pc = "user" /\ efile["maps"] # 0 /\ n <= Len(MapSyms)
    /\ LET y == MapSyms[n]
       IN IF ~Sizeable \/ y.value + SymDefSize > Sec(efile["maps"]).size THEN Fail(EINVAL)
          ELSE IF strict /\ Excess(y.value, SymDefSize) THEN Fail(EINVAL)
          ELSE /\ maps' = Append(maps, Map("user", efile["maps"], y.value, y.name, FieldAt(y.value, SymDefSize)))
               /\ n' = n + 1
               /\ UNCHANGED <<world, pc, efile, progs, btf, btf_ext, types, err, faults>>
UserEnd ==
    /\ pc = "user"
    /\ IF efile["maps"] # 0 /\ MapSyms = <<>> THEN Fail(EINVAL)
       ELSE /\ efile["maps"] = 0 \/ n > Len(MapSyms)
            /\ Goto("btfmaps")
            /\ UNCHANGED <<world, efile, progs, maps, btf, btf_ext, types, err, faults>>

(* parse_btf_map_def, field by field.  A size comes from the type or from a  *)
(* number, and the two must agree.                                           *)
NewDef == [type |-> 0, max_entries |-> 0, map_flags |-> 0, key |-> 0, value |-> 0,
           inner |-> None, pinned |-> FALSE, err |-> 0]
InMap == {12, 13}       \* BPF_MAP_TYPE_ARRAY_OF_MAPS, BPF_MAP_TYPE_HASH_OF_MAPS

Agrees(old, new) == old = 0 \/ old = new

Numbers == {"type", "max_entries", "map_flags", "key_size", "value_size", "pinning"}

ParseField(d, m, last, inside, inner) ==
    LET bad == [d EXCEPT !.err = EINVAL]
    IN IF d.err # 0 THEN d
       ELSE IF m.field \in {"values", "pinning"} /\ inside
            THEN IF m.field = "values" THEN [d EXCEPT !.err = ENOTSUP] ELSE bad
       ELSE IF m.val = None THEN bad
       ELSE CASE m.field \in {"type", "max_entries", "map_flags"} -> [d EXCEPT ![m.field] = m.val]
              [] m.field \in {"key_size", "key"} ->
                   IF Agrees(d.key, m.val) THEN [d EXCEPT !.key = m.val] ELSE bad
              [] m.field \in {"value_size", "value"} ->
                   IF Agrees(d.value, m.val) THEN [d EXCEPT !.value = m.val] ELSE bad
              [] m.field = "values" ->
                   IF ~last THEN bad
                   ELSE IF d.type \notin InMap THEN [d EXCEPT !.err = ENOTSUP]
                   ELSE IF ~Agrees(d.value, 4) THEN bad
                   ELSE [d EXCEPT !.value = 4, !.inner = inner, !.err = inner.err]
              [] m.field = "pinning" ->
                   IF m.val \notin {0, 1} THEN bad ELSE [d EXCEPT !.pinned = (m.val = 1)]
              [] OTHER -> IF strict THEN [d EXCEPT !.err = ENOTSUP] ELSE d

Typed(d) == IF d.err = 0 /\ d.type = 0 THEN [d EXCEPT !.err = EINVAL] ELSE d
InnerDef(ms) ==
    Typed(FoldLeftDomain(LAMBDA d, k : ParseField(d, ms[k], k = Len(ms), TRUE, NewDef), NewDef, ms))
parse_btf_map_def(ms) ==
    Typed(FoldLeftDomain(LAMBDA d, k : ParseField(d, ms[k], k = Len(ms), FALSE, InnerDef(ms[k].val)), NewDef, ms))

(* bpf_object__init_user_btf_map, one variable of datasec .maps.             *)
init_user_btf_map ==
    LET v == file.vars[n]
        d == parse_btf_map_def(v.members)
    IN /\ pc = "btfmaps" /\ efile[".maps"] # 0 /\ n <= Len(file.vars)
       /\ IF v.off + v.size > Sec(efile[".maps"]).size THEN Fail(EINVAL)
          ELSE IF v.linkage = "extern" THEN Fail(EOPNOTSUPP)
          ELSE IF v.def_size > v.size THEN Fail(EINVAL)
          ELSE IF d.err # 0 THEN Fail(d.err)
          ELSE /\ maps' = Append(maps, Map("btf", efile[".maps"], v.off, v.name, d))
               /\ n' = n + 1
               /\ UNCHANGED <<world, pc, efile, progs, btf, btf_ext, types, err, faults>>
BtfMapsEnd ==
    /\ pc = "btfmaps" /\ (efile[".maps"] = 0 \/ n > Len(file.vars))
    /\ IF efile[".maps"] # 0 /\ file.vars = <<>> THEN Fail(ENOENT)    \* no datasec .maps
       ELSE /\ Goto("global")
            /\ UNCHANGED <<world, efile, progs, maps, btf, btf_ext, types, err, faults>>

(* bpf_object__init_global_data_maps: .data, .rodata and .bss in this order. *)
(* mmap of no bytes fails, as for an empty .bss.                             *)
DataSecs == SelectSeq(<<".data", ".rodata", ".bss">>, LAMBDA s : efile[s] # 0)
init_global_data_maps ==
    /\ pc = "global"
    /\ IF \E k \in DOMAIN DataSecs : Sec(efile[DataSecs[k]]).size = 0 THEN Fail(EINVAL)
       ELSE /\ maps' = maps \o [k \in DOMAIN DataSecs |->
                  Map("internal", efile[DataSecs[k]], 0, DataSecs[k],
                      [size |-> Sec(efile[DataSecs[k]]).size, rdonly |-> DataSecs[k] = ".rodata"])]
            /\ Goto("names")
            /\ UNCHANGED <<world, efile, progs, btf, btf_ext, types, err, faults>>

(* bpf_object__init_prog_names, one program: the first global symbol of its  *)
(* section.                                                                  *)
SymsOf(p) == SelectSeq(file.syms, LAMBDA y : y.shndx = p.sec /\ y.global)
init_prog_names ==
    /\ pc = "names" /\ n <= Len(progs)
    /\ LET p == progs[n]
           name == IF SymsOf(p) # <<>> THEN SymsOf(p)[1].name
                   ELSE IF p.sec = efile[".text"] THEN ".text" ELSE None
       IN IF name = None THEN Fail(EINVAL)
          ELSE /\ progs' = [progs EXCEPT ![n].name = name]
               /\ n' = n + 1
               /\ UNCHANGED <<world, pc, efile, maps, btf, btf_ext, types, err, faults>>
Opened ==
    /\ pc = "names" /\ n > Len(progs) /\ Goto("opened")
    /\ UNCHANGED <<world, efile, progs, maps, btf, btf_ext, types, err, faults>>

---------------------------------------------------------------------------
(* bpf_object__sanitize_btf, one type.  A function's second field is its     *)
(* linkage, an enum's constants were parameters.                             *)
Has(cap) == cap \in caps
Sanitized(t) ==
    CASE ~Has("datasec") /\ t.kind = "var" -> [t EXCEPT !.kind = "int", !.refs = <<>>]
      [] ~Has("datasec") /\ t.kind = "datasec" -> [t EXCEPT !.kind = "struct"]
      [] ~Has("func") /\ t.kind = "func_proto" -> [t EXCEPT !.kind = "enum", !.refs = <<>>]
      [] ~Has("func") /\ t.kind = "func" -> [t EXCEPT !.kind = "typedef", !.linkage = "static"]
      [] Has("func") /\ ~Has("func_global") /\ t.kind = "func" -> [t EXCEPT !.linkage = "static"]
      [] OTHER -> t

(* A mutant: functions are looked at only where there are no variables.      *)
SanitizedOnce(t) == IF ~Has("datasec") /\ t.kind \notin {"var", "datasec"} THEN t ELSE Sanitized(t)
SanitizedType(t) == Sanitized(t)

(* bpf_object__sanitize_and_load_btf: what the kernel refuses is dropped,    *)
(* and the load goes on unless struct_ops maps need it.                      *)
sanitize_btf ==
    /\ pc = "opened"
    /\ types' = IF btf THEN [k \in DOMAIN types |-> SanitizedType(types[k])] ELSE types
    /\ btf_ext' = (btf_ext /\ Has("func"))
    /\ Goto("load")
    /\ UNCHANGED <<world, efile, progs, maps, btf, err, faults>>

LoadBtf ==
    /\ pc = "load"
    /\ \/ Goto("loaded") /\ UNCHANGED <<world, efile, progs, maps, btf, btf_ext, types, err, faults>>
       \/ /\ btf /\ efile[".struct_ops"] # 0 /\ Fail(EINVAL)
       \/ /\ btf /\ efile[".struct_ops"] = 0
          /\ btf' = FALSE /\ btf_ext' = FALSE /\ Goto("loaded")
          /\ UNCHANGED <<world, efile, progs, maps, types, err, faults>>

Next ==
    \/ elf_collect \/ init_btf \/ finalize_btf
    \/ init_user_maps \/ UserEnd \/ init_user_btf_map \/ BtfMapsEnd
    \/ init_global_data_maps \/ init_prog_names \/ Opened
    \/ sanitize_btf \/ LoadBtf
    \/ Fault

---------------------------------------------------------------------------
TypeOK ==
    /\ pc \in {"elf", "finalize", "user", "btfmaps", "global", "names", "opened", "load", "loaded", "failed"}
    /\ \A s \in DOMAIN efile : efile[s] \in 0..Len(file.secs)
    /\ err # 0 <=> pc = "failed"

IsOpen == pc \in {"opened", "load", "loaded"}
Count(S(_)) == Len(SelectSeq(maps, S))

(* Each map symbol, map variable and non-empty data section got one map of   *)
(* its own, and the relocations, which name maps by section and offset, can  *)
(* tell all maps apart.                                                      *)
MapsComplete ==
    IsOpen =>
        /\ \A k \in DOMAIN MapSyms : efile["maps"] # 0 =>
              Count(LAMBDA m : m.sec = efile["maps"] /\ m.off = MapSyms[k].value) = 1
        /\ \A k \in DOMAIN file.vars : efile[".maps"] # 0 =>
              Count(LAMBDA m : m.sec = efile[".maps"] /\ m.off = file.vars[k].off) = 1
        /\ \A k \in DOMAIN file.secs :
              Sec(k).name \in {".data", ".rodata", ".bss"} =>
                 (Count(LAMBDA m : m.kind = "internal" /\ m.sec = k) = 1 <=> efile[Sec(k).name] = k)
        /\ \A a, b \in DOMAIN maps : a # b => maps[a].sec # maps[b].sec \/ maps[a].off # maps[b].off

(* A map is defined as every one of its fields says, in whatever order they  *)
(* stand, the inner map of a map of maps included.                           *)
Says(d, ms) ==
    \A k \in DOMAIN ms :
        LET m == ms[k]
        IN /\ m.field \in {"type", "max_entries", "map_flags"} => d[m.field] = m.val
           /\ m.field \in {"key", "key_size"} => m.val \in {0, d.key}
           /\ m.field \in {"value", "value_size"} => m.val \in {0, d.value}
           /\ m.field = "pinning" => d.pinned = (m.val = 1)
           /\ m.field = "values" => d.value = 4 /\ d.inner # None
           /\ m.field \notin Numbers \cup {"key", "value", "values"} => ~strict
DefsRight ==
    IsOpen /\ efile[".maps"] # 0 => \A k \in DOMAIN file.vars :
        LET ms == file.vars[k].members
            d == SelectSeq(maps, LAMBDA m : m.kind = "btf" /\ m.off = file.vars[k].off)[1].def
        IN /\ d.type # 0 /\ Says(d, ms)
           /\ \A j \in DOMAIN ms : ms[j].field = "values" => d.inner.type # 0 /\ Says(d.inner, ms[j].val)

(* Line and function information never outlives the types it names, and an   *)
(* object that cannot do without type information has it.                    *)
BtfKept ==
    /\ btf_ext => btf
    /\ pc \in {"opened", "load"} /\ libbpf_needs_btf(file.externs) => btf
    /\ pc = "loaded" /\ efile[".struct_ops"] # 0 => btf

(* The kernel is given no kind it does not know, nothing that had a member   *)
(* or a target loses or changes it but variables and prototypes, and no type *)
(* changes its number.                                                       *)
KernelKnows ==
    pc \in {"load", "loaded"} /\ btf =>
        /\ Len(types) = Len(file.types)
        /\ \A k \in DOMAIN types :
              /\ types[k].kind \in {"var", "datasec"} => Has("datasec")
              /\ types[k].kind \in {"func", "func_proto"} => Has("func")
              /\ types[k].kind = "func" /\ types[k].linkage # "static" => Has("func_global")
              /\ file.types[k].kind \notin {"var", "func_proto"} => types[k].refs = file.types[k].refs
              /\ Has("datasec") /\ Has("func") => types[k].kind = file.types[k].kind

(* Each section of code is one program with a name of its section.           *)
ProgramsNamed ==
    IsOpen => \A k \in DOMAIN progs :
        /\ progs[k].name # None
        /\ \A j \in DOMAIN progs : j # k => progs[j].sec # progs[k].sec
        /\ progs[k].name # ".text" =>
              \E y \in DOMAIN file.syms : file.syms[y].name = progs[k].name /\ file.syms[y].shndx = progs[k].sec

ElfRight == MapsComplete /\ DefsRight /\ BtfKept /\ KernelKnows /\ ProgramsNamed
================================================================================
