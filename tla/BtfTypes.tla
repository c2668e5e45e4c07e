------------------------------- MODULE BtfTypes --------------------------------
(* btf.c: the type data of an object.  btf__new copies and indexes it,       *)
(* queries follow its references, btf__finalize_data completes it from the   *)
(* symbol table and btf__load gives it to the kernel.  Type id 0 is void.    *)
EXTENDS Integers, Sequences, FiniteSets

CONSTANTS
    Files,          \* contents of .BTF: [header, str_ok, length, types]
    Sections,       \* sizes of the sections of the object, by name
    Symbols,        \* offsets of its global objects, by name
    Expand,         \* 16: least growth of btf->types
    MaxTypes,       \* BTF_MAX_NR_TYPES
    MaxU32,         \* UINT32_MAX
    Depth,          \* MAX_RESOLVE_DEPTH
    MaxFaults,      \* bound: failing allocations and kernel calls
    None

VARIABLES
    pc,             \* "none", "parsing", "ready", "loading", "freed"
    file,           \* the bytes behind btf->data
    types,          \* btf->types[1 .. nr_types]
    types_size,     \* btf->types_size
    at,             \* next_type of btf_parse_type_sec, from type_off
    fd,             \* btf->fd: is there a kernel object
    log,            \* log_buf_size of btf__load
    err,            \* what the last call returned
    faults

btfvars == <<pc, file, types, types_size, at, fd, log, err, faults>>

EINVAL == -22  E2BIG == -7  ENOENT == -2  ENOMEM == -12  ENOTSUP == -95  EEXIST == -17
PtrSize == 8
LogBufSize == 1

NrTypes == Len(types)
Void == [kind |-> "void", name |-> "", size |-> 0, type |-> 0, nelems |-> 0, parts |-> <<>>]

Max2(a, b) == IF a >= b THEN a ELSE b
Min2(a, b) == IF a <= b THEN a ELSE b

---------------------------------------------------------------------------
(* Sizes of the records and the walks along references.                      *)
ByTarget == {"ptr", "typedef", "const", "volatile", "restrict"}
Mods == {"typedef", "const", "volatile", "restrict"}
Sized == {"int", "struct", "union", "enum", "datasec"}

btf_type_size(t) ==
    12 + CASE t.kind \in {"fwd", "func"} \cup ByTarget -> 0
           [] t.kind \in {"int", "var"}                -> 4
           [] t.kind = "array"                         -> 12
           [] t.kind \in {"enum", "func_proto"}        -> 8 * Len(t.parts)
           [] t.kind \in {"struct", "union", "datasec"} -> 12 * Len(t.parts)
           [] OTHER                                    -> EINVAL

btf__type_by_id(id) ==
    IF id > NrTypes THEN None ELSE IF id = 0 THEN Void ELSE types[id]

VoidOrNull(id) == id > NrTypes \/ btf__type_by_id(id).kind \in {"void", "fwd"}

(* A mutant: the product is not compared with UINT32_MAX.                    *)
ScaledWrapping(n, size) == (n * size) % (MaxU32 + 1)

(* btf__resolve_size: n is the product of the array dimensions so far.       *)
Scaled(n, size) == IF n # 0 /\ size > MaxU32 \div n THEN E2BIG ELSE n * size

RECURSIVE ResolveFrom(_, _, _)
ResolveFrom(id, i, n) ==
    LET t == btf__type_by_id(id)
    IN CASE i = Depth \/ VoidOrNull(id) -> EINVAL
         [] i < Depth /\ ~VoidOrNull(id) ->
              CASE t.kind \in Sized -> Scaled(n, t.size)
                [] t.kind = "ptr" -> Scaled(n, PtrSize)
                [] t.kind \in Mods \cup {"var"} -> ResolveFrom(t.type, i + 1, n)
                [] t.kind = "array" /\ n # 0 /\ t.nelems > MaxU32 \div n -> E2BIG
                [] t.kind = "array" /\ ~(n # 0 /\ t.nelems > MaxU32 \div n) ->
                     ResolveFrom(t.type, i + 1, n * t.nelems)
                [] OTHER -> EINVAL

btf__resolve_size(id) == ResolveFrom(id, 0, 1)

RECURSIVE btf__align_of(_)
btf__align_of(id) ==
    LET t == btf__type_by_id(id)
        Aligns == {btf__align_of(t.parts[k].type) : k \in DOMAIN t.parts}
    IN CASE t.kind \in {"int", "enum"} -> Min2(PtrSize, t.size)
         [] t.kind = "ptr" -> PtrSize
         [] t.kind \in Mods \cup {"array"} -> btf__align_of(t.type)
         [] t.kind \in {"struct", "union"} ->
              IF \E a \in Aligns : a <= 0 THEN 0
              ELSE CHOOSE m \in Aligns \cup {1} : \A a \in Aligns \cup {1} : a <= m
         [] OTHER -> 0

RECURSIVE TypeFrom(_, _)
TypeFrom(id, depth) ==
    IF depth < Depth /\ ~VoidOrNull(id) /\ btf__type_by_id(id).kind \in Mods \cup {"var"}
    THEN TypeFrom(btf__type_by_id(id).type, depth + 1)
    ELSE IF depth = Depth \/ VoidOrNull(id) THEN EINVAL ELSE id

btf__resolve_type(id) == TypeFrom(id, 0)

First(S) == IF S = {} THEN ENOENT ELSE CHOOSE i \in S : \A j \in S : i <= j

btf__find_by_name(n) ==
    IF n = "void" THEN 0 ELSE First({i \in 1..NrTypes : types[i].name = n})

btf__find_by_name_kind(n, k) ==
    IF n = "void" THEN 0
    ELSE First({i \in 1..NrTypes : types[i].name = n /\ types[i].kind = k})

(* btf__get_map_kv_tids for the container found under name c.                *)
btf__get_map_kv_tids(c, key_size, value_size) ==
    LET id == btf__find_by_name(c)
        t  == btf__type_by_id(id)
        K  == btf__resolve_size(t.parts[1].type)
        V  == btf__resolve_size(t.parts[2].type)
    IN CASE id < 0 -> [ret |-> id]
         [] id >= 0 /\ (t.kind # "struct" \/ Len(t.parts) < 2) -> [ret |-> EINVAL]
         [] OTHER ->
              CASE K < 0 -> [ret |-> K]
                [] K >= 0 /\ K # key_size -> [ret |-> EINVAL]
                [] K = key_size /\ V < 0 -> [ret |-> V]
                [] K = key_size /\ V >= 0 /\ V # value_size -> [ret |-> EINVAL]
                [] OTHER -> [ret |-> 0, key |-> t.parts[1].type, value |-> t.parts[2].type]

---------------------------------------------------------------------------
(* Building and releasing.                                                   *)
Init ==
    /\ pc = "none" /\ file \in Files
    /\ types = <<>> /\ types_size = 0 /\ at = 0
    /\ fd = FALSE /\ log = 0
    /\ err = 0 /\ faults = 0

Fault == faults < MaxFaults /\ faults' = faults + 1

(* btf_parse_hdr and btf_parse_str_sec refuse for what the header says.      *)
btf_parse_hdr ==
    CASE file.header = "good" -> IF file.str_ok THEN 0 ELSE EINVAL
      [] file.header \in {"version", "flags"} -> ENOTSUP
      [] OTHER -> EINVAL

(* btf__free.                                                                *)
Freed(result) ==
    /\ pc' = "freed" /\ fd' = FALSE
    /\ types' = <<>> /\ types_size' = 0
    /\ err' = result

btf__new ==
    /\ pc = "none" /\ at' = 0
    /\ \/ /\ Fault /\ err' = ENOMEM /\ pc' = "freed"
          /\ UNCHANGED <<types, types_size, fd>>
       \/ /\ btf_parse_hdr # 0 /\ Freed(btf_parse_hdr) /\ UNCHANGED faults
       \/ /\ btf_parse_hdr = 0 /\ pc' = "parsing" /\ err' = 0
          /\ UNCHANGED <<types, types_size, fd, faults>>
    /\ UNCHANGED <<file, log>>

(* A mutant: void is not counted.                                            *)
FullOffByOne == types_size - NrTypes < 1

(* btf_add_type keeps one slot more than the types, for void.                *)
Full == types_size - NrTypes < 2

Grown == Min2(MaxTypes, types_size + Max2(types_size \div 4, Expand))

(* One round of btf_parse_type_sec.  After the records are zero bytes.       *)
ParseType ==
    LET t == IF NrTypes < Len(file.types) THEN file.types[NrTypes + 1]
             ELSE [Void EXCEPT !.kind = "unkn"]
    IN /\ pc = "parsing" /\ at < file.length
       /\ \/ btf_type_size(t) < 0 /\ Freed(EINVAL) /\ UNCHANGED <<at, faults>>
          \/ /\ btf_type_size(t) >= 0 /\ Full /\ types_size = MaxTypes
             /\ Freed(E2BIG) /\ UNCHANGED <<at, faults>>
          \/ /\ btf_type_size(t) >= 0 /\ Full /\ types_size < MaxTypes
             /\ Fault /\ Freed(ENOMEM) /\ UNCHANGED at
          \/ /\ btf_type_size(t) >= 0
             /\ Full => types_size < MaxTypes
             /\ types_size' = IF Full THEN Grown ELSE types_size
             /\ types' = Append(types, t)
             /\ at' = at + btf_type_size(t)
             /\ UNCHANGED <<pc, fd, err, faults>>
       /\ UNCHANGED <<file, log>>

ParseEnd ==
    /\ pc = "parsing" /\ at >= file.length
    /\ pc' = "ready"
    /\ UNCHANGED <<file, types, types_size, at, fd, log, err, faults>>

btf__free == pc = "ready" /\ Freed(0) /\ UNCHANGED <<file, at, log, faults>>

---------------------------------------------------------------------------
(* btf_fixup_datasec: what the pair (type, error) becomes for section i.  The *)
(* linkage of a variable is kept in nelems: 0 is BTF_VAR_STATIC.             *)
ByOffset(parts) ==
    CHOOSE s \in [DOMAIN parts -> DOMAIN parts] :
        /\ \A j, k \in DOMAIN parts : s[j] = s[k] => j = k
        /\ \A j, k \in DOMAIN parts : j < k => parts[s[j]].offset <= parts[s[k]].offset

(* A mutant: the variables stay in the order of the compiler.                *)
SortedNot(parts) == parts

Sorted(parts) == LET s == ByOffset(parts) IN [k \in DOMAIN parts |-> parts[s[k]]]

Static(p) == types[p.type].kind = "var" /\ types[p.type].nelems = 0
Placed(p) == Static(p) \/ types[p.type].name \in DOMAIN Symbols

Misplaced(parts) ==
    {k \in DOMAIN parts : types[parts[k].type].kind # "var" \/ ~Placed(parts[k])}

(* The variables before the first that cannot be placed get their offsets.   *)
Offsets(parts) ==
    LET bad == Misplaced(parts)
    IN [k \in DOMAIN parts |->
          IF Static(parts[k]) \/ (\E b \in bad : b <= k) THEN parts[k]
          ELSE [parts[k] EXCEPT !.offset = Symbols[types[parts[k].type].name]]]

Fixed(i) ==
    LET t == types[i]
        sized == [t EXCEPT !.size = Sections[t.name], !.parts = Offsets(t.parts)]
    IN CASE t.size # 0 -> [t |-> [t EXCEPT !.parts = Sorted(t.parts)], err |-> 0]
         [] t.size = 0 /\ t.name \notin DOMAIN Sections -> [t |-> t, err |-> ENOENT]
         [] t.size = 0 /\ t.name \in DOMAIN Sections ->
              CASE Misplaced(t.parts) = {} ->
                     [t |-> [sized EXCEPT !.parts = Sorted(sized.parts)], err |-> 0]
                [] types[t.parts[First(Misplaced(t.parts))].type].kind # "var" ->
                     [t |-> sized, err |-> EINVAL]
                [] OTHER -> [t |-> sized, err |-> ENOENT]

(* btf__finalize_data goes through the sections in order until one fails.    *)
btf__finalize_data ==
    LET D == {i \in 1..NrTypes : types[i].kind = "datasec"}
        bad == First({i \in D : Fixed(i).err # 0})
    IN /\ pc = "ready"
       /\ types' = [i \in 1..NrTypes |->
                      IF i \in D /\ (bad > 0 => i <= bad) THEN Fixed(i).t ELSE types[i]]
       /\ err' = IF bad > 0 THEN Fixed(bad).err ELSE 0
       /\ UNCHANGED <<pc, file, types_size, at, fd, log, faults>>

---------------------------------------------------------------------------
(* btf__load: without a log first, then with one that doubles while full.    *)
btf__load ==
    /\ pc = "ready"
    /\ IF fd THEN err' = EEXIST /\ UNCHANGED <<pc, log>>
       ELSE pc' = "loading" /\ log' = 0 /\ UNCHANGED err
    /\ UNCHANGED <<file, types, types_size, at, fd, faults>>

LoadEnds(result) == pc' = "ready" /\ err' = result /\ UNCHANGED <<file, types, types_size, at>>

LoadTry ==
    /\ pc = "loading"
    /\ \/ /\ fd' = TRUE /\ LoadEnds(0) /\ UNCHANGED <<log, faults>>
       \/ /\ log > 0 /\ Fault /\ LoadEnds(ENOMEM) /\ UNCHANGED <<fd, log>>
       \/ /\ log > 0 /\ Fault /\ LoadEnds(EINVAL) /\ UNCHANGED <<fd, log>>
       \/ /\ Fault                  \* no log yet, or it was too small
          /\ log' = Max2(LogBufSize, 2 * log)
          /\ UNCHANGED <<pc, file, types, types_size, at, fd, err>>

Next ==
    \/ btf__new \/ ParseType \/ ParseEnd \/ btf__free
    \/ btf__finalize_data \/ btf__load \/ LoadTry

---------------------------------------------------------------------------
TypeOK ==
    /\ file \in Files
    /\ types_size \in 0..MaxTypes
    /\ fd \in BOOLEAN /\ faults \in 0..MaxFaults

Ready == pc \in {"ready", "loading"}

(* Every id has its own slot of btf->types, void included.                   *)
SlotsSuffice == types # <<>> => NrTypes < types_size

(* A finished btf indexes just the records that begin in the type section,   *)
(* each under its place in the file: no id that a reference, a map or an     *)
(* instruction holds is off by one or beyond the index (btf_parse_type_sec). *)
Begins[k \in Nat] == IF k <= 1 THEN 0 ELSE Begins[k - 1] + btf_type_size(file.types[k - 1])
AllIndexed ==
    pc = "ready" =>
        /\ 1..NrTypes = {k \in DOMAIN file.types : Begins[k] < file.length}
        /\ \A i \in 1..NrTypes :
              types[i].kind = file.types[i].kind /\ types[i].name = file.types[i].name

(* A size is never wrapped: it is that of the target times the dimension,    *)
(* and fits 32 bits.                                                         *)
SizesTrue ==
    Ready => \A i \in 1..NrTypes :
        LET r == btf__resolve_size(i)
            inner == btf__resolve_size(types[i].type)
        IN r >= 0 =>
             /\ r <= MaxU32
             /\ types[i].kind \in Sized => r = types[i].size
             /\ types[i].kind \in Mods \cup {"var"} => r = inner
             /\ types[i].kind = "array" =>
                  IF types[i].nelems = 0 THEN r = 0 ELSE r = types[i].nelems * inner

(* An alignment is that of the most aligned scalar stored in the type.       *)
RECURSIVE Scalars(_)
Scalars(i) ==
    LET t == btf__type_by_id(i)
    IN IF t.kind \in {"int", "enum", "ptr"} THEN {i}
       ELSE IF t.kind \in Mods \cup {"array"} THEN Scalars(t.type)
       ELSE IF t.kind \in {"struct", "union"}
            THEN UNION {Scalars(t.parts[k].type) : k \in DOMAIN t.parts} ELSE {}

AlignsTrue ==
    Ready => \A i \in 1..NrTypes :
        btf__align_of(i) > 1 =>
            /\ \E s \in Scalars(i) : btf__align_of(i) = btf__align_of(s)
            /\ \A s \in Scalars(i) : btf__align_of(s) <= btf__align_of(i)

(* A resolved type is none that only names or qualifies another, and has the *)
(* size of the type it was reached from.                                     *)
ResolvedIsReal ==
    Ready => \A i \in 1..NrTypes :
        LET r == btf__resolve_type(i)
        IN r >= 0 => /\ ~VoidOrNull(r) /\ types[r].kind \notin Mods \cup {"var"}
                     /\ btf__resolve_size(i) >= 0 =>
                            btf__resolve_size(i) = btf__resolve_size(r)

(* The types of a map's key and value have the sizes of its definition.      *)
KvTrue ==
    Ready => \A n \in {types[i].name : i \in 1..NrTypes}, k, v \in 0..PtrSize :
        LET r == btf__get_map_kv_tids(n, k, v)
        IN r.ret = 0 => btf__resolve_size(r.key) = k /\ btf__resolve_size(r.value) = v

(* Sections that were completed list their variables in order of address.    *)
SectionsSorted ==
    pc = "loading" /\ err = 0 => \A i \in 1..NrTypes : types[i].kind = "datasec" =>
        \A j, k \in DOMAIN types[i].parts : j < k /\ types[i].size # file.types[i].size =>
            types[i].parts[j].offset <= types[i].parts[k].offset

TypesRight ==
    /\ SlotsSuffice /\ AllIndexed
    /\ SizesTrue /\ AlignsTrue /\ ResolvedIsReal /\ KvTrue
    /\ SectionsSorted
================================================================================
