------------------------------- MODULE CoreReloc -------------------------------
(* libbpf.c: bpf_core_reloc_fields.  A program was compiled against its own  *)
(* (local) description of kernel types; each recorded field access is looked *)
(* up by name in the types of the running kernel (the target) and the        *)
(* instruction is rewritten.  A name is a pair of the essential name and the *)
(* flavor after "___"; bit offsets and sizes are in bits and bytes.          *)
EXTENDS Integers, Sequences, FiniteSets

CONSTANTS
    Local, Targets, \* BTFs: [kind, name, flavor, size, signed, type, nelems, members]
    Programs,       \* the relocations of the program: [type, spec, kind, class, value]
    MaxOff,         \* SHRT_MAX: the largest offset an instruction holds
    MaxFaults,      \* bound: failing allocations
    None

VARIABLES
    targ,           \* the BTF of the kernel, one of Targets
    prog,           \* the relocations, in the order of .BTF.ext
    n,              \* the next one
    cand_cache,     \* the target types considered for a local type, or None
    insn,           \* the rewritten instructions
    spec,           \* targ_spec of the relocations done (history)
    err,
    faults

corevars == <<targ, prog, n, cand_cache, insn, spec, err, faults>>

EINVAL == -22  E2BIG == -7  ERANGE == -34  ENOMEM == -12

Composite(t) == t.kind \in {"struct", "union"}
Max2(a, b) == IF a >= b THEN a ELSE b

RECURSIVE skip_mods_and_typedefs(_, _)
skip_mods_and_typedefs(btf, id) ==
    IF btf[id].kind \in {"const", "typedef"} THEN skip_mods_and_typedefs(btf, btf[id].type) ELSE id

(* btf__resolve_size, of types without an overflow: see BtfTypes.            *)
RECURSIVE Size(_, _)
Size(btf, id) ==
    LET t == btf[id]
    IN CASE t.kind \in {"const", "typedef"} -> Size(btf, t.type)
         [] t.kind = "array" -> t.nelems * Size(btf, t.type)
         [] t.kind = "ptr" -> 8
         [] OTHER -> t.size

---------------------------------------------------------------------------
(* A spec: acc, the accessors [type, idx, name] (name "" for an array), and  *)
(* bits, the offset they add up to.  Bad stands for an error of the search.  *)
Bad == [acc |-> <<>>, bits |-> EINVAL]
Step(s, type, idx, name, bits) ==
    [acc |-> Append(s.acc, [type |-> type, idx |-> idx, name |-> name]), bits |-> s.bits + bits]

is_flex_arr(btf, acc, a) ==
    /\ acc.name # "" /\ a.nelems = 0
    /\ acc.idx = Len(btf[acc.type].members)

(* bpf_core_spec_parse from the i-th index on.  Members count from 1.        *)
RECURSIVE ParseFrom(_, _, _, _, _)
ParseFrom(btf, path, i, at, s) ==
    LET id == skip_mods_and_typedefs(btf, at)
        t == btf[id]
        x == path[i]
        elem == skip_mods_and_typedefs(btf, t.type)
    IN CASE i > Len(path) -> s
         [] i <= Len(path) /\ Composite(t) ->
              IF x > Len(t.members) THEN Bad
              ELSE ParseFrom(btf, path, i + 1, t.members[x].type,
                     IF t.members[x].name = "" THEN [s EXCEPT !.bits = @ + t.members[x].off]
                     ELSE Step(s, id, x, t.members[x].name, t.members[x].off))
         [] i <= Len(path) /\ t.kind = "array" ->
              IF ~is_flex_arr(btf, s.acc[Len(s.acc)], t) /\ x >= t.nelems THEN Bad
              ELSE ParseFrom(btf, path, i + 1, elem,
                             Step(s, elem, x, "", x * Size(btf, elem) * 8))
         [] OTHER -> Bad

bpf_core_spec_parse(btf, id, path) ==
    LET root == skip_mods_and_typedefs(btf, id)
    IN ParseFrom(btf, path, 2, root,
                 Step([acc |-> <<>>, bits |-> 0], root, path[1], "", path[1] * Size(btf, root) * 8))

(* bpf_core_fields_are_compat.                                               *)
RECURSIVE bpf_core_fields_are_compat(_, _)
bpf_core_fields_are_compat(local_id, targ_id) ==
    LET l == Local[skip_mods_and_typedefs(Local, local_id)]
        t == targ[skip_mods_and_typedefs(targ, targ_id)]
    IN \/ Composite(l) /\ Composite(t)
       \/ /\ l.kind = t.kind
          /\ CASE l.kind \in {"ptr", "int"} -> TRUE
               [] l.kind \in {"fwd", "enum"} -> l.name = "" \/ t.name = "" \/ l.name = t.name
               [] l.kind = "array" -> bpf_core_fields_are_compat(l.type, t.type)
               [] OTHER -> FALSE

(* bpf_core_match_member: members are tried in order, anonymous ones by      *)
(* their own members; a member of that name ends the search.  The result is  *)
(* the spec, next_targ_id and whether it was found.                          *)
Missing == [found |-> FALSE, stop |-> FALSE]

(* A mutant: the offset of the anonymous member is not added.                *)
InsideFlat(s, off) == s
Inside(s, off) == [s EXCEPT !.bits = @ + off]

RECURSIVE MatchFrom(_, _, _, _)
MatchFrom(acc, at, i, s) ==
    LET id == skip_mods_and_typedefs(targ, at)
        m == targ[id].members[i]
        deeper == MatchFrom(acc, m.type, 1, Inside(s, m.off))
        l == Local[acc.type].members[acc.idx].type
    IN CASE ~Composite(targ[id]) -> Missing
         [] Composite(targ[id]) /\ i > Len(targ[id].members) -> Missing
         [] OTHER ->
              CASE m.name = "" -> IF deeper.found THEN deeper ELSE MatchFrom(acc, at, i + 1, s)
                [] m.name = acc.name ->
                     IF bpf_core_fields_are_compat(l, m.type)
                     THEN [found |-> TRUE, s |-> Step(s, id, i, m.name, m.off), next |-> m.type]
                     ELSE Missing
                [] OTHER -> MatchFrom(acc, at, i + 1, s)

(* bpf_core_spec_match from the i-th accessor of the local spec on.          *)
RECURSIVE SpecMatch(_, _, _, _)
SpecMatch(local, i, at, s) ==
    LET id == skip_mods_and_typedefs(targ, at)
        acc == local.acc[i]
        found == MatchFrom(acc, id, 1, s)
        t == targ[id]
        elem == IF i = 1 THEN id ELSE skip_mods_and_typedefs(targ, t.type)
    IN CASE i > Len(local.acc) -> s
         [] i <= Len(local.acc) /\ acc.name # "" ->
              IF found.found THEN SpecMatch(local, i + 1, found.next, found.s) ELSE None
         [] OTHER ->
              IF /\ i > 1
                 /\ t.kind = "array" => /\ acc.idx >= t.nelems
                                       /\ ~is_flex_arr(targ, s.acc[Len(s.acc)], t)
              THEN None
              ELSE SpecMatch(local, i + 1, elem,
                             Step(s, elem, acc.idx, "", acc.idx * Size(targ, elem) * 8))

bpf_core_spec_match(local, id) == SpecMatch(local, 1, id, [acc |-> <<>>, bits |-> 0])

(* bpf_core_find_cands.                                                      *)
bpf_core_find_cands(id) ==
    SelectSeq([j \in 1..Len(targ) |-> j],
              LAMBDA j : LET t == targ[skip_mods_and_typedefs(targ, j)]
                         IN /\ targ[j].name # "" /\ targ[j].name = Local[id].name
                            /\ t.kind \in {"struct", "union", "array"})

---------------------------------------------------------------------------
(* bpf_core_calc_field_relo: the bytes that hold the field and the shifts    *)
(* that leave it alone in a 64-bit register.                                 *)
RECURSIVE Window(_, _, _)
Window(bit_off, bit_sz, byte_sz) ==
    LET byte_off == ((bit_off \div 8) \div byte_sz) * byte_sz
    IN IF bit_off + bit_sz - byte_off * 8 <= byte_sz * 8 THEN <<byte_off, byte_sz>>
       ELSE IF byte_sz >= 8 THEN None ELSE Window(bit_off, bit_sz, 2 * byte_sz)

(* A mutant: the window is not widened for a field that crosses it.          *)
WindowNarrow(bit_off, bit_sz, byte_sz) ==
    <<((bit_off \div 8) \div byte_sz) * byte_sz, byte_sz>>

FieldWindow(bit_off, bit_sz, byte_sz) == Window(bit_off, bit_sz, byte_sz)

Field(btf, s) ==
    LET acc == s.acc[Len(s.acc)]
        m == btf[acc.type].members[acc.idx]
        mt == btf[skip_mods_and_typedefs(btf, m.type)]
        bits == IF m.bits > 0 THEN m.bits ELSE 8 * Size(btf, m.type)
    IN [bitfield |-> m.bits > 0, bit_sz |-> bits,
        signed |-> mt.kind = "enum" \/ mt.signed,
        bytes |-> IF m.bits > 0 THEN FieldWindow(s.bits, m.bits, mt.size)
                  ELSE <<s.bits \div 8, Size(btf, m.type)>>]

Value(btf, s, kind) ==
    LET acc == s.acc[Len(s.acc)]
        f == Field(btf, s)
    IN IF acc.name = ""
       THEN CASE kind = "byte_off" -> s.bits \div 8
              [] kind = "byte_sz" -> Size(btf, acc.type)
              [] OTHER -> EINVAL
       ELSE IF f.bytes = None THEN E2BIG
       ELSE CASE kind = "byte_off" -> f.bytes[1]
              [] kind = "byte_sz" -> f.bytes[2]
              [] kind = "signed" -> IF f.signed THEN 1 ELSE 0
              [] kind = "lshift" -> 64 - (s.bits + f.bit_sz - f.bytes[1] * 8)
              [] kind = "rshift" -> 64 - f.bit_sz

Validated(s, kind) ==
    LET acc == s.acc[Len(s.acc)]
    IN acc.name = "" \/ kind \in {"signed", "rshift"} \/ ~Field(Local, s).bitfield

(* bpf_core_reloc_insn: the new instruction, or an error.                    *)
Unreachable == 195896080
Patched(r, local, s) ==
    LET old == IF r.kind = "exists" THEN 1 ELSE Value(Local, local, r.kind)
        new == IF r.kind = "exists" THEN IF s = None THEN 0 ELSE 1 ELSE Value(targ, s, r.kind)
        checked == r.kind = "exists" \/ Validated(local, r.kind)
    IN CASE r.kind # "exists" /\ s = None -> Unreachable
         [] OTHER ->
              IF old < 0 \/ new < 0 \/ (checked /\ r.value # old) THEN EINVAL
              ELSE IF r.class = "ldx" /\ new > MaxOff THEN ERANGE ELSE new

---------------------------------------------------------------------------
Init ==
    /\ targ \in Targets /\ prog \in Programs
    /\ n = 1 /\ cand_cache = [id \in 1..Len(Local) |-> None]
    /\ insn = <<>> /\ spec = <<>>
    /\ err = 0 /\ faults = 0

Fails(e) == err' = e /\ UNCHANGED <<targ, prog, n, cand_cache, insn, spec>>

(* bpf_core_reloc_field.                                                     *)
Matching(cands, local) == SelectSeq(cands, LAMBDA c : bpf_core_spec_match(local, c) # None)

(* Mutants: the list of candidates keeps those that did not match, or is     *)
(* emptied when none did.                                                    *)
PrunedNot(cands, matches) == cands
PrunedToNothing(cands, matches) == matches
Pruned(cands, matches) == IF matches = <<>> THEN cands ELSE matches

bpf_core_reloc_field ==
    LET r == prog[n]
        local == bpf_core_spec_parse(Local, r.type, r.spec)
        cached == cand_cache[r.type]
        cands == IF cached = None THEN bpf_core_find_cands(r.type) ELSE cached
        matches == Matching(cands, local)
        specs == [j \in DOMAIN matches |-> bpf_core_spec_match(local, matches[j])]
        ambiguous == \E j \in DOMAIN specs : specs[j].bits # specs[1].bits
        s == IF specs = <<>> THEN None ELSE specs[1]
        new == Patched(r, local, s)
    IN /\ err = 0 /\ n <= Len(prog)
       /\ \/ local = Bad /\ Fails(EINVAL) /\ UNCHANGED faults
          \/ /\ local # Bad /\ cached = None
             /\ faults < MaxFaults /\ faults' = faults + 1 /\ Fails(ENOMEM)
          \/ /\ local # Bad
             /\ ~ambiguous => new < 0
             /\ Fails(EINVAL) /\ UNCHANGED faults
          \/ /\ local # Bad /\ ~ambiguous /\ new >= 0
             /\ cand_cache' = [cand_cache EXCEPT ![r.type] =
                                  Pruned(cands, [j \in DOMAIN specs |-> specs[j].acc[1].type])]
             /\ insn' = Append(insn, new)
             /\ spec' = Append(spec, s)
             /\ n' = n + 1
             /\ UNCHANGED <<targ, prog, err, faults>>

Next == bpf_core_reloc_field

---------------------------------------------------------------------------
TypeOK ==
    /\ n \in 1..(Len(prog) + 1) /\ Len(insn) = n - 1 /\ Len(spec) = n - 1
    /\ err <= 0 /\ faults \in 0..MaxFaults

(* What C says of a field: all fields of a struct, those of its anonymous    *)
(* members included, with their offsets.                                     *)
RECURSIVE Fields(_, _)
Fields(btf, at) ==
    LET t == btf[skip_mods_and_typedefs(btf, at)]
    IN IF ~Composite(t) THEN {}
       ELSE UNION {IF t.members[i].name = ""
                   THEN {[f EXCEPT !.off = @ + t.members[i].off] : f \in Fields(btf, t.members[i].type)}
                   ELSE {t.members[i]} : i \in DOMAIN t.members}

(* The offsets at which an accessor string finds its field: members of the   *)
(* name and kind it was written for, elements that the array has.            *)
Kind(btf, id) == LET k == btf[skip_mods_and_typedefs(btf, id)].kind
                 IN IF k \in {"struct", "union"} THEN "composite" ELSE k
SameKind(l, t) == Kind(Local, l) = Kind(targ, t)

RECURSIVE Reached(_, _, _, _)
Reached(btf, at, acc, i) ==
    LET a == btf[skip_mods_and_typedefs(btf, at)]
        elem == IF i = 1 THEN at ELSE a.type
    IN IF i > Len(acc) THEN {0}
       ELSE IF acc[i].name # ""
            THEN UNION {{f.off + o : o \in Reached(btf, f.type, acc, i + 1)} :
                           f \in {x \in Fields(btf, at) :
                                     /\ x.name = acc[i].name
                                     /\ SameKind(Local[acc[i].type].members[acc[i].idx].type, x.type)}}
            ELSE IF i > 1 /\ (a.kind # "array" \/ acc[i].idx >= a.nelems) THEN {}
                 ELSE {acc[i].idx * Size(btf, elem) * 8 + o : o \in Reached(btf, elem, acc, i + 1)}

LocalSpec(r) == bpf_core_spec_parse(Local, r.type, r.spec)

(* Every candidate that is left for a type fits all the relocations of that  *)
(* type that found a field, at the offsets that were written: the program    *)
(* was rewritten for one shape of the type, not for a mixture of flavors.    *)
OneShape ==
    \A k \in 1..(n - 1) : spec[k] # None =>
        \A j \in DOMAIN cand_cache[prog[k].type] :
            Reached(targ, cand_cache[prog[k].type][j], LocalSpec(prog[k]).acc, 1) = {spec[k].bits}

(* Bytes and shifts leave exactly the bits of the field.                     *)
BitsExact ==
    \A k \in 1..(n - 1) : spec[k] # None /\ spec[k].acc[Len(spec[k].acc)].name # "" =>
        LET f == Field(targ, spec[k])
            left == Value(targ, spec[k], "lshift")
        IN f.bit_sz <= 64 /\ f.bytes # None =>
             /\ f.bytes[1] * 8 <= spec[k].bits
             /\ spec[k].bits + f.bit_sz <= (f.bytes[1] + f.bytes[2]) * 8
             /\ left >= 0 /\ left + f.bit_sz <= 64
             /\ f.bitfield => f.bytes[1] % f.bytes[2] = 0

(* An instruction is poisoned, or told that a field is absent, just when no  *)
(* type of that name has the field, of those that have all fields found      *)
(* before at the offsets that were written.                                  *)
Absent(k) == insn[k] = IF prog[k].kind = "exists" THEN 0 ELSE Unreachable
Flavors(id) ==
    {c \in DOMAIN targ : targ[c].name = Local[id].name
                         /\ Kind(targ, c) \in {"composite", "array"}}
StillPossible(k) ==
    {c \in Flavors(prog[k].type) :
        \A j \in 1..(k - 1) : prog[j].type = prog[k].type /\ spec[j] # None =>
            Reached(targ, c, LocalSpec(prog[j]).acc, 1) = {spec[j].bits}}
AbsentMeansAbsent ==
    \A k \in 1..(n - 1) :
        Absent(k) <=> \A c \in StillPossible(k) :
                          Reached(targ, c, LocalSpec(prog[k]).acc, 1) = {}

(* A field that is in none of them empties no list: as long as the kernel    *)
(* has a type of that name, the next relocation has one to look at           *)
(* (cand_ids->len is left alone when nothing matched).                       *)
NeverEmptied ==
    \A id \in DOMAIN cand_cache :
        cand_cache[id] = <<>> => Flavors(id) = {}

CoreRight == OneShape /\ BitsExact /\ AbsentMeansAbsent /\ NeverEmptied

================================================================================
