------------------------------- MODULE Externs --------------------------------
(* libbpf.c: the extern variables of an object.  bpf_object__open collects   *)
(* them from the undefined symbols and lays them out in the .kconfig map;    *)
(* bpf_object__load gives each the value of the kernel version or of a line  *)
(* of the kernel configuration, first of the one the caller passed, then of  *)
(* the file of the system.                                                   *)
EXTENDS Integers, Sequences, SequencesExt

CONSTANTS
    Types,          \* type -> [kind, size, align, bool, signed, tristate, elem]
    Symbols,        \* the symbol tables: sequences of [name, weak]
    Vars,           \* the .kconfig variables of the BTF: name -> [type, extern]
    KindOf,         \* name -> "config" (CONFIG_ prefix), "version" or "other"
    Rank,           \* name -> its place in the order of strcmp
    Texts,          \* the configurations: sequences of [name, kind, value, ok]
    Version,        \* get_kernel_version(), 0 if it fails
    ByteBits,       \* 8, scaled
    WordBytes,      \* 8: sizeof(__u64)
    None

VARIABLES
    symbols, vars, mem, system, \* the object file, opts.kconfig or None, the file or None
    phase,          \* open, map, load, mem, file, check, done
    i,              \* the next symbol, extern or line
    externs,        \* obj->externs
    offset,         \* vs->offset of each variable of the datasec
    map_sz,
    data,           \* the mapped bytes of the .kconfig map
    seen,           \* the line each extern took its value from (history)
    err

extvars == <<symbols, vars, mem, system, phase, i, externs, offset, map_sz, data, seen, err>>
world == <<symbols, vars, mem, system>>

EINVAL == -22  ENOENT == -2  ENOTSUP == -95  ESRCH == -3  ERANGE == -34

Byte == 2 ^ ByteBits
Word == Byte ^ WordBytes

---------------------------------------------------------------------------
(* find_extern_type: what a value of the type may be set from.               *)
RECURSIVE find_extern_type(_)
find_extern_type(t) ==
    LET y == Types[t]
    IN CASE y.kind = "int" /\ y.bool -> IF y.size = 1 THEN "bool" ELSE "unknown"
         [] y.kind = "int" /\ ~y.bool ->
              IF y.size = 1 THEN "char"
              ELSE IF y.size \in {2 ^ k : k \in 1..3} /\ y.size <= WordBytes THEN "int" ELSE "unknown"
         [] y.kind = "enum" -> IF y.size = 4 /\ y.tristate THEN "tristate" ELSE "unknown"
         [] y.kind = "array" ->
              IF y.size > 0 /\ find_extern_type(y.elem) = "char" THEN "char_arr" ELSE "unknown"
         [] OTHER -> "unknown"

Extern(sym) ==
    LET v == vars[sym.name]
        y == Types[v.type]
    IN [name |-> sym.name, weak |-> sym.weak, set |-> FALSE, sz |-> y.size, align |-> y.align,
        type |-> find_extern_type(v.type), signed |-> y.kind = "int" /\ y.signed, off |-> 0]

(* cmp_externs: by falling alignment, then by size, then by name.            *)
cmp_externs(a, b) ==
    IF a.align # b.align THEN a.align > b.align
    ELSE IF a.sz # b.sz THEN a.sz < b.sz ELSE Rank[a.name] < Rank[b.name]

RoundUp(off, align) == ((off + align - 1) \div align) * align

LaidOut(es) ==
    LET off[k \in 0..Len(es)] ==
            IF k = 0 THEN 0
            ELSE RoundUp(IF k = 1 THEN 0 ELSE off[k - 1] + es[k - 1].sz, es[k].align)
    IN [k \in DOMAIN es |-> [es[k] EXCEPT !.off = off[k]]]

---------------------------------------------------------------------------
Init ==
    /\ symbols \in Symbols /\ vars \in Vars
    /\ mem \in Texts \cup {None} /\ system \in Texts \cup {None}
    /\ phase = "open" /\ i = 1 /\ externs = <<>>
    /\ offset = [v \in DOMAIN vars |-> 0]
    /\ map_sz = 0 /\ data = <<>> /\ seen = [v \in DOMAIN vars |-> None] /\ err = 0

Fail(e) ==
    /\ err' = e /\ phase' = "done"
    /\ UNCHANGED <<world, i, externs, offset, map_sz, data, seen>>

Goto(ph) == phase' = ph /\ i' = 1

(* bpf_object__collect_externs, one symbol.  A size of 0 is returned as the  *)
(* result: the search stops without an error, before sorting and offsets.    *)
CollectSymbol ==
    LET e == Extern(symbols[i])
    IN /\ phase = "open" /\ i <= Len(symbols)
       /\ CASE symbols[i].name \notin DOMAIN vars -> Fail(ENOENT)
            [] OTHER ->
                 CASE ~vars[symbols[i].name].extern -> Fail(EINVAL)
                   [] OTHER ->
                        CASE e.sz = 0 ->
                               /\ externs' = Append(externs, e) /\ Goto("map")
                               /\ UNCHANGED <<world, offset, map_sz, data, seen, err>>
                          [] e.sz > 0 /\ e.type = "unknown" -> Fail(ENOTSUP)
                          [] OTHER ->
                               /\ externs' = Append(externs, e) /\ i' = i + 1
                               /\ UNCHANGED <<world, phase, offset, map_sz, data, seen, err>>

(* Its end: sorting, the offsets, and those of the datasec.                  *)
CollectEnd ==
    LET es == LaidOut(SortSeq(externs, cmp_externs))
        At(v) == CHOOSE k \in DOMAIN es : es[k].name = v
    IN /\ phase = "open" /\ i > Len(symbols)
       /\ IF es = <<>>
          THEN Goto("load") /\ UNCHANGED <<world, externs, offset, map_sz, data, seen, err>>
          ELSE IF \E v \in DOMAIN vars : \A k \in DOMAIN es : es[k].name # v
          THEN Fail(ESRCH)
          ELSE /\ externs' = es
               /\ offset' = [v \in DOMAIN vars |-> es[At(v)].off]
               /\ Goto("map")
               /\ UNCHANGED <<world, map_sz, data, seen, err>>

(* bpf_object__init_kconfig_map: a map of the size of the last extern's end; *)
(* mmap of no bytes fails.                                                   *)
InitMap ==
    LET sz == externs[Len(externs)].off + externs[Len(externs)].sz
    IN /\ phase = "map"
       /\ IF sz = 0 THEN Fail(EINVAL)
          ELSE /\ map_sz' = sz /\ data' = [k \in 1..sz |-> 0]
               /\ Goto("load")
               /\ UNCHANGED <<world, externs, offset, seen, err>>

---------------------------------------------------------------------------
(* A mutant: the sign of the extern is not looked at.                        *)
InRangeUnsigned(e, v) == e.sz = WordBytes \/ v < Byte ^ e.sz

(* is_ext_value_in_range, in words of WordBytes.                             *)
InRange(e, v) ==
    LET lim == Byte ^ e.sz
    IN IF e.sz = WordBytes THEN TRUE
       ELSE IF e.signed THEN (v + lim \div 2) % Word < lim ELSE v < lim

Bytes(v, sz) == [k \in 1..sz |-> (v \div Byte ^ (k - 1)) % Byte]
Put(e, bytes) == [k \in DOMAIN data |-> IF k - e.off \in DOMAIN bytes THEN bytes[k - e.off] ELSE data[k]]

(* set_ext_value_num, _tri and _str: the bytes of the value, or an error.    *)
(* The letters y, n and m are one byte each; a tristate counts n, y, m.      *)
Letter == [n |-> 1, y |-> 2, m |-> 3]
Tri == [n |-> 0, y |-> 1, m |-> 2]

Num(e, v) ==
    IF e.type \notin {"int", "char"} THEN EINVAL
    ELSE IF ~InRange(e, v) THEN ERANGE ELSE 0

(* A line's letter and text stand in its fields letter and text.             *)
Refusal(e, line) ==
    CASE line.kind = "tri" ->
           IF e.type \in {"tristate", "char"} \/ (e.type = "bool" /\ line.letter # "m") THEN 0 ELSE EINVAL
      [] line.kind = "str" -> IF e.type = "char_arr" /\ line.ok THEN 0 ELSE EINVAL
      [] line.kind = "num" -> IF ~line.ok THEN EINVAL ELSE Num(e, line.value)

Text(e, text) ==
    LET len == IF Len(text) >= e.sz THEN e.sz - 1 ELSE Len(text)
    IN [k \in 1..(len + 1) |-> IF k <= len THEN text[k] ELSE 0]

ValueBytes(e, line) ==
    CASE line.kind = "tri" /\ e.type = "bool" -> <<IF line.letter = "y" THEN 1 ELSE 0>>
      [] line.kind = "tri" /\ e.type = "tristate" -> Bytes(Tri[line.letter], e.sz)
      [] line.kind = "tri" /\ e.type = "char" -> <<Letter[line.letter]>>
      [] line.kind = "str" -> Text(e, line.text)
      [] line.kind = "num" -> Bytes(line.value, e.sz)

Assign(k, line) ==
    /\ data' = Put(externs[k], ValueBytes(externs[k], line))
    /\ externs' = [externs EXCEPT ![k].set = TRUE]
    /\ seen' = [seen EXCEPT ![externs[k].name] = line]

(* bpf_object__resolve_externs: the kernel version, one extern a step.       *)
VersionLine == [kind |-> "num", value |-> Version, ok |-> TRUE]
ResolveVersion ==
    LET e == externs[i]
    IN /\ phase = "load" /\ i <= Len(externs)
       /\ CASE KindOf[e.name] = "other" -> Fail(EINVAL)
            [] KindOf[e.name] = "config" ->
                 i' = i + 1 /\ UNCHANGED <<world, phase, externs, offset, map_sz, data, seen, err>>
            [] KindOf[e.name] = "version" ->
                 LET r == IF Version = 0 THEN EINVAL ELSE Refusal(e, VersionLine)
                 IN IF r # 0 THEN Fail(r)
                    ELSE /\ Assign(i, VersionLine) /\ i' = i + 1
                         /\ UNCHANGED <<world, phase, offset, map_sz, err>>

NeedConfig == \E k \in DOMAIN externs : KindOf[externs[k].name] = "config"
Unset == \E k \in DOMAIN externs : ~externs[k].set

(* Which configuration is read next.                                         *)
Choose ==
    /\ phase = "load" /\ i > Len(externs)
    /\ Goto(IF ~NeedConfig THEN "check" ELSE IF mem # None THEN "mem" ELSE "file")
    /\ UNCHANGED <<world, externs, offset, map_sz, data, seen, err>>

Takes(e) == ~e.set

(* bpf_object__process_kconfig_line.                                         *)
Line(ph, text) ==
    LET line == text[i]
        hit == {k \in DOMAIN externs : externs[k].name = line.name /\ Takes(externs[k])}
        k == CHOOSE x \in hit : TRUE
    IN /\ phase = ph /\ i <= Len(text)
       /\ CASE KindOf[line.name] # "config" \/ (line.kind # "none" /\ hit = {}) ->
                 i' = i + 1 /\ UNCHANGED <<world, phase, externs, offset, map_sz, data, seen, err>>
            [] OTHER ->
                 IF line.kind = "none" THEN Fail(EINVAL)
                 ELSE IF Refusal(externs[k], line) # 0 THEN Fail(EINVAL)
                 ELSE /\ Assign(k, line) /\ i' = i + 1
                      /\ UNCHANGED <<world, phase, offset, map_sz, err>>

(* bpf_object__read_kconfig_mem and bpf_object__read_kconfig_file.           *)
read_kconfig_mem == phase = "mem" /\ Line("mem", mem)
MemEnd ==
    /\ phase = "mem" /\ i > Len(mem)
    /\ Goto(IF Unset THEN "file" ELSE "check")
    /\ UNCHANGED <<world, externs, offset, map_sz, data, seen, err>>
read_kconfig_file == phase = "file" /\ system # None /\ Line("file", system)
FileMissing == phase = "file" /\ system = None /\ Fail(EINVAL)
FileEnd ==
    /\ phase = "file" /\ system # None /\ i > Len(system)
    /\ Goto("check")
    /\ UNCHANGED <<world, externs, offset, map_sz, data, seen, err>>

Check ==
    /\ phase = "check"
    /\ IF \E k \in DOMAIN externs : ~externs[k].set /\ ~externs[k].weak THEN Fail(ESRCH)
       ELSE Goto("done") /\ UNCHANGED <<world, externs, offset, map_sz, data, seen, err>>

Next ==
    \/ CollectSymbol \/ CollectEnd \/ InitMap
    \/ ResolveVersion \/ Choose
    \/ read_kconfig_mem \/ MemEnd
    \/ read_kconfig_file \/ FileMissing \/ FileEnd
    \/ Check

---------------------------------------------------------------------------
TypeOK ==
    /\ phase \in {"open", "map", "load", "mem", "file", "check", "done"}
    /\ i >= 1 /\ Len(data) = map_sz /\ err <= 0
    /\ err # 0 => phase = "done"

Loaded == phase = "done" /\ err = 0

(* The bytes of two externs never overlap, each is aligned, inside the map,  *)
(* and where the datasec the kernel and the program's code see says it is.   *)
Cells(e) == {e.off + k : k \in 1..e.sz}
Apart ==
    map_sz > 0 =>
        /\ \A a, b \in DOMAIN externs : a # b => Cells(externs[a]) \cap Cells(externs[b]) = {}
        /\ \A k \in DOMAIN externs :
             /\ externs[k].off % externs[k].align = 0
             /\ externs[k].off + externs[k].sz <= map_sz
             /\ offset[externs[k].name] = externs[k].off
        /\ \A v \in DOMAIN vars : \E k \in DOMAIN externs : externs[k].name = v

(* What the program reads.                                                   *)
Got(e) == SubSeq(data, e.off + 1, e.off + e.sz)
Number(e) ==
    LET v == FoldRight(LAMBDA byte, acc : byte + Byte * acc, Got(e), 0)
    IN IF e.signed /\ v >= Byte ^ e.sz \div 2 THEN (v - Byte ^ e.sz) % Word ELSE v

(* The line that must decide about a name: the first of the caller's text,   *)
(* which "augments and overrides system Kconfig", then of the system's.      *)
Lines(text, v) == IF text = None THEN <<>> ELSE SelectSeq(text, LAMBDA ln : ln.name = v)
Deciding(v) ==
    LET all == Lines(mem, v) \o Lines(system, v)
    IN IF KindOf[v] = "version" THEN VersionLine ELSE IF all = <<>> THEN None ELSE all[1]

(* After a successful load the program reads, for every extern, the number,  *)
(* letter or text of the line that decides about it, and zeros for a weak    *)
(* one that no line is about; a strong one without a line fails the load.    *)
ValuesRight ==
    Loaded => \A k \in DOMAIN externs :
        LET e == externs[k]
            line == Deciding(e.name)
        IN IF line = None THEN e.weak /\ \A c \in DOMAIN Got(e) : Got(e)[c] = 0
           ELSE /\ seen[e.name] = line
                /\ line.kind = "num" => Number(e) = line.value
                /\ line.kind = "tri" /\ e.type = "bool" => Number(e) = IF line.letter = "y" THEN 1 ELSE 0
                /\ line.kind = "str" =>
                     /\ Got(e)[e.sz] = 0
                     /\ \A c \in 1..(e.sz - 1) : c <= Len(line.text) => Got(e)[c] = line.text[c]

(* An extern of no size, whose search returned 0, is never in a loaded       *)
(* object.                                                                   *)
NoneUntyped == map_sz > 0 => \A k \in DOMAIN externs : externs[k].sz > 0

ExternsRight == Apart /\ ValuesRight /\ NoneUntyped
================================================================================
