------------------------------- MODULE BtfDedup --------------------------------
(* btf__dedup (btf.c): the type descriptions of several compilation units,   *)
(* concatenated, are reduced to one description of each type.  A type has a  *)
(* kind, the offset of its name in the string section, what it says of its   *)
(* own (info: encoding, size, names and offsets of fields, members of an     *)
(* enum, none for a forward declaration, the kind a FWD stands for) and      *)
(* the types it refers to.  Each pass is one step.                           *)
EXTENDS Integers, Sequences, FiniteSets, SequencesExt, TLC

CONSTANTS
    Units,          \* possible compilation units: sequences of types
    Strings,        \* the string section: contents by offset, 0 the empty one
    Options         \* values of dont_resolve_fwds

VARIABLES
    phase,
    input,          \* the types as they were (history)
    dont_resolve_fwds,
    names,          \* content of each offset of the string section
    types,          \* d->btf->types
    map,            \* canonical type of each type
    table,          \* dedup_table: canonical types, the latest first
    new_id          \* hypot_map as btf_dedup_compact_types leaves it

bdvars == <<phase, input, dont_resolve_fwds, names, types, map, table, new_id>>

Ids == 1..Len(input)
UNPROCESSED == Len(input) + 1
IN_PROGRESS == Len(input) + 2
Void == [kind |-> "void", name |-> 0, info |-> <<>>, refs |-> <<>>]
Type(ts, i) == IF i = 0 THEN Void ELSE ts[i]

Composites == {"struct", "union"}
Primitives == {"int", "enum", "fwd"}
Kept == {"var", "datasec"}

(* Two units one after the other: the types of the second are numbered on.   *)
Concatenated(u, v) ==
    u \o [k \in 1..Len(v) |-> [v[k] EXCEPT !.refs = [n \in DOMAIN @ |->
                                    IF @[n] = 0 THEN 0 ELSE @[n] + Len(u)]]]

TypeOK ==
    /\ phase \in {"strings", "prim", "struct", "ref", "compact", "remap", "done"}
    /\ \A i \in Ids : map[i] \in Ids \cup {UNPROCESSED}
    /\ \A k \in DOMAIN table : table[k] \in Ids
    /\ \A i \in DOMAIN types : types[i].name \in DOMAIN names

Init ==
    /\ phase = "strings"
    /\ input \in {Concatenated(u, v) : u, v \in Units}
    /\ dont_resolve_fwds \in Options
    /\ names = Strings
    /\ types = input
    /\ map = [i \in 0..Len(input) |->
                IF i = 0 \/ Type(input, i).kind \in Kept THEN i ELSE UNPROCESSED]
    /\ table = <<>>
    /\ new_id = <<>>

-----------------------------------------------------------------------------
(* btf_dedup_strings: the contents in use, sorted, each once.                *)
Used == {names[types[i].name] : i \in DOMAIN types} \cup {names[0]}
Rank(c) == Cardinality({b \in Used : b < c})
btf_dedup_strings ==
    /\ phase = "strings" /\ phase' = "prim"
    /\ names' = [o \in 0..(Cardinality(Used) - 1) |-> CHOOSE c \in Used : Rank(c) = o]
    /\ types' = [i \in DOMAIN types |-> [types[i] EXCEPT !.name = Rank(names[@])]]
    /\ UNCHANGED <<input, dont_resolve_fwds, map, table, new_id>>

-----------------------------------------------------------------------------
(* The state a pass works on: the types, the map and the table.  Entries of  *)
(* one key are met latest first, or in another order when the table has      *)
(* grown: the passes are given the order.                                    *)
State == [types |-> types, map |-> map, table |-> table]
InOrder(s, reverse) == IF reverse THEN Reverse(s) ELSE s
Canonical(d, i) == [d EXCEPT !.map[i] = i, !.table = <<i>> \o @]

btf_equal_common(t, u) ==
    t.kind = u.kind /\ t.name = u.name /\ t.info = u.info /\ t.refs = u.refs
(* Without the types they refer to: btf_shallow_equal_struct and             *)
(* btf_compat_array, btf_compat_fnproto.                                     *)
Shallow(t, u) ==
    t.kind = u.kind /\ t.name = u.name /\ t.info = u.info /\ Len(t.refs) = Len(u.refs)
btf_is_enum_fwd(t) == t.info = <<>>
btf_compat_enum(t, u) ==
    IF ~btf_is_enum_fwd(t) /\ ~btf_is_enum_fwd(u) THEN btf_equal_common(t, u)
    ELSE t.kind = u.kind /\ t.name = u.name

(* The first candidate that satisfies a condition, or the type itself.       *)
First(cands, Match(_), i) ==
    LET hits == {k \in DOMAIN cands : Match(cands[k])}
    IN IF hits = {} THEN i ELSE cands[CHOOSE k \in hits : \A j \in hits : k <= j]
Mapped(d, i, j) == IF i = j THEN Canonical(d, i) ELSE [d EXCEPT !.map[i] = j]

(* An enum takes the first candidate that is equal or, if it is a forward    *)
(* declaration, compatible; the forward declarations met on the way resolve  *)
(* to it.                                                                    *)
Enum(d, i, cands) ==
    LET t == d.types[i]
        Takes(c) == \/ btf_equal_common(t, d.types[c])
                    \/ /\ ~dont_resolve_fwds /\ btf_compat_enum(t, d.types[c])
                       /\ btf_is_enum_fwd(t)
        j == First(cands, Takes, i)
        before == {k \in DOMAIN cands : j = i \/ \A n \in 1..k : cands[n] # j}
        resolved == {cands[k] : k \in {n \in before :
                        ~dont_resolve_fwds /\ btf_compat_enum(t, d.types[cands[n]])}}
    IN Mapped([d EXCEPT !.map = [n \in DOMAIN @ |-> IF n \in resolved THEN i ELSE @[n]]], i, j)

btf_dedup_prim_type(d, i, reverse) ==
    LET t == d.types[i]
        cands == InOrder(d.table, reverse)
        Equal(c) == btf_equal_common(t, d.types[c])
    IN IF t.kind \notin Primitives THEN d
       ELSE IF t.kind = "enum" THEN Enum(d, i, cands)
       ELSE Mapped(d, i, First(cands, Equal, i))

-----------------------------------------------------------------------------
is_type_mapped(d, i) == d.map[i] \in DOMAIN d.map
RECURSIVE resolve_type_id(_, _)
resolve_type_id(d, i) ==
    IF is_type_mapped(d, i) /\ d.map[i] # i THEN resolve_type_id(d, d.map[i]) ELSE i
resolve_fwd_id(d, i) ==
    IF Type(d.types, i).kind # "fwd" THEN i
    ELSE LET r == resolve_type_id(d, i) IN IF Type(d.types, r).kind # "fwd" THEN r ELSE i

(* btf_dedup_is_equiv: both graphs are walked side by side.  hyp is the      *)
(* hypothetical map, the pairs <<canonical, candidate>> in the order of      *)
(* hypot_list.  A mutant forgets what a pair was compared with.              *)
NoContradiction(pair, cand) == TRUE
Consistent(pair, cand) == pair[2] = cand

RECURSIVE btf_dedup_is_equiv(_, _, _, _)
btf_dedup_is_equiv(d, hyp, cand, canon) ==
    IF resolve_type_id(d, cand) = resolve_type_id(d, canon) THEN [eq |-> TRUE, hyp |-> hyp]
    ELSE
    LET c == resolve_fwd_id(d, canon)
        t == Type(d.types, cand)
        u == Type(d.types, c)
        known == {k \in DOMAIN hyp : hyp[k][1] = c}
        more == Append(hyp, <<c, cand>>)
        Answer(b) == [eq |-> b, hyp |-> more]
    IN IF known # {} THEN [eq |-> \A k \in known : Consistent(hyp[k], cand), hyp |-> hyp]
       ELSE IF t.name # u.name THEN Answer(FALSE)
       ELSE IF ~dont_resolve_fwds /\ "fwd" \in {t.kind, u.kind} /\ t.kind # u.kind
            THEN Answer(IF t.kind = "fwd" THEN t.info = <<u.kind>> ELSE u.info = <<t.kind>>)
       ELSE IF t.kind = "enum" /\ ~dont_resolve_fwds THEN Answer(btf_compat_enum(t, u))
       ELSE IF ~Shallow(t, u) THEN Answer(FALSE)
       ELSE FoldLeft(LAMBDA r, k : IF ~r.eq THEN r
                                   ELSE btf_dedup_is_equiv(d, r.hyp, t.refs[k], u.refs[k]),
                     Answer(TRUE), [k \in 1..Len(t.refs) |-> k])

(* btf_dedup_merge_hypot_map: forward declarations resolve to what they were *)
(* compared with, and structs to those that are canonical already.           *)
Merge(d, pair) ==
    LET c == resolve_type_id(d, pair[1])
        t == resolve_type_id(d, pair[2])
        ck == Type(d.types, c).kind
        tk == Type(d.types, t).kind
        e == IF tk # "fwd" /\ ck = "fwd" THEN [d EXCEPT !.map[c] = t]
             ELSE IF tk = "fwd" /\ ck # "fwd" THEN [d EXCEPT !.map[t] = c] ELSE d
    IN IF tk \in Composites /\ ck # "fwd" /\ is_type_mapped(e, c) /\ ~is_type_mapped(e, t)
       THEN [e EXCEPT !.map[t] = c] ELSE e

btf_dedup_struct_type(d, i, reverse) ==
    LET cands == InOrder(d.table, reverse)
        Equivalent(c) == /\ Shallow(d.types[i], d.types[c])
                         /\ btf_dedup_is_equiv(d, <<>>, i, c).eq
        j == First(cands, Equivalent, i)
    IN IF is_type_mapped(d, i) \/ d.types[i].kind \notin Composites THEN d
       ELSE IF i = j THEN Canonical(d, i)
       ELSE [FoldLeft(Merge, d, btf_dedup_is_equiv(d, <<>>, i, j).hyp) EXCEPT !.map[i] = j]

-----------------------------------------------------------------------------
(* btf_dedup_ref_type: first what a type refers to, then the type.  It gives *)
(* the id too, 0 - 1 for a chain of references that meets itself (-ELOOP).   *)
RECURSIVE btf_dedup_ref_type(_, _, _)
btf_dedup_ref_type(d, i, reverse) ==
    IF d.map[i] = IN_PROGRESS THEN [d |-> d, id |-> -1]
    ELSE IF is_type_mapped(d, i) THEN [d |-> d, id |-> resolve_type_id(d, i)]
    ELSE
    LET Step(r, k) ==
            IF r.id < 0 THEN r
            ELSE LET s == btf_dedup_ref_type(r.d, d.types[i].refs[k], reverse)
                 IN IF s.id < 0 THEN s
                    ELSE [d |-> [s.d EXCEPT !.types[i].refs[k] = s.id], id |-> i]
        r == FoldLeft(Step, [d |-> [d EXCEPT !.map[i] = IN_PROGRESS], id |-> i],
                      [k \in 1..Len(d.types[i].refs) |-> k])
        Equal(c) == btf_equal_common(r.d.types[i], r.d.types[c])
        j == First(InOrder(r.d.table, reverse), Equal, i)
    IN IF r.id < 0 THEN r ELSE [d |-> Mapped(r.d, i, j), id |-> j]

-----------------------------------------------------------------------------
Pass(from, to, Do(_, _, _)) ==
    /\ phase = from /\ phase' = to
    /\ \E reverse \in BOOLEAN :
        LET d == FoldLeft(LAMBDA e, i : Do(e, i, reverse), State, [i \in Ids |-> i])
        IN types' = d.types /\ map' = d.map /\ table' = d.table
    /\ UNCHANGED <<input, dont_resolve_fwds, names, new_id>>

RefType(d, i, reverse) == btf_dedup_ref_type(d, i, reverse).d

btf_dedup_prim_types == Pass("prim", "struct", btf_dedup_prim_type)
btf_dedup_struct_types == Pass("struct", "ref", btf_dedup_struct_type)
btf_dedup_ref_types == Pass("ref", "compact", RefType)

(* The canonical types move to the front.                                    *)
Canonicals == SelectSeq([i \in Ids |-> i], LAMBDA i : map[i] = i)
btf_dedup_compact_types ==
    /\ phase = "compact" /\ phase' = "remap"
    /\ types' = [k \in 1..Len(Canonicals) |-> types[Canonicals[k]]]
    /\ new_id' = [i \in 0..Len(input) |->
                    IF i = 0 THEN 0
                    ELSE IF map[i] # i THEN UNPROCESSED
                    ELSE CHOOSE k \in DOMAIN Canonicals : Canonicals[k] = i]
    /\ UNCHANGED <<input, dont_resolve_fwds, names, map, table>>

btf_dedup_remap_type_id(i) == new_id[resolve_type_id(State, i)]
btf_dedup_remap_types ==
    /\ phase = "remap" /\ phase' = "done"
    /\ types' = [k \in DOMAIN types |->
                    [types[k] EXCEPT !.refs = [n \in DOMAIN @ |-> btf_dedup_remap_type_id(@[n])]]]
    /\ UNCHANGED <<input, dont_resolve_fwds, names, map, table, new_id>>

Next ==
    \/ btf_dedup_strings \/ btf_dedup_prim_types \/ btf_dedup_struct_types
    \/ btf_dedup_ref_types \/ btf_dedup_compact_types \/ btf_dedup_remap_types

-----------------------------------------------------------------------------
(* Properties.                                                               *)

(* Every type is described as before: its final type has the same kind, name *)
(* and info and refers to the final types of what it referred to, or it was  *)
(* a forward declaration and is now of the kind and name it announced.       *)
Content(i) == Strings[Type(input, i).name]
DescribedAsBefore ==
    phase = "done" => \A i \in Ids :
        LET t == input[i]
            n == btf_dedup_remap_type_id(i)
            f == types[n]
        IN /\ n \in DOMAIN types
           /\ names[f.name] = Content(i)
           /\ \/ /\ f.kind = t.kind /\ f.info = t.info
                 /\ f.refs = [k \in DOMAIN t.refs |-> btf_dedup_remap_type_id(t.refs[k])]
              \/ ~dont_resolve_fwds /\ t.kind = "fwd" /\ <<f.kind>> = t.info
              \/ ~dont_resolve_fwds /\ t.kind = "enum" /\ btf_is_enum_fwd(t) /\ f.kind = "enum"

(* No two of the final types say the same: the largest relation between      *)
(* types that agree and refer to related types relates each only to itself.  *)
Refine(R) ==
    {p \in R : \A k \in DOMAIN Type(types, p[1]).refs :
        <<Type(types, p[1]).refs[k], Type(types, p[2]).refs[k]>> \in R}
Similar ==
    LET Final == {0} \cup DOMAIN types
        Same == {p \in Final \X Final : Shallow(Type(types, p[1]), Type(types, p[2]))}
        Step[n \in 0..(Len(types) * Len(types))] == IF n = 0 THEN Same ELSE Refine(Step[n - 1])
    IN Step[Len(types)]
EachOnce ==
    phase = "done" => \A p \in Similar : p[1] = p[2] \/ Type(types, p[1]).kind \in Kept

DedupRight == DescribedAsBefore /\ EachOnce
=============================================================================
