-------------------------------- MODULE BtfDump --------------------------------
(* btf_dump.c: btf_dump__dump_type writes a type as C, after the types it    *)
(* needs.  A first walk puts definitions in order (emit_queue), a second one *)
(* writes them with the forward declarations in between.  What is written is *)
(* a sequence of declarations; a caller may dump types in any order.         *)
EXTENDS Integers, Sequences, FiniteSets

CONSTANTS
    Units,          \* the BTF: sequences of types [kind, name, type, parts, vals]
    Builtins,       \* names the compiler defines: __builtin_va_list
    LeastCap,       \* 16: first capacity of emit_queue
    MaxCalls,       \* bound: calls of btf_dump__dump_type
    MaxFaults       \* bound: calls in which emit_queue cannot grow

VARIABLES
    unit,           \* the types
    d,              \* type_states, emit_queue and the name tables
    out,            \* the declarations written so far
    ret,            \* what the last call returned
    asked,          \* the types dumped so far, with what was returned (history)
    faults

dumpvars == <<unit, d, out, ret, asked, faults>>

ELOOP == -40  ENOMEM == -12

Ids == 0..Len(unit)
Void == [kind |-> "void", name |-> "", type |-> 0, parts |-> <<>>, vals |-> <<>>]
T(id) == IF id = 0 THEN Void ELSE unit[id]
Named(id) == T(id).name # ""
Composite(id) == T(id).kind \in {"struct", "union"}
Mods == {"const", "volatile", "restrict"}
Max2(a, b) == IF a >= b THEN a ELSE b

---------------------------------------------------------------------------
(* btf_dump_mark_referenced.                                                 *)
Referenced ==
    {T(id).type : id \in {x \in 1..Len(unit) :
        T(x).kind \in Mods \cup {"ptr", "typedef", "func", "var", "array"}}}
    \cup UNION {{T(id).parts[p] : p \in DOMAIN T(id).parts} : id \in 1..Len(unit)}

(* btf_dump__new.                                                            *)
Init ==
    /\ unit \in Units
    /\ d = [order |-> [id \in Ids |-> IF id = 0 THEN "ORDERED" ELSE "NOT_ORDERED"],
            emit |-> [id \in Ids |-> IF id = 0 THEN "EMITTED" ELSE "NOT_EMITTED"],
            fwd |-> {}, queue |-> <<>>, cap |-> 0, grow |-> TRUE,
            dup |-> [id \in Ids |-> 0], type_names |-> <<>>, ident_names |-> <<>>]
    /\ out = <<>> /\ ret = 0 /\ asked = {} /\ faults = 0

---------------------------------------------------------------------------
(* btf_dump_order_type, over the state s and with its result r: 1 for a      *)
(* strong link, 0 for a weak one, or an error.                               *)
Answer(s, r) == [s |-> s, r |-> r]
Mark(s, id, state) == [s EXCEPT !.order[id] = state]

(* btf_dump_add_emit_queue_id, then the type is ORDERED.                     *)
Queued(s, id) ==
    IF Len(s.queue) >= s.cap /\ ~s.grow THEN Answer(s, ENOMEM)
    ELSE Answer([s EXCEPT !.queue = Append(@, id), !.order[id] = "ORDERED",
                          !.cap = IF Len(s.queue) < @ THEN @
                                  ELSE Max2(LeastCap, (@ * 3) \div 2)], 1)

(* A struct behind a pointer can be declared only, if it has a name.         *)
Weak(id, ptr) == ptr /\ Named(id)

RECURSIVE Order(_, _, _), OrderParts(_, _, _, _)

(* The members or parameters from n on; r is 1 if one of them is strong.     *)
OrderParts(s, parts, n, ptr) ==
    IF n > Len(parts) THEN Answer(s, 0)
    ELSE LET one == Order(s, parts[n], ptr)
             rest == OrderParts(one.s, parts, n + 1, ptr)
         IN IF one.r < 0 THEN one
            ELSE IF rest.r < 0 THEN rest ELSE Answer(rest.s, Max2(one.r, rest.r))

OrderStruct(s, id) ==
    LET members == OrderParts(Mark(s, id, "ORDERING"), T(id).parts, 1, FALSE)
    IN IF members.r < 0 THEN members
       ELSE IF Named(id) THEN Queued(members.s, id)
       ELSE Answer(Mark(members.s, id, "ORDERED"), 1)

OrderTypedef(s, id, ptr) ==
    LET target == Order(s, T(id).type, ptr)
    IN IF target.r < 0 THEN target
       ELSE IF ptr /\ target.r = 0 THEN target
       ELSE Queued(target.s, id)

OrderProto(s, id, ptr) ==
    LET result == Order(s, T(id).type, ptr)
        params == OrderParts(result.s, T(id).parts, 1, ptr)
    IN IF result.r < 0 THEN result
       ELSE IF params.r < 0 THEN params ELSE Answer(params.s, Max2(result.r, params.r))

OrderPtr(s, id) ==
    LET target == Order(s, T(id).type, TRUE)
    IN Answer(Mark(target.s, id, "ORDERED"), target.r)

Order(s, id, ptr) ==
    CASE s.order[id] = "ORDERED" -> Answer(s, 1)
      [] s.order[id] = "ORDERING" ->
           Answer(s, IF Composite(id) /\ Weak(id, ptr) THEN 0 ELSE ELOOP)
      [] s.order[id] = "NOT_ORDERED" ->
           CASE T(id).kind \in {"int", "func", "var", "datasec"} ->
                  Answer(Mark(s, id, "ORDERED"), 0)
             [] T(id).kind = "ptr" -> OrderPtr(s, id)
             [] T(id).kind \in Mods \cup {"array"} -> Order(s, T(id).type, ptr)
             [] Composite(id) -> IF Weak(id, ptr) THEN Answer(s, 0) ELSE OrderStruct(s, id)
             [] T(id).kind \in {"enum", "fwd"} ->
                  IF Named(id) \/ id \notin Referenced THEN Queued(s, id)
                  ELSE Answer(Mark(s, id, "ORDERED"), 1)
             [] T(id).kind = "typedef" -> OrderTypedef(s, id, ptr)
             [] T(id).kind = "func_proto" -> OrderProto(s, id, ptr)

---------------------------------------------------------------------------
(* Names.  A name that occurred before gets a number (btf_dump_name_dups,    *)
(* btf_dump_resolve_name).                                                   *)
Count(table, name) == Cardinality({n \in DOMAIN table : table[n] = name})

Resolved(s, id) ==
    IF ~Named(id) \/ s.dup[id] # 0 THEN s
    ELSE IF T(id).kind = "typedef"
         THEN [s EXCEPT !.ident_names = Append(@, T(id).name),
                        !.dup[id] = Count(s.ident_names, T(id).name) + 1]
         ELSE [s EXCEPT !.type_names = Append(@, T(id).name),
                        !.dup[id] = Count(s.type_names, T(id).name) + 1]

(* Writing a declaration: what, of which type, under which names.            *)
Written(o, what, id) ==
    LET s == Resolved(o.s, id)
        enum == what = "def" /\ T(id).kind = "enum"
        idents == IF enum THEN s.ident_names \o T(id).vals ELSE s.ident_names
        vals == IF enum
                THEN [n \in DOMAIN T(id).vals |->
                        <<T(id).vals[n],
                          Count(SubSeq(idents, 1, Len(s.ident_names) + n), T(id).vals[n])>>]
                ELSE <<>>
    IN [s |-> [s EXCEPT !.ident_names = idents],
        out |-> Append(o.out, [what |-> what, id |-> id, name |-> <<T(id).name, s.dup[id]>>,
                               vals |-> vals])]

(* btf_dump_emit_type, over the pair o of the state and the output.          *)
Emitting(o, id, state) == [o EXCEPT !.s.emit[id] = state]
Forwarded(o, id) == [o EXCEPT !.s.fwd = @ \cup {id}]

Typedef(o, id) == IF T(id).name \in Builtins THEN o ELSE Written(o, "typedef", id)

EmitAgain(o, id, cont) ==
    CASE id \in o.s.fwd -> o
      [] id \notin o.s.fwd /\ Composite(id) ->
           IF id = cont \/ ~Named(id) THEN o ELSE Forwarded(Written(o, "fwd", id), id)
      [] id \notin o.s.fwd /\ T(id).kind = "typedef" -> Forwarded(Typedef(o, id), id)
      [] OTHER -> o

RECURSIVE Emit(_, _, _), EmitParts(_, _, _, _)
EmitParts(o, parts, n, cont) ==
    IF n > Len(parts) THEN o ELSE EmitParts(Emit(o, parts[n], cont), parts, n + 1, cont)

EmitTypedef(o, id) ==
    LET body == Emit(Emitting(o, id, "EMITTING"), T(id).type, id)
    IN Emitting(IF id \in body.s.fwd THEN body ELSE Typedef(body, id), id, "EMITTED")

(* A mutant: the types of members are not declared before the definition.    *)
EmitStructOnly(o, id, cont) ==
    IF cont = 0 THEN Emitting(Written(o, "def", id), id, "EMITTED") ELSE o

EmitStruct(o, id, cont) ==
    LET begun == Emitting(o, id, "EMITTING")
        before == CASE cont = 0 \/ ~Named(id) ->
                         EmitParts(begun, T(id).parts, 1, IF Named(id) THEN id ELSE cont)
                    [] OTHER ->
                         IF id \notin o.s.fwd /\ id # cont
                         THEN Forwarded(Written(begun, "fwd", id), id) ELSE begun
    IN IF cont = 0 THEN Emitting(Written(before, "def", id), id, "EMITTED")
       ELSE Emitting(before, id, "NOT_EMITTED")

EmitEnum(o, id, cont) ==
    Emitting(IF cont = 0 THEN Written(o, "def", id) ELSE o, id, "EMITTED")

Emit(o, id, cont) ==
    CASE o.s.emit[id] = "EMITTED" -> o
      [] o.s.emit[id] = "EMITTING" -> EmitAgain(o, id, cont)
      [] o.s.emit[id] = "NOT_EMITTED" ->
           CASE T(id).kind = "int" -> Emitting(o, id, "EMITTED")
             [] T(id).kind = "enum" -> EmitEnum(o, id, cont)
             [] T(id).kind \in Mods \cup {"ptr", "array"} -> Emit(o, T(id).type, cont)
             [] T(id).kind = "fwd" -> Emitting(Written(o, "fwd", id), id, "EMITTED")
             [] T(id).kind = "typedef" -> EmitTypedef(o, id)
             [] Composite(id) -> EmitStruct(o, id, cont)
             [] T(id).kind = "func_proto" ->
                  EmitParts(Emit(o, T(id).type, cont), T(id).parts, 1, cont)
             [] OTHER -> o

---------------------------------------------------------------------------
RECURSIVE EmitQueue(_, _, _)
EmitQueue(o, queue, n) ==
    IF n > Len(queue) THEN o ELSE EmitQueue(Emit(o, queue[n], 0), queue, n + 1)

btf_dump__dump_type(id) ==
    /\ Cardinality(asked) < MaxCalls /\ <<id, 0>> \notin asked
    /\ \E grow \in BOOLEAN :
         LET ordered == Order([d EXCEPT !.queue = <<>>, !.grow = grow], id, FALSE)
             o == EmitQueue([s |-> ordered.s, out |-> out], ordered.s.queue, 1)
         IN /\ grow \/ faults < MaxFaults
            /\ faults' = IF grow THEN faults ELSE faults + 1
            /\ ret' = IF ordered.r < 0 THEN ordered.r ELSE 0
            /\ asked' = asked \cup {<<id, ret'>>}
            /\ IF ordered.r < 0 THEN d' = ordered.s /\ UNCHANGED out
               ELSE d' = o.s /\ out' = o.out
    /\ UNCHANGED unit

Next == \E id \in 1..Len(unit) : btf_dump__dump_type(id)

---------------------------------------------------------------------------
TypeOK ==
    /\ faults \in 0..MaxFaults
    /\ DOMAIN d.order = Ids /\ Len(d.queue) <= d.cap
    /\ \A n \in DOMAIN out : out[n].id \in Ids \ {0}

(* The rules of C.  Uses(id, whole) is what a declarator of type id needs to *)
(* have been declared, or, for its size, completed.                          *)
RECURSIVE Uses(_, _)
Uses(id, whole) ==
    LET t == T(id)
        parts == {t.parts[p] : p \in DOMAIN t.parts}
    IN CASE t.kind = "ptr" -> Uses(t.type, FALSE)
         [] t.kind = "array" -> Uses(t.type, TRUE)
         [] t.kind \in Mods -> Uses(t.type, whole)
         [] t.kind = "typedef" ->
              {<<id, "declared">>} \cup
              (IF whole THEN {u \in Uses(t.type, TRUE) : u[2] = "completed"} ELSE {})
         [] t.kind = "enum" /\ Named(id) -> {<<id, "completed">>}
         [] Composite(id) /\ Named(id) -> {<<id, IF whole THEN "completed" ELSE "declared">>}
         [] Composite(id) /\ ~Named(id) -> UNION {Uses(p, TRUE) : p \in parts}
         [] t.kind = "fwd" -> {<<id, "declared">>}
         [] t.kind = "func_proto" -> Uses(t.type, FALSE) \cup UNION {Uses(p, FALSE) : p \in parts}
         [] OTHER -> {}

Needs(item) ==
    LET t == T(item.id)
    IN CASE item.what = "typedef" -> Uses(t.type, FALSE)
         [] item.what = "def" /\ Composite(item.id) ->
              UNION {Uses(t.parts[p], TRUE) : p \in DOMAIN t.parts} \ {<<item.id, "declared">>}
         [] OTHER -> {}

Given(n) ==
    UNION {{<<out[m].id, "declared">>,
            <<out[m].id, IF out[m].what = "def" THEN "completed" ELSE "declared">>} :
               m \in 1..(n - 1)}

(* Nothing is defined twice, and no two types or identifiers share a name.   *)
DefinedOnce ==
    \A m, n \in DOMAIN out : m # n =>
        /\ out[m].id = out[n].id => out[m].what # out[n].what
        /\ out[m].id # out[n].id /\ (out[m].what = "typedef") = (out[n].what = "typedef")
              => out[m].name # out[n].name \/ out[m].name[1] = ""
        /\ \A a \in DOMAIN out[m].vals, b \in DOMAIN out[n].vals : out[m].vals[a] # out[n].vals[b]
        /\ out[m].what = "typedef" =>
              \A b \in DOMAIN out[n].vals : out[m].name # out[n].vals[b]

(* A type that was asked for, and got, is written in full.                   *)
AskedWritten ==
    (\A a \in asked : a[2] = 0) =>
        \A a \in asked : Named(a[1]) /\ T(a[1]).kind \in {"struct", "union", "enum", "typedef"} =>
            \/ \E n \in DOMAIN out : out[n].id = a[1] /\ out[n].what \in {"def", "typedef"}
            \/ T(a[1]).name \in Builtins

(* Types that have an order in C at all: with every tag declared first, the  *)
(* remaining needs have no cycle.                                            *)
Hard(id) ==
    LET t == T(id)
        U == IF t.kind = "typedef" THEN Uses(t.type, FALSE)
             ELSE IF Composite(id) /\ Named(id)
                  THEN UNION {Uses(t.parts[p], TRUE) : p \in DOMAIN t.parts} ELSE {}
    IN {u[1] : u \in {x \in U : x[2] = "completed" \/ T(x[1]).kind = "typedef"}}

Orderable ==
    \A S \in SUBSET (1..Len(unit)) \ {{}} : \E id \in S : Hard(id) \cap S = {}

(* The output compiles as far as the calls succeeded: every declaration      *)
(* stands after the ones it needs.                                           *)
Compiles ==
    Orderable /\ (\A a \in asked : a[2] = 0) =>
        \A n \in DOMAIN out : Needs(out[n]) \subseteq Given(n)

(* Only a cycle that C does not allow is refused, as long as no call failed  *)
(* for want of memory: that one leaves types ORDERING.                       *)
RefusedRightly ==
    Orderable /\ (\A a \in asked : a[2] # ENOMEM) => \A a \in asked : a[2] # ELOOP

DumpRight == Compiles /\ DefinedOnce /\ AskedWritten /\ RefusedRightly
================================================================================
