------------------------------ MODULE BtfDumpText ------------------------------
(* btf_dump.c: the text of one declaration.  A chain of types becomes a C    *)
(* declarator, and the members of a struct get padding and, if needed, the   *)
(* packed attribute.  Both are compared with the rules of C: the declarator  *)
(* with its grammar, the struct with the layout a compiler gives the text.   *)
EXTENDS Integers, Sequences

CONSTANTS
    Chains,         \* chains of kinds, outermost first, ending in a base type
    Structs         \* sources of structs: [packed, members]

VARIABLES
    type,           \* the type to declare, a chain
    chain,          \* decl_stack of btf_dump_emit_type_decl
    tokens,         \* what has been written of the declarator
    close,          \* what remains to be written when the recursion returns
    source,         \* the struct as it was compiled into the BTF
    m,              \* the member btf_dump_emit_struct_def is at
    text            \* the members written so far, padding included

textvars == <<type, chain, tokens, close, source, m, text>>

---------------------------------------------------------------------------
(* Declarators.  Blanks are left out, a name is "name", parameters are "()". *)
Mods == {"const", "volatile"}

RECURSIVE Stripped(_)
Stripped(c) == IF c # <<>> /\ c[Len(c)] \in Mods THEN Stripped(SubSeq(c, 1, Len(c) - 1)) ELSE c

(* btf_dump_emit_mods: the modifiers on top, in the order they are popped.   *)
Popped(c) == LET n == Len(c) - Len(Stripped(c)) IN [j \in 1..n |-> c[Len(c) + 1 - j]]

Top == chain[Len(chain)]
Below == SubSeq(chain, 1, Len(chain) - 1)

(* A mutant: no parentheses around the declarator of an array's pointer.     *)
ParenthesesNever(next) == FALSE

(* btf_dump_emit_type_chain puts them around all but another dimension.      *)
Parentheses(next) == next # "array"

(* One round of btf_dump_emit_type_chain, which begins with the base type.   *)
EmitBase ==
    /\ chain # <<>> /\ Top = "base"
    /\ tokens' = tokens \o Popped(Below) \o <<"base">>
    /\ chain' = Stripped(Below)
    /\ UNCHANGED <<type, close, source, m, text>>

EmitPtrOrMod ==
    /\ chain # <<>> /\ Top \in Mods \cup {"ptr"}
    /\ tokens' = Append(tokens, IF Top = "ptr" THEN "*" ELSE Top)
    /\ chain' = Below
    /\ UNCHANGED <<type, close, source, m, text>>

EmitArray ==
    /\ chain # <<>> /\ Top = "array"
    /\ LET rest == Stripped(Below)
           open == rest # <<>> /\ Parentheses(rest[Len(rest)])
       IN /\ chain' = rest
          /\ tokens' = IF open THEN Append(tokens, "(") ELSE tokens
          /\ close' = (IF open THEN <<")">> ELSE <<>>) \o <<"[]">> \o close
    /\ UNCHANGED <<type, source, m, text>>

EmitProto ==
    /\ chain # <<>> /\ Top = "func_proto"
    /\ LET rest == Stripped(Below)
           mods == tokens \o Popped(Below)
       IN /\ chain' = rest
          /\ tokens' = IF rest = <<>> THEN mods ELSE Append(mods, "(")
          /\ close' = (IF rest = <<>> THEN <<>> ELSE <<")">>) \o <<"()">> \o close
    /\ UNCHANGED <<type, source, m, text>>

(* btf_dump_emit_name, and the ends of the calls that are open.              *)
EmitName ==
    /\ chain = <<>> /\ tokens # <<>>
    /\ tokens[Len(tokens)] # "name" /\ close # <<"done">>
    /\ tokens' = tokens \o <<"name">> \o close
    /\ close' = <<"done">>
    /\ UNCHANGED <<type, chain, source, m, text>>

(* The declarator C prescribes, from the outermost type inwards: d is what   *)
(* stands for the object so far, q the qualifiers of the type at hand.  Those*)
(* of an array are left out, as the code says it does.                       *)
Wrapped(dcl) == IF dcl[1] = "*" THEN <<"(">> \o dcl \o <<")">> ELSE dcl

RECURSIVE Declared(_, _, _)
Declared(c, q, dcl) ==
    LET rest == Tail(c)
    IN CASE c[1] \in Mods -> Declared(rest, <<c[1]>> \o q, dcl)
         [] c[1] = "ptr" -> Declared(rest, <<>>, <<"*">> \o q \o dcl)
         [] c[1] = "array" -> Declared(rest, <<>>, Wrapped(dcl) \o <<"[]">>)
         [] c[1] = "func_proto" -> Declared(rest, <<>>, Wrapped(dcl) \o <<"()">>)
         [] c[1] = "base" -> q \o <<"base">> \o dcl

---------------------------------------------------------------------------
(* Layout, in bits.  A member is [bytes, bits, named]; bits 0 is no bitfield.*)
RoundUp(n, k) == ((n + k - 1) \div k) * k
Max2(a, b) == IF a >= b THEN a ELSE b

(* What a compiler does: where member x goes when cur bits are taken.        *)
Placed(x, cur, packed) ==
    LET unit == 8 * x.bytes
    IN IF x.bits = 0 THEN RoundUp(cur, IF packed THEN 8 ELSE unit)
       ELSE IF ~packed /\ cur \div unit # (cur + x.bits - 1) \div unit THEN RoundUp(cur, unit)
       ELSE cur

Width(x) == IF x.bits = 0 THEN 8 * x.bytes ELSE x.bits

(* Offsets of the members and, last, the end.                                *)
Layout(xs, packed) ==
    LET f[k \in 0..Len(xs)] ==
          IF k = 0 THEN <<>>
          ELSE LET cur == IF k = 1 THEN 0 ELSE f[k - 1][k - 1] + Width(xs[k - 1])
               IN Append(f[k - 1], Placed(xs[k], cur, packed))
    IN f[Len(xs)]

AlignOf(xs, packed) ==
    LET named == {xs[k].bytes : k \in {j \in DOMAIN xs : xs[j].named}}
    IN IF packed \/ named = {} THEN 1 ELSE CHOOSE a \in named : \A b \in named : b <= a

SizeOf(xs, packed) ==
    IF xs = <<>> THEN 0
    ELSE RoundUp(Layout(xs, packed)[Len(xs)] + Width(xs[Len(xs)]), 8 * AlignOf(xs, packed))

(* The BTF describes the named members, their offsets and the size.          *)
NamedOnes(xs) == SelectSeq(xs, LAMBDA x : x.named)

Offsets(xs, packed) ==
    LET at == Layout(xs, packed)
        f[k \in 0..Len(xs)] == IF k = 0 THEN <<>>
                               ELSE IF xs[k].named THEN Append(f[k - 1], at[k]) ELSE f[k - 1]
    IN f[Len(xs)]

Members == NamedOnes(source.members)
Offset == Offsets(source.members, source.packed)
Size == SizeOf(source.members, source.packed)

(* btf_is_struct_packed.                                                     *)
btf_is_struct_packed ==
    \/ Size % (8 * AlignOf(Members, FALSE)) # 0
    \/ \E k \in DOMAIN Members :
         Members[k].bits = 0 /\ Offset[k] % (8 * Members[k].bytes) # 0

(* btf_dump_emit_bit_padding.                                                *)
(* A mutant: always a whole unit.                                            *)
chip_away_whole(total, at_most) == at_most

chip_away_bits(total, at_most) == IF total % at_most # 0 THEN total % at_most ELSE at_most

Pad(diff) ==
    LET bytes == CASE diff > 32 -> 8 [] diff > 16 /\ diff <= 32 -> 4
                   [] diff > 8 /\ diff <= 16 -> 2 [] OTHER -> 1
    IN [bytes |-> bytes, bits |-> chip_away_bits(diff, 8 * bytes), named |-> FALSE]

Natural(diff, bits, align) == bits = 0 /\ diff < 8 * align

RECURSIVE Padding(_)
Padding(diff) == IF diff <= 0 THEN <<>> ELSE <<Pad(diff)>> \o Padding(diff - Pad(diff).bits)

Gap(from, to, bits, align) ==
    IF to <= from \/ Natural(to - from, bits, align) THEN <<>> ELSE Padding(to - from)

End(k) == IF k = 0 THEN 0 ELSE Offset[k] + Width(Members[k])

(* One member of btf_dump_emit_struct_def, or the padding at the end.        *)
EmitMember ==
    /\ m <= Len(Members)
    /\ LET align == IF btf_is_struct_packed THEN 1 ELSE Members[m].bytes
       IN text' = text \o Gap(End(m - 1), Offset[m], Members[m].bits, align) \o <<Members[m]>>
    /\ m' = m + 1
    /\ UNCHANGED <<type, chain, tokens, close, source>>

EmitEnd ==
    /\ m = Len(Members) + 1
    /\ LET align == IF btf_is_struct_packed THEN 1 ELSE AlignOf(Members, FALSE)
       IN text' = text \o Gap(End(Len(Members)), Size, 0, align)
    /\ m' = m + 1
    /\ UNCHANGED <<type, chain, tokens, close, source>>

Init ==
    /\ \/ type \in Chains /\ chain = type
          /\ source = [packed |-> FALSE, members |-> <<>>]
       \/ type = <<>> /\ chain = type /\ source \in Structs
    /\ tokens = <<>> /\ close = <<>> /\ m = 1 /\ text = <<>>

Next ==
    \/ EmitBase \/ EmitPtrOrMod \/ EmitArray \/ EmitProto \/ EmitName
    \/ EmitMember \/ EmitEnd

---------------------------------------------------------------------------
TypeOK == m \in 1..(Len(Members) + 2)

(* The declarator is the one C prescribes for the type.                      *)
DeclaratorRight ==
    close = <<"done">> => tokens = Declared(type, <<>>, <<"name">>)

(* A compiler gives the dumped struct the layout of the one it came from.    *)
LayoutKept ==
    m = Len(Members) + 2 =>
        /\ Offsets(text, btf_is_struct_packed) = Offset
        /\ SizeOf(text, btf_is_struct_packed) = Size

TextRight == DeclaratorRight /\ LayoutKept
================================================================================
