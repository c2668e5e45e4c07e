----------------------------- MODULE MCLibbpf -----------------------------
(* What libbpf does with an object file until the kernel has its programs    *)
(* and types: one instance per module.  They share nothing here, so a         *)
(* behaviour is one of the module `part` names; the variables of the others  *)
(* are None.  First come the object files, kernels and configurations that   *)
(* are opened, relocated and loaded, and the type graphs, relocations and    *)
(* line tables that are parsed, deduplicated, written as C and matched       *)
(* against a kernel: a few shapes of each, with the malformed ones the code  *)
(* refuses.                                                                  *)
EXTENDS Integers, Sequences, FiniteSets, TLC

CONSTANTS
    None, Garbage,
    \* HashMap
    key1, key2, key3, val1, val2

-----------------------------------------------------------------------------
(* ElfObject: three object files with maps described in BTF, with the        *)
(* symbols of a maps section and data sections, and with odd sections.       *)
Data(name, type, size) == [name |-> name, type |-> type, size |-> size, exec |-> FALSE]
Text(name, size) == [name |-> name, type |-> "progbits", size |-> size, exec |-> TRUE]
ElfSymbol(name, sec, value, global) ==
    [name |-> name, shndx |-> sec, value |-> value, global |-> global]
BtfType(kind, refs, linkage) == [kind |-> kind, refs |-> refs, linkage |-> linkage]
BtfOfFile ==
    <<BtfType("int", <<>>, ""), BtfType("var", <<1>>, ""), BtfType("datasec", <<2>>, ""),
      BtfType("func_proto", <<1>>, ""), BtfType("func", <<4>>, "global"),
      BtfType("ptr", <<4>>, ""), BtfType("func", <<4>>, "static")>>

Field(f, v) == [field |-> f, val |-> v]
InnerMap == <<Field("type", 1), Field("key", 4), Field("value", 8)>>
Fields ==
    {<<a, b, c>> : a \in {Field("type", 1), Field("type", 12), Field("odd", 0)},
                   b \in {Field("key_size", 4), Field("key_size", 8), Field("type", 12),
                          Field("type", None)},
                   c \in {Field("values", InnerMap), Field("values", <<Field("key", 4)>>),
                          Field("values", <<Field("values", InnerMap)>>),
                          Field("pinning", 1), Field("pinning", 2), Field("key", 4)}}
FieldLists == {q \in Fields : \A i, j \in 1..3 : i # j => q[i].field # q[j].field}
MapVar(name, off, members) ==
    [name |-> name, off |-> off, size |-> 8, def_size |-> 8, linkage |-> "global",
     members |-> members]

Plain == <<Text(".text", 16), Text("kprobe", 8), Data("symtab", "symtab", 1)>>
Btf == <<Data(".BTF", "progbits", 9), Data(".BTF.ext", "progbits", 9)>>
ProgSymbols == <<ElfSymbol("loc", 1, 0, FALSE), ElfSymbol("kp", 2, 0, TRUE),
                 ElfSymbol("kp2", 2, 8, TRUE)>>
ElfFile(secs, syms, mapsec, vars, externs, btf_ok, ext_ok, data_ok) ==
    [secs |-> secs, syms |-> syms, mapsec |-> mapsec, vars |-> vars, externs |-> externs,
     btf_ok |-> btf_ok, ext_ok |-> ext_ok, data_ok |-> data_ok, types |-> BtfOfFile]

WithBtfMaps ==
    {ElfFile(Plain \o <<Data(".maps", "progbits", 16)>> \o Btf, ProgSymbols, <<>>,
             <<MapVar("m", 0, q), MapVar("k", 8, <<Field("type", 2), Field("key", 4)>>)>>,
             0, TRUE, TRUE, TRUE) : q \in FieldLists}
WithMaps ==
    {ElfFile(Plain \o <<Data("maps", "progbits", size), Data(".data", "progbits", 8),
                        Data(".rodata", "progbits", ro), Data(".bss", "nobits", 8)>> \o secs,
             ProgSymbols \o <<ElfSymbol("a", 4, 0, TRUE), ElfSymbol("b", 4, 4, TRUE)>>,
             <<1, 2, 3, 4, 5, beyond, 7, 8>>, <<>>, ex, btf_ok, ext_ok, data_ok) :
        size \in {7, 8}, ro \in {0, 8}, beyond \in {0, 6}, ex \in {0, 1},
        secs \in {Btf, <<Data(".BTF", "progbits", 9), Data(".struct_ops", "progbits", 8)>>,
                  <<Data(".struct_ops", "progbits", 8)>>},
        btf_ok \in BOOLEAN, ext_ok \in BOOLEAN, data_ok \in BOOLEAN}
OddSections ==
    {<<Text(".text", 16)>>,
     <<Text(".text", 16), Text("kprobe", 7), Data("symtab", "symtab", 1)>>}
    \cup {Plain \o q : q \in
        {<<>>, <<Data("symtab", "symtab", 1)>>,
         <<Data("version", "progbits", 4), Data("license", "progbits", 3)>>,
         <<Data("version", "progbits", 5)>>, <<Data("maps", "progbits", 8)>>,
         <<Data(".data", "progbits", 8), Data(".data", "progbits", 8)>>,
         <<Data(".maps", "progbits", 8), Data(".BTF", "progbits", 9)>>}}
ElfFiles ==
    WithBtfMaps \cup WithMaps
    \cup {ElfFile(s, y, <<>>, <<>>, 0, TRUE, TRUE, TRUE) :
            s \in OddSections, y \in {ProgSymbols, <<>>}}
BtfCaps == {{}, {"func"}, {"datasec", "func"}, {"datasec", "func", "func_global"}}

-----------------------------------------------------------------------------
(* Externs: variables of every kind of type, symbol tables that name them    *)
(* in another order, weak and not, and configurations of up to three lines.  *)
ExtType(kind, size, align) ==
    [kind |-> kind, size |-> size, align |-> align, bool |-> FALSE, signed |-> FALSE,
     tristate |-> FALSE, elem |-> IF kind = "array" THEN "c" ELSE ""]
ExtTypes ==
    [b |-> [ExtType("int", 1, 1) EXCEPT !.bool = TRUE],
     c |-> [ExtType("int", 1, 1) EXCEPT !.signed = TRUE],
     h |-> [ExtType("int", 2, 2) EXCEPT !.signed = TRUE],
     u |-> ExtType("int", 2, 2), w |-> ExtType("int", 4, 4),
     t |-> [ExtType("enum", 4, 4) EXCEPT !.tristate = TRUE],
     s |-> ExtType("array", 3, 1), z |-> ExtType("array", 0, 1),
     p |-> ExtType("struct", 4, 4)]
ExtVar(t) == [type |-> t, extern |-> TRUE]
ExtVars ==
    {[A |-> ExtVar(a), B |-> ExtVar(b), V |-> ExtVar("w")] :
        a \in {"b", "s", "z"}, b \in {"h", "c"}}
    \cup {[A |-> ExtVar(a), B |-> ExtVar("w")] : a \in DOMAIN ExtTypes}
    \cup {[A |-> ExtVar("c"), B |-> [type |-> "w", extern |-> FALSE]],
          [A |-> ExtVar("s"), O |-> ExtVar("c")]}
ExtSymbol(name, weak) == [name |-> name, weak |-> weak]
ExtSymbols ==
    {<<ExtSymbol("A", a), ExtSymbol("B", b), ExtSymbol("V", FALSE)>> :
        a \in BOOLEAN, b \in BOOLEAN}
    \cup {<<>>, <<ExtSymbol("A", FALSE)>>,
          <<ExtSymbol("O", FALSE), ExtSymbol("A", TRUE)>>,
          <<ExtSymbol("B", TRUE), ExtSymbol("A", FALSE)>>}
ExtKind == [A |-> "config", B |-> "config", V |-> "version", O |-> "other"]
ExtRank == [A |-> 1, B |-> 2, V |-> 3, O |-> 4]
Num(name, v) == [name |-> name, kind |-> "num", value |-> v, ok |-> TRUE]
Tri(name, letter) == [name |-> name, kind |-> "tri", letter |-> letter]
Str(name, text) == [name |-> name, kind |-> "str", text |-> text, ok |-> TRUE]
KconfigTexts ==
    {<<>>, <<Num("A", 9), Tri("B", "y")>>, <<Num("B", 255)>>,
     <<Str("A", <<1, 2, 3>>), Num("A", 1), Num("B", 250)>>,
     <<Tri("B", "m"), Num("V", 3), Tri("A", "n")>>,
     <<[name |-> "O", kind |-> "none"], Str("A", <<2>>)>>,
     <<[Num("B", 7) EXCEPT !.ok = FALSE]>>}

-----------------------------------------------------------------------------
(* StructOps: local types and kernels whose members are in another order, of *)
(* another size or kind, or missing, and relocations of the programs.        *)
Member(name, kind, off, size) == [name |-> name, kind |-> kind, off |-> off, size |-> size]
LocalType(name, struct, size, members) ==
    [name |-> name, struct |-> struct, size |-> size, members |-> members]
LocalTypes ==
    <<LocalType("ops", TRUE, 3, <<Member("f", "func", 0, 1), Member("d", "data", 1, 1),
                                  Member("g", "func", 2, 1)>>),
      LocalType("ops", TRUE, 2, <<Member("g", "func", 0, 1), Member("f", "func", 1, 1)>>),
      LocalType("cc", TRUE, 2, <<Member("f", "func", 0, 1), Member("x", "data", 1, 1)>>),
      LocalType("", TRUE, 1, <<Member("f", "func", 0, 1)>>),
      LocalType("u", FALSE, 1, <<>>),
      LocalType("new", TRUE, 1, <<Member("f", "func", 0, 1)>>)>>
OpsMembers ==
    {<<Member("d", "data", 0, 1), Member("r", "data", 1, 1), Member("g", "func", 2, 1),
       Member("f", "func", 3, 1)>>,
     <<Member("f", "func", 0, 1), Member("g", "func", 1, 1), Member("d", "data", 2, 2)>>,
     <<Member("f", "func", 0, 1), Member("d", "data", 1, 1)>>,
     <<Member("f", "func", 0, 1), Member("d", "bitfield", 1, 1), Member("g", "func", 2, 1)>>,
     <<Member("f", "func", 0, 1), Member("d", "data", 1, 1), Member("g", "data", 2, 1)>>}
KernelOps(members, id, size, off) ==
    [type |-> [members |-> members], id |-> id, vsize |-> size, doff |-> off]
OpsKernels ==
    {[ops |-> KernelOps(m, 7, 6, off),
      cc |-> KernelOps(<<Member("h", "func", 0, 1), Member("x", "data", 1, 1),
                         Member("f", "func", 2, 1)>>, 9, 5, 2)] :
        m \in OpsMembers, off \in {1, 2}}
OpsVar(type, off) == [type |-> type, off |-> off]
OpsVars ==
    {<<OpsVar(1, 0), OpsVar(3, 3)>>, <<OpsVar(1, 0), OpsVar(2, 3)>>,
     <<OpsVar(1, 1), OpsVar(1, 4)>>, <<OpsVar(2, 0)>>, <<OpsVar(4, 0)>>, <<OpsVar(5, 0)>>,
     <<OpsVar(6, 0)>>, <<OpsVar(1, 0), OpsVar(3, 6)>>}
OpsReloc(off, prog) == [off |-> off, prog |-> prog]
OpsRelocs ==
    {<<OpsReloc(0, p), OpsReloc(b, q), OpsReloc(c, p)>> :
        b \in {1, 2, 3}, c \in {3, 4}, p \in {1, 2}, q \in {2, 3}}
    \cup {<<>>, <<OpsReloc(0, None)>>, <<OpsReloc(9, 1)>>, <<OpsReloc(0, 4)>>,
          <<OpsReloc(0, 1), OpsReloc(2, 2)>>, <<OpsReloc(0, 1), OpsReloc(0, 2)>>}
OpsSecType == <<None, "struct_ops", None, "kprobe">>

-----------------------------------------------------------------------------
(* ProgramLoad: programs that load, are refused, need an attach target or    *)
(* have several instances, and kernels that know less or more.               *)
Xdp == [type |-> "xdp", storage |-> FALSE, verdict |-> "ok", kprobe |-> FALSE,
        target |-> "none", instances |-> <<"load">>, exp |-> TRUE, optional |-> TRUE,
        finfo |-> "short", linfo |-> "short", insns |-> 9, log |-> 1]
Singles ==
    {[Xdp EXCEPT !.finfo = f, !.log = g, !.verdict = v, !.kprobe = k, !.optional = o] :
        f \in {"short", "long"}, g \in {1, 3, 9}, v \in {"ok", "rejected"},
        k \in BOOLEAN, o \in BOOLEAN}
    \cup {[Xdp EXCEPT !.linfo = "long"]}
    \cup {[Xdp EXCEPT !.insns = s, !.finfo = f, !.verdict = v] :
            s \in {4096, 4097}, f \in {"short", "long"}, v \in {"ok", "rejected"}}
Firsts ==
    {[Xdp EXCEPT !.storage = TRUE], [Xdp EXCEPT !.type = "kprobe", !.exp = FALSE],
     [Xdp EXCEPT !.type = "kprobe", !.verdict = "rejected"],
     [Xdp EXCEPT !.target = "absent"], [Xdp EXCEPT !.instances = <<"load", "skip", "load">>],
     [Xdp EXCEPT !.instances = <<"load", "fails">>]}
ProgramSets == {<<p>> : p \in Singles} \cup {<<p, Xdp>> : p \in Firsts}
LoadFeatures == {"name", "exp_attach_type"}
LoadKernels ==
    {[has |-> h, long_finfo |-> f, long_linfo |-> TRUE, log_max |-> 4] :
        h \in {{}, {"basic"}, {"basic"} \cup LoadFeatures}, f \in BOOLEAN}
    \cup {[has |-> {"basic", "name"}, long_finfo |-> TRUE, long_linfo |-> FALSE,
           log_max |-> 4]}

-----------------------------------------------------------------------------
\* No set of types refers only to itself.
Grounded(ids, Refs(_)) == \A S \in SUBSET ids \ {{}} : \E i \in S : Refs(i) \cap S = {}

-----------------------------------------------------------------------------
(* BtfTypes: an int, an inner and an outer type and a third; data sections   *)
(* whose sizes and offsets are known only from the ELF file; bad headers.    *)
RawType(kind, name, size, type, nelems, parts) ==
    [kind |-> kind, name |-> name, size |-> size, type |-> type, nelems |-> nelems,
     parts |-> parts]
Part(type, off) == [type |-> type, offset |-> off]
IntA == RawType("int", "a", 4, 0, 0, <<>>)
RawInner ==
    {RawType("ptr", "", 0, 1, 0, <<>>), RawType("array", "", 0, 1, 5, <<>>),
     RawType("struct", "s", 8, 0, 0, <<Part(1, 0), Part(2, 4)>>),
     RawType("fwd", "f", 0, 0, 0, <<>>), RawType("const", "", 0, 0, 0, <<>>)}
RawOuter ==
    {RawType("array", "", 0, 4, 7, <<>>), RawType("array", "", 0, 3, 0, <<>>),
     RawType("typedef", "u", 0, 2, 0, <<>>), RawType("var", "g", 0, 2, 1, <<>>),
     RawType("struct", "m", 16, 0, 0, <<Part(1, 0), Part(2, 4), Part(3, 8)>>)}
RawData ==
    {RawType("datasec", name, size, 0, 0, <<Part(3, 4), Part(4, 0)>>) :
        name \in {".data", ".bss"}, size \in {0, 8}}
RawHolds(q, i) ==
    CASE q[i].kind \in {"typedef", "array", "const", "var"} -> {q[i].type}
      [] q[i].kind = "struct" -> {q[i].parts[k].type : k \in DOMAIN q[i].parts}
      [] OTHER -> {}
RawChains == {<<IntA, i, j, k>> : i \in RawInner, j \in RawInner \cup RawOuter, k \in RawOuter}
RawSections ==
    {<<IntA, RawType("int", "b", 4, 0, 0, <<>>), RawType("var", "g", 0, 1, linkage, <<>>),
       RawType("var", name, 0, 2, 1, <<>>), d>> :
        d \in RawData, linkage \in 0..1, name \in {"h", "x"}}
RawLists ==
    RawSections \cup {q \in RawChains : Grounded(1..4, LAMBDA i : RawHolds(q, i))}
RawLength(q) ==
    LET Extra(t) == CASE t.kind \in {"int", "var"} -> 4
                      [] t.kind = "array" -> 12
                      [] t.kind \in {"struct", "datasec"} -> 12 * Len(t.parts)
                      [] OTHER -> 0
        f[i \in 0..Len(q)] == IF i = 0 THEN 0 ELSE f[i - 1] + 12 + Extra(q[i])
    IN f[Len(q)]
RawFile(header, str_ok, length, types) ==
    [header |-> header, str_ok |-> str_ok, length |-> length, types |-> types]
BtfFiles ==
    {RawFile("good", TRUE, 96, [i \in 1..6 |-> IntA])}
    \cup {RawFile("good", TRUE, RawLength(q) + over, q) : q \in RawLists, over \in {0, 12}}
    \cup {RawFile(h, ok, 12, <<IntA>>) :
            h \in {"good", "magic", "version", "flags"}, ok \in BOOLEAN}
ElfSections == ".data" :> 8
ElfVariables == "g" :> 4 @@ "h" :> 0

-----------------------------------------------------------------------------
(* BtfDedup: units of three types that hold a struct or its forward          *)
(* declaration, an enum or its declaration, and equal types.                 *)
UnitStrings == 0 :> 0 @@ 1 :> 1 @@ 2 :> 2 @@ 3 :> 1 @@ 4 :> 3
UnitType(kind, name, info, refs) == [kind |-> kind, name |-> name, info |-> info, refs |-> refs]
UnitInts == {UnitType("int", name, <<"32">>, <<>>) : name \in {1, 3}}
UnitTypes ==
    UnitInts
    \cup {UnitType("fwd", 2, <<"struct">>, <<>>)}
    \cup {UnitType("enum", 4, members, <<>>) : members \in {<<>>, <<"a">>}}
    \cup {UnitType("ptr", 0, <<>>, <<i>>) : i \in 0..3}
    \cup {UnitType("struct", 2, <<"f">>, <<i>>) : i \in 1..3}
    \cup {UnitType("struct", 2, <<"f">>, <<i, j>>) : i \in 1..3, j \in 1..3}
UnitOrders ==
    {<<"int", "ptr", "struct">>, <<"ptr", "struct", "int">>, <<"ptr", "fwd", "enum">>,
     <<"fwd", "ptr", "int">>}
UnitKind(u, i) == IF i = 0 THEN "void" ELSE u[i].kind
Distinct(u) ==
    \A i, j \in 1..3 : i # j =>
        <<u[i].kind, UnitStrings[u[i].name], u[i].info, u[i].refs>>
            # <<u[j].kind, UnitStrings[u[j].name], u[j].info, u[j].refs>>
UnitSound(u) ==
    \A i \in 1..3 : \A k \in DOMAIN u[i].refs :
        /\ u[i].kind = "struct" => u[i].refs[k] # i /\ UnitKind(u, u[i].refs[k]) # "fwd"
        /\ u[i].kind = "ptr" => UnitKind(u, u[i].refs[k]) # "ptr"
DedupUnits ==
    {u \in [1..3 -> UnitTypes] :
        /\ [k \in 1..3 |-> u[k].kind] \in UnitOrders
        /\ u[1].kind = "int" => u[1].name = 1
        /\ u[3].kind = "int" => u[3].name = 3
        /\ Distinct(u) /\ UnitSound(u)}

-----------------------------------------------------------------------------
(* BtfDump: an int and three types, without what no compiler emits: a        *)
(* forward declaration or a prototype held by value, an anonymous type that  *)
(* several types hold, a type that holds itself.                             *)
CType(kind, name, type, parts, vals) ==
    [kind |-> kind, name |-> name, type |-> type, parts |-> parts, vals |-> vals]
CTypes ==
    {CType(kind, "", t, <<>>, <<>>) : kind \in {"ptr", "array"}, t \in 2..4}
    \cup {CType("typedef", "t", t, <<>>, <<>>) : t \in 1..4}
    \cup {CType("struct", name, 0, p, <<>>) :
            name \in {"", "a"}, p \in {<<1>>, <<2>>, <<4>>, <<2, 3>>, <<3, 4>>}}
    \cup {CType("enum", name, 0, <<>>, <<"t">>) : name \in {"", "a"}}
    \cup {CType("fwd", "a", 0, <<>>, <<>>)}
    \cup {CType("func_proto", "", 0, <<t>>, <<>>) : t \in 2..4}
CRefs(t) ==
    (IF t.kind \in {"ptr", "typedef", "array"} THEN {t.type} ELSE {})
    \cup {t.parts[p] : p \in DOMAIN t.parts}
Compilable(u) ==
    /\ \A i, j \in 1..4 :
        u[i].kind \in {"func_proto", "fwd"} /\ i \in CRefs(u[j]) => u[j].kind = "ptr"
    /\ \A i \in 1..4 :
        u[i].kind \in {"struct", "enum"} /\ u[i].name = ""
            => Cardinality({j \in 1..4 : i \in CRefs(u[j])}) <= 1
    /\ \A S \in SUBSET (2..4) \ {{}} : \E i \in S :
        CRefs(u[i]) \cap S = {} \/ (u[i].kind = "struct" /\ u[i].name # "")
DumpUnits ==
    {u \in {<<CType("int", "i", 0, <<>>, <<>>), a, b, c>> :
                a \in {t \in CTypes : t.kind \in {"ptr", "struct"}},
                b \in {t \in CTypes : t.kind # "array"},
                c \in {t \in CTypes : t.kind \notin {"enum", "typedef"}}} :
        Compilable(u)}

-----------------------------------------------------------------------------
(* BtfDumpText: declarators a C compiler accepts, and structs of up to three *)
(* members, with bitfields when they are not packed.                         *)
Derived == {"ptr", "const", "volatile", "array", "func_proto"}
Neighbours(c) == {<<c[i], c[i + 1]>> : i \in 1..(Len(c) - 1)}
Declarator(c) ==
    /\ Neighbours(SelectSeq(c, LAMBDA x : x \notin {"const", "volatile"}))
        \cap {<<"func_proto", "array">>, <<"func_proto", "func_proto">>,
              <<"array", "func_proto">>} = {}
    /\ Neighbours(c) \cap {<<"const", "func_proto">>, <<"volatile", "func_proto">>,
                           <<"const", "const">>, <<"volatile", "volatile">>} = {}
Declarators ==
    {c \o <<"base">> : c \in {x \in UNION {[1..n -> Derived] : n \in 0..4} : Declarator(x)}}
CMember(bytes, bits) == [bytes |-> bytes, bits |-> bits, named |-> TRUE]
CMembers ==
    {CMember(bytes, 0) : bytes \in {1, 2, 4, 8}}
    \cup {CMember(4, 3), CMember(4, 20), CMember(1, 5), CMember(8, 40)}
CMemberLists == UNION {[1..n -> CMembers] : n \in 1..3}
CStructs ==
    {[packed |-> FALSE, members |-> q] : q \in CMemberLists}
    \cup {[packed |-> TRUE, members |-> q] :
            q \in {x \in CMemberLists : \A k \in DOMAIN x : x[k].bits = 0}}

-----------------------------------------------------------------------------
(* ProgramReloc: two programs and .text, calls into it, an inner map, and    *)
(* tables of functions and lines that cover them, stop short or are refused. *)
Insn(op, imm) == [op |-> op, imm |-> imm]
ElfRel(n, sec, value) == [insn_idx |-> n, sym |-> [sec |-> sec, value |-> value]]
Slot(off, map) == [offset |-> off, target |-> map]
RelocCode ==
    "xdp" :> <<Insn("ld64", 0), Insn("x", 0), Insn("call", -1), Insn("call", 2), Insn("exit", 0)>>
    @@ "tc" :> <<Insn("ld64", 4), Insn("x", 0), Insn("call", -1), Insn("exit", 0)>>
    @@ ".text" :> <<Insn("ld64", 0), Insn("x", 0), Insn("exit", 0), Insn("call", -1),
                    Insn("exit", 0)>>
RelocMap(sec, off, size, values, of_maps) ==
    [sec |-> sec, off |-> off, size |-> size, values |-> values, of_maps |-> of_maps]
RelocMaps ==
    <<RelocMap(".maps", 0, 24, 0, FALSE), RelocMap(".maps", 24, 40, 16, TRUE),
      RelocMap(".bss", 0, 8, 0, FALSE), RelocMap("extern", 0, 8, 0, FALSE)>>
XdpRels ==
    {<<ElfRel(0, ".maps", 24), ElfRel(2, ".text", c), ElfRel(3, ".text", 0)>> : c \in {0, 3}}
    \cup {<<ElfRel(0, "extern", 8), ElfRel(3, ".text", 0)>>, <<ElfRel(0, ".maps", 8)>>,
          <<ElfRel(2, "tc", 0)>>, <<ElfRel(4, ".maps", 0)>>}
TextRels == {<<ElfRel(0, ".maps", 0), ElfRel(3, ".text", 0)>>, <<ElfRel(0, ".bss", 0)>>}
InnerSlots ==
    {<<Slot(48, 1)>>, <<Slot(56, 1), Slot(40, 3)>>, <<Slot(40, 9)>>, <<Slot(0, 1)>>,
     <<Slot(44, 1)>>}
RelSections ==
    {<<[sec |-> "xdp", list |-> x], [sec |-> ".text", list |-> t], [sec |-> ".maps", list |-> m],
       [sec |-> "tc", list |-> <<ElfRel(0, ".bss", 8), ElfRel(2, ".text", 3)>>]>> :
        x \in XdpRels, t \in TextRels, m \in InnerSlots}
InfoBlock(sec, offs) == [sec |-> sec, offs |-> offs]
FuncBlocks ==
    {<<InfoBlock("xdp", <<0, 3>>), InfoBlock("tc", <<0>>), InfoBlock(".text", <<0, 3>>)>>,
     <<InfoBlock(".text", <<0>>), InfoBlock("tc", <<0, 1>>), InfoBlock("xdp", <<0>>)>>,
     <<InfoBlock("xdp", <<0>>)>>, <<InfoBlock(".text", <<0>>)>>}
LineBlocks ==
    <<InfoBlock("xdp", <<0, 1, 3>>), InfoBlock("tc", <<0>>), InfoBlock(".text", <<0, 3>>)>>
BlocksLength(blocks) ==
    LET f[i \in 0..Len(blocks)] ==
            IF i = 0 THEN 0 ELSE f[i - 1] + 8 + 8 * Len(blocks[i].offs)
    IN f[Len(blocks)]
InfoArea(blocks, len) == [len |-> len, min |-> 8, rec_size |-> 8, blocks |-> blocks]
Areas ==
    {[func |-> InfoArea(f, BlocksLength(f)), line |-> InfoArea(l, len)] :
        f \in FuncBlocks, l \in {LineBlocks, <<InfoBlock("xdp", <<0, 3>>)>>},
        len \in {0, 24, 32, BlocksLength(LineBlocks)}}
RelocObjects ==
    {[progs |-> order, text |-> ".text", code |-> RelocCode, maps |-> RelocMaps, rels |-> r,
      areas |-> a] :
        order \in {<<"xdp", ".text", "tc">>, <<".text", "tc", "xdp">>}, r \in RelSections,
        a \in Areas}
RelocKept ==
    {o \in RelocObjects :
        \/ o.areas.line.len = 24 /\ Len(o.areas.func.blocks) = 1
        \/ /\ o.rels[3].list = <<Slot(56, 1), Slot(40, 3)>>
           /\ Len(o.rels[1].list) = 3}

-----------------------------------------------------------------------------
(* CoreReloc: struct s of the program and kernels whose s or s___2 has       *)
(* members moved, widened, made bitfields, put into an anonymous struct, or  *)
(* left out.                                                                 *)
CoreType(kind, name, flavor, size, type, nelems, members) ==
    [kind |-> kind, name |-> name, flavor |-> flavor, size |-> size, signed |-> FALSE,
     type |-> type, nelems |-> nelems, members |-> members]
CoreMember(name, type, off, bits) == [name |-> name, type |-> type, off |-> off, bits |-> bits]
CoreInt == CoreType("int", "int", "", 4, 0, 0, <<>>)
CoreEnum == CoreType("enum", "e", "", 4, 0, 0, <<>>)
CoreArray(n) == CoreType("array", "", "", 0, 1, n, <<>>)
CoreStruct(name, flavor, size, members) ==
    CoreType("struct", name, flavor, size, 0, 0, members)
CoreLocal ==
    <<CoreInt, CoreEnum, CoreArray(4),
      CoreStruct("", "", 8, <<CoreMember("b", 1, 0, 0), CoreMember("c", 1, 32, 5)>>),
      CoreStruct("s", "", 32, <<CoreMember("a", 1, 0, 0), CoreMember("", 4, 32, 0),
                                CoreMember("e", 2, 96, 0), CoreMember("v", 3, 128, 0)>>)>>
CoreAnons ==
    {<<CoreMember("b", 1, 0, 0), CoreMember("c", 1, off, 5)>> : off \in {32, 61, 29}}
    \cup {<<CoreMember("b", 1, 0, 0), CoreMember("c", 1, 32, 0)>>, <<CoreMember("x", 1, 0, 0)>>}
CoreBodies ==
    {<<CoreMember("v", 3, 0, 0), CoreMember("", 4, 192, 0), CoreMember("e", 2, 256, 0)>>,
     <<CoreMember("a", 1, 32, 0), CoreMember("e", 2, 0, 0)>>,
     <<CoreMember("a", 2, 0, 0), CoreMember("v", 1, 32, 0)>>}
CoreTargets ==
    {<<CoreInt, CoreEnum, CoreArray(2), CoreStruct("", "", 12, anon),
       CoreStruct("s", "", 40, s), CoreStruct("s", "2", 40, s2),
       CoreType("typedef", "s", "", 0, 5, 0, <<>>)>> :
        anon \in CoreAnons, s \in CoreBodies, s2 \in CoreBodies}
CoreRel(spec, kind, class, value) ==
    [type |-> 5, spec |-> spec, kind |-> kind, class |-> class, value |-> value]
CoreRels ==
    {CoreRel(<<0, 1>>, "byte_off", "ldx", 0), CoreRel(<<0, 2, 1>>, "byte_off", "ldx", 4),
     CoreRel(<<0, 2, 2>>, "lshift", "alu", 27), CoreRel(<<0, 2, 2>>, "byte_sz", "alu", 4),
     CoreRel(<<0, 3>>, "signed", "alu", 1), CoreRel(<<0, 4, 1>>, "byte_off", "alu", 20),
     CoreRel(<<0, 4, 3>>, "byte_off", "alu", 28), CoreRel(<<0, 1>>, "exists", "alu", 1),
     CoreRel(<<0, 2, 1>>, "byte_off", "ldx", 5), CoreRel(<<0, 5>>, "byte_off", "alu", 0),
     CoreRel(<<1, 1>>, "byte_off", "ldx", 32)}
CorePrograms ==
    {<<a, b>> : a \in CoreRels, b \in {r \in CoreRels : r.kind \in {"byte_off", "exists"}}}

-----------------------------------------------------------------------------
(* LineInfo and ProgInfo: line tables of a program with up to three          *)
(* functions in any order of addresses, and the arrays of a program.         *)
LineTable(linfo, jited, ksyms, lens, enough) ==
    [linfo |-> linfo, jited |-> jited, ksyms |-> ksyms, lens |-> lens, enough |-> enough]
LineTables ==
    {LineTable(<<0, 2, 4, 5>>, <<a, b, c, d>>, k, <<3, 2, 2>>, e) :
        a \in {10, 20}, b \in {10, 11, 20}, c \in {12, 20}, d \in {11, 22, 30},
        k \in {<<10>>, <<10, 20>>, <<20, 10>>, <<10, 20, 30>>}, e \in BOOLEAN}
    \cup {LineTable(<<>>, <<>>, <<>>, <<>>, FALSE)}
InfoArrays ==
    {<<[count |-> a, size |-> 1], [count |-> b, size |-> 2], [count |-> c, size |-> 3]>> :
        a \in {0, 3}, b \in {0, 2}, c \in 0..1}

-----------------------------------------------------------------------------
VARIABLES
    part,
    elf_file, strict, elf_caps, elf_pc, elf_n, efile, elf_progs, elf_maps, btf, btf_ext,
    elf_types, elf_err, elf_faults,
    symbols, ext_vars, ext_mem, system, ext_phase, ext_i, externs, offset, map_sz, data,
    seen, ext_err,
    ops_vars, ops_kernel, relocs, ops_phase, ops_n, ops_maps, ops_progs, ops_err,
    ops_faults,
    obj, reloc_pc, ext, reloc_k, reloc_i, desc, slots, reloc_prog, reloc_faults,
    targ, core_prog, core_n, cand_cache, insn, spec, core_err, core_faults,
    load_kernel, programs, log_level, load_caps, load_pc, cur, inst, attr, buf, logged,
    errno, fds, load_open, load_ret, results, load_faults,
    buckets, cap_bits, sz, result, rehashed,
    types_pc, types_file, types_types, types_size, types_at, fd, log, types_err,
    types_faults,
    dedup_phase, input, dont_resolve_fwds, names, dedup_types, dedup_map, table, new_id,
    unit, dump_d, dump_out, dump_ret, dump_asked, dump_faults,
    type, chain, tokens, close, source, text_m, text,
    lines_info, lines_at, per, lines_i, lines_f, prev_i, lines_pc, lines_asked, answer,
    lines_faults,
    info_kernel, known, want, info_info, linear, base, info_mem, data_len, form,
    info_pc, info_err, info_faults, moves

Elf == INSTANCE ElfObject WITH
    Files <- ElfFiles, CapSets <- BtfCaps, DefSize <- 3, MaxFaults <- 1,
    file <- elf_file, caps <- elf_caps, pc <- elf_pc, n <- elf_n, progs <- elf_progs,
    maps <- elf_maps, types <- elf_types, err <- elf_err, faults <- elf_faults

Ext == INSTANCE Externs WITH
    Types <- ExtTypes, Symbols <- ExtSymbols, Vars <- ExtVars, KindOf <- ExtKind,
    Rank <- ExtRank, Texts <- KconfigTexts, Version <- 5, ByteBits <- 2, WordBytes <- 4,
    vars <- ext_vars, mem <- ext_mem, phase <- ext_phase, i <- ext_i, err <- ext_err

Ops == INSTANCE StructOps WITH
    Vars <- OpsVars, Kernels <- OpsKernels, Relocs <- OpsRelocs, SecType <- OpsSecType,
    SecSize <- 7, MaxFaults <- 1,
    vars <- ops_vars, kernel <- ops_kernel, phase <- ops_phase, n <- ops_n,
    maps <- ops_maps, progs <- ops_progs, err <- ops_err, faults <- ops_faults

Reloc == INSTANCE ProgramReloc WITH
    Objects <- RelocKept, MaxFaults <- 1,
    pc <- reloc_pc, k <- reloc_k, i <- reloc_i, prog <- reloc_prog,
    faults <- reloc_faults

Core == INSTANCE CoreReloc WITH
    Local <- CoreLocal, Targets <- CoreTargets, Programs <- CorePrograms, MaxOff <- 32,
    MaxFaults <- 1,
    prog <- core_prog, n <- core_n, err <- core_err, faults <- core_faults

Load == INSTANCE ProgramLoad WITH
    Kernels <- LoadKernels, Features <- LoadFeatures, LogLevels <- {0, 1, 8},
    MaxInsns <- 4096, MaxLog <- 16, MaxFaults <- 1,
    kernel <- load_kernel, caps <- load_caps, pc <- load_pc, open <- load_open,
    ret <- load_ret, faults <- load_faults

Hash == INSTANCE HashMap WITH
    Keys <- {key1, key2, key3}, Values <- {val1, val2},
    Hash <- key1 :> 0 @@ key2 :> 1 @@ key3 :> 6,
    MaxBits <- 3, MaxEntries <- 4

Types == INSTANCE BtfTypes WITH
    Files <- BtfFiles, Sections <- ElfSections, Symbols <- ElfVariables, Expand <- 2,
    MaxTypes <- 6, MaxU32 <- 127, Depth <- 4, MaxFaults <- 2,
    pc <- types_pc, file <- types_file, types <- types_types, at <- types_at,
    err <- types_err, faults <- types_faults

Dedup == INSTANCE BtfDedup WITH
    Units <- DedupUnits, Strings <- UnitStrings, Options <- BOOLEAN,
    phase <- dedup_phase, types <- dedup_types, map <- dedup_map

Dump == INSTANCE BtfDump WITH
    Units <- DumpUnits, Builtins <- {"va"}, LeastCap <- 2, MaxCalls <- 2, MaxFaults <- 1,
    d <- dump_d, out <- dump_out, ret <- dump_ret, asked <- dump_asked,
    faults <- dump_faults

CText == INSTANCE BtfDumpText WITH
    Chains <- Declarators, Structs <- CStructs,
    m <- text_m

Lines == INSTANCE LineInfo WITH
    Infos <- LineTables, Addrs <- {9, 10, 11, 20, 31}, Offs <- {0, 1, 3},
    Skips <- {0, 1}, MaxFaults <- 1,
    info <- lines_info, at <- lines_at, i <- lines_i, f <- lines_f, pc <- lines_pc,
    asked <- lines_asked, faults <- lines_faults

Info == INSTANCE ProgInfo WITH
    NArrays <- 3, Kernels <- InfoArrays, Knowns <- {{1, 2, 3}, {1, 2}, {2, 3}},
    Bases <- {100, 200}, Align <- 4, MaxFaults <- 1, MaxMoves <- 2,
    kernel <- info_kernel, info <- info_info, mem <- info_mem, pc <- info_pc,
    err <- info_err, faults <- info_faults

elfVars == <<elf_file, strict, elf_caps, elf_pc, elf_n, efile, elf_progs, elf_maps, btf,
            btf_ext, elf_types, elf_err, elf_faults>>
extVars == <<symbols, ext_vars, ext_mem, system, ext_phase, ext_i, externs, offset,
            map_sz, data, seen, ext_err>>
opsVars == <<ops_vars, ops_kernel, relocs, ops_phase, ops_n, ops_maps, ops_progs,
            ops_err, ops_faults>>
relocVars == <<obj, reloc_pc, ext, reloc_k, reloc_i, desc, slots, reloc_prog,
              reloc_faults>>
coreVars == <<targ, core_prog, core_n, cand_cache, insn, spec, core_err, core_faults>>
loadVars == <<load_kernel, programs, log_level, load_caps, load_pc, cur, inst, attr,
             buf, logged, errno, fds, load_open, load_ret, results, load_faults>>
hashVars == <<buckets, cap_bits, sz, result, rehashed>>
typesVars == <<types_pc, types_file, types_types, types_size, types_at, fd, log,
              types_err, types_faults>>
dedupVars == <<dedup_phase, input, dont_resolve_fwds, names, dedup_types, dedup_map,
              table, new_id>>
dumpVars == <<unit, dump_d, dump_out, dump_ret, dump_asked, dump_faults>>
textVars == <<type, chain, tokens, close, source, text_m, text>>
linesVars == <<lines_info, lines_at, per, lines_i, lines_f, prev_i, lines_pc,
              lines_asked, answer, lines_faults>>
infoVars == <<info_kernel, known, want, info_info, linear, base, info_mem, data_len,
             form, info_pc, info_err, info_faults, moves>>

NoElf ==
    /\ elf_file = None /\ strict = None /\ elf_caps = None /\ elf_pc = None
    /\ elf_n = None /\ efile = None /\ elf_progs = None /\ elf_maps = None
    /\ btf = None /\ btf_ext = None /\ elf_types = None /\ elf_err = None
    /\ elf_faults = None
NoExt ==
    /\ symbols = None /\ ext_vars = None /\ ext_mem = None /\ system = None
    /\ ext_phase = None /\ ext_i = None /\ externs = None /\ offset = None
    /\ map_sz = None /\ data = None /\ seen = None /\ ext_err = None
NoOps ==
    /\ ops_vars = None /\ ops_kernel = None /\ relocs = None /\ ops_phase = None
    /\ ops_n = None /\ ops_maps = None /\ ops_progs = None /\ ops_err = None
    /\ ops_faults = None
NoReloc ==
    /\ obj = None /\ reloc_pc = None /\ ext = None /\ reloc_k = None
    /\ reloc_i = None /\ desc = None /\ slots = None /\ reloc_prog = None
    /\ reloc_faults = None
NoCore ==
    /\ targ = None /\ core_prog = None /\ core_n = None /\ cand_cache = None
    /\ insn = None /\ spec = None /\ core_err = None /\ core_faults = None
NoLoad ==
    /\ load_kernel = None /\ programs = None /\ log_level = None /\ load_caps = None
    /\ load_pc = None /\ cur = None /\ inst = None /\ attr = None /\ buf = None
    /\ logged = None /\ errno = None /\ fds = None /\ load_open = None
    /\ load_ret = None /\ results = None /\ load_faults = None
NoTypes ==
    /\ types_pc = None /\ types_file = None /\ types_types = None
    /\ types_size = None /\ types_at = None /\ fd = None /\ log = None
    /\ types_err = None /\ types_faults = None
NoDedup ==
    /\ dedup_phase = None /\ input = None /\ dont_resolve_fwds = None
    /\ names = None /\ dedup_types = None /\ dedup_map = None /\ table = None
    /\ new_id = None
NoDump ==
    /\ unit = None /\ dump_d = None /\ dump_out = None /\ dump_ret = None
    /\ dump_asked = None /\ dump_faults = None
NoCText ==
    /\ type = None /\ chain = None /\ tokens = None /\ close = None /\ source = None
    /\ text_m = None /\ text = None
NoLines ==
    /\ lines_info = None /\ lines_at = None /\ per = None /\ lines_i = None
    /\ lines_f = None /\ prev_i = None /\ lines_pc = None /\ lines_asked = None
    /\ answer = None /\ lines_faults = None
NoInfo ==
    /\ info_kernel = None /\ known = None /\ want = None /\ info_info = None
    /\ linear = None /\ base = None /\ info_mem = None /\ data_len = None
    /\ form = None /\ info_pc = None /\ info_err = None /\ info_faults = None
    /\ moves = None

Init ==
    /\ part \in {"elf", "externs", "struct_ops", "reloc", "core", "load", "hash",
                "types", "dedup", "dump", "text", "lines", "info"}
    /\ IF part = "elf" THEN Elf!Init ELSE NoElf
    /\ IF part = "externs" THEN Ext!Init ELSE NoExt
    /\ IF part = "struct_ops" THEN Ops!Init ELSE NoOps
    /\ IF part = "reloc" THEN Reloc!Init ELSE NoReloc
    /\ IF part = "core" THEN Core!Init ELSE NoCore
    /\ IF part = "load" THEN Load!Init ELSE NoLoad
    /\ Hash!Init
    /\ IF part = "types" THEN Types!Init ELSE NoTypes
    /\ IF part = "dedup" THEN Dedup!Init ELSE NoDedup
    /\ IF part = "dump" THEN Dump!Init ELSE NoDump
    /\ IF part = "text" THEN CText!Init ELSE NoCText
    /\ IF part = "lines" THEN Lines!Init ELSE NoLines
    /\ IF part = "info" THEN Info!Init ELSE NoInfo

(* A step of one part leaves the variables of the others alone.              *)
Others(p) ==
    /\ p # "elf" => UNCHANGED elfVars
    /\ p # "externs" => UNCHANGED extVars
    /\ p # "struct_ops" => UNCHANGED opsVars
    /\ p # "reloc" => UNCHANGED relocVars
    /\ p # "core" => UNCHANGED coreVars
    /\ p # "load" => UNCHANGED loadVars
    /\ p # "hash" => UNCHANGED hashVars
    /\ p # "types" => UNCHANGED typesVars
    /\ p # "dedup" => UNCHANGED dedupVars
    /\ p # "dump" => UNCHANGED dumpVars
    /\ p # "text" => UNCHANGED textVars
    /\ p # "lines" => UNCHANGED linesVars
    /\ p # "info" => UNCHANGED infoVars

ElfNext == part = "elf" /\ Elf!Next /\ UNCHANGED part /\ Others("elf")
ExtNext == part = "externs" /\ Ext!Next /\ UNCHANGED part /\ Others("externs")
OpsNext == part = "struct_ops" /\ Ops!Next /\ UNCHANGED part /\ Others("struct_ops")
RelocNext == part = "reloc" /\ Reloc!Next /\ UNCHANGED part /\ Others("reloc")
CoreNext == part = "core" /\ Core!Next /\ UNCHANGED part /\ Others("core")
LoadNext == part = "load" /\ Load!Next /\ UNCHANGED part /\ Others("load")
HashNext == part = "hash" /\ Hash!Next /\ UNCHANGED part /\ Others("hash")
TypesNext == part = "types" /\ Types!Next /\ UNCHANGED part /\ Others("types")
DedupNext == part = "dedup" /\ Dedup!Next /\ UNCHANGED part /\ Others("dedup")
DumpNext == part = "dump" /\ Dump!Next /\ UNCHANGED part /\ Others("dump")
CTextNext == part = "text" /\ CText!Next /\ UNCHANGED part /\ Others("text")
LinesNext == part = "lines" /\ Lines!Next /\ UNCHANGED part /\ Others("lines")
InfoNext == part = "info" /\ Info!Next /\ UNCHANGED part /\ Others("info")

Next ==
    \/ ElfNext \/ ExtNext \/ OpsNext \/ RelocNext
    \/ CoreNext \/ LoadNext \/ HashNext \/ TypesNext
    \/ DedupNext \/ DumpNext \/ CTextNext \/ LinesNext
    \/ InfoNext
vars == <<part, elfVars, extVars, opsVars, relocVars, coreVars, loadVars, hashVars,
          typesVars, dedupVars, dumpVars, textVars, linesVars, infoVars>>
Spec == Init /\ [][Next]_vars /\ WF_vars(LoadNext)

-----------------------------------------------------------------------------
(* The properties are those of the modules, which state and explain them.    *)

\* The variables of the part that runs have their types.
TypeOK ==
    /\ part = "elf" => Elf!TypeOK
    /\ part = "externs" => Ext!TypeOK
    /\ part = "struct_ops" => Ops!TypeOK
    /\ part = "reloc" => Reloc!TypeOK
    /\ part = "core" => Core!TypeOK
    /\ part = "load" => Load!TypeOK
    /\ Hash!TypeOK
    /\ part = "types" => Types!TypeOK
    /\ part = "dedup" => Dedup!TypeOK
    /\ part = "dump" => Dump!TypeOK
    /\ part = "text" => CText!TypeOK
    /\ part = "lines" => Lines!TypeOK
    /\ part = "info" => Info!TypeOK

\* libbpf.c: the maps, types, externs and struct_ops tables of an object are those its
\* file, the configuration and the kernel's BTF describe, or it is refused.
ObjectRight ==
    /\ part = "elf" => Elf!ElfRight
    /\ part = "externs" => Ext!ExternsRight
    /\ part = "struct_ops" => Ops!StructOpsRight

\* libbpf.c, bpf.c, bpf_prog_linfo.c: calls and loads are relocated to what the source
\* names, fields to where the kernel has them, what is loaded is what the kernel
\* accepted, and an address in it is found with its line.
ProgramsRight ==
    /\ part = "reloc" => Reloc!RelocRight
    /\ part = "core" => Core!CoreRight
    /\ part = "load" => Load!LoadsRight
    /\ part = "lines" => Lines!LineInfoRight
    /\ part = "info" => Info!InfoRight

\* libbpf.c: the retries of a load come to an end.
LoadEnds == part = "load" ~> load_pc = "done"

\* btf.c, btf_dump.c: types are what the file describes, deduplication changes
\* none, and their C form compiles and says the same.
TypesRight ==
    /\ part = "types" => Types!TypesRight
    /\ part = "dedup" => Dedup!DedupRight
    /\ part = "dump" => Dump!DumpRight
    /\ part = "text" => CText!TextRight

\* hashmap.c: the table of chains is a multimap, also while it grows.
ImplementsMultimap == Hash!ImplementsMultimap
=============================================================================
