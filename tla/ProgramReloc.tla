------------------------------ MODULE ProgramReloc ------------------------------
(* libbpf.c and btf.c: from the relocations of an ELF file to instructions   *)
(* that name map descriptors and functions.  bpf_object__collect_reloc reads *)
(* them when the object is opened; bpf_object__relocate applies them when it *)
(* is loaded, .text first, and moves the line and function information of    *)
(* .BTF.ext along with the code.  Instructions count from 0, as in the code. *)
EXTENDS Integers, Sequences

CONSTANTS
    Objects,        \* inputs: [progs, text, code, rels, maps, areas], see MCLibbpf
    MaxFaults,      \* bound: failing allocations
    None

VARIABLES
    obj,            \* the object, one of Objects
    pc,             \* "ext", "collect", "relocate", "done", "failed"
    ext,            \* btf_ext: accepted areas of func_info and line_info, or None
    k, i,           \* the section and the relocation at hand
    desc,           \* prog->reloc_desc, by section
    slots,          \* map->init_slots, by map
    prog,           \* insns, main_prog_cnt, func_info and line_info, by section
    faults

plocvars == <<obj, pc, ext, k, i, desc, slots, prog, faults>>

Sections == {obj.progs[n] : n \in DOMAIN obj.progs}
Kinds == {"func", "line"}
Area(a, kind) == IF kind = "func" THEN a.func ELSE a.line

Loaded(s) ==
    [insns |-> [n \in DOMAIN obj.code[s] |->
                  [sec |-> s, idx |-> n - 1, op |-> obj.code[s][n].op,
                   imm |-> obj.code[s][n].imm, src |-> None, imm2 |-> 0]],
     main_prog_cnt |-> 0, func |-> <<>>, line |-> <<>>]

Init ==
    /\ obj \in Objects
    /\ pc = "ext" /\ ext = None /\ k = 1 /\ i = 1
    /\ desc = [s \in Sections |-> <<>>]
    /\ slots = [m \in DOMAIN obj.maps |-> <<>>]
    /\ prog = [s \in Sections |-> Loaded(s)]
    /\ faults = 0

Fault == faults < MaxFaults /\ faults' = faults + 1
Failed == pc' = "failed" /\ UNCHANGED <<obj, ext, k, i, desc, slots, prog>>

---------------------------------------------------------------------------
(* btf_ext__new.  An area is a record size and blocks of records, one per    *)
(* section; btf_ext_setup_info accepts it if the blocks end where it ends.   *)
HeaderLen == 8
BlockLen(area, b) == HeaderLen + Len(area.blocks[b].offs) * area.rec_size

LenUpTo(area) ==
    LET f[b \in 0..Len(area.blocks)] == IF b = 0 THEN 0 ELSE f[b - 1] + BlockLen(area, b)
    IN f

btf_ext_setup_info(area) ==
    \/ area.len = 0
    \/ /\ area.rec_size >= area.min
       /\ \E b \in 1..Len(area.blocks) :
            /\ LenUpTo(area)[b] = area.len
            /\ \A c \in 1..b : area.blocks[c].offs # <<>>

(* A refused or missing .BTF.ext leaves the object without one.              *)
btf_ext__new ==
    /\ pc = "ext" /\ pc' = "collect"
    /\ \/ /\ ext' = IF \A kind \in Kinds : btf_ext_setup_info(Area(obj.areas, kind))
                    THEN obj.areas ELSE None
          /\ UNCHANGED faults
       \/ Fault /\ ext' = None
    /\ UNCHANGED <<obj, k, i, desc, slots, prog>>

(* btf_ext_reloc_info: the records of the first block for section s, moved   *)
(* by insns_cnt, or None when the walk of remain_len finds no block.         *)
Blocks(area, s) ==
    {b \in 1..Len(area.blocks) :
        area.blocks[b].sec = s /\ LenUpTo(area)[b - 1] < area.len}

(* A mutant: the records keep the offset they have in their own section.     *)
MovedNot(area, b, insns_cnt) ==
    [n \in DOMAIN area.blocks[b].offs |->
        [sec |-> area.blocks[b].sec, idx |-> area.blocks[b].offs[n],
         insn_off |-> area.blocks[b].offs[n]]]

Moved(area, b, insns_cnt) ==
    [n \in DOMAIN area.blocks[b].offs |->
        [sec |-> area.blocks[b].sec, idx |-> area.blocks[b].offs[n],
         insn_off |-> area.blocks[b].offs[n] + insns_cnt]]

btf_ext_reloc_info(area, s, insns_cnt) ==
    IF Blocks(area, s) = {} THEN None
    ELSE Moved(area, CHOOSE b \in Blocks(area, s) : \A c \in Blocks(area, s) : b <= c, insns_cnt)

(* bpf_program_reloc_btf_ext and check_btf_ext_reloc_err: what the pair of   *)
(* lists becomes, or None for an error.  Without func_info for the main      *)
(* program neither list is read.                                             *)
Info(p, s, insn_offset) ==
    LET wantF == insn_offset = 0 \/ p.func # <<>>
        F == btf_ext_reloc_info(ext.func, s, insn_offset)
        func == IF wantF /\ F # None THEN p.func \o F ELSE p.func
        wantL == insn_offset = 0 \/ p.line # <<>>
        L == btf_ext_reloc_info(ext.line, s, insn_offset)
    IN CASE wantF /\ F = None /\ p.func # <<>> -> None
         [] wantF /\ F = None /\ p.func = <<>> -> [p EXCEPT !.func = func]
         [] ~(wantF /\ F = None) ->
              CASE wantL /\ L = None /\ p.line # <<>> -> None
                [] wantL /\ L = None /\ p.line = <<>> -> [p EXCEPT !.func = func]
                [] wantL /\ L # None -> [p EXCEPT !.func = func, !.line = p.line \o L]
                [] ~wantL -> [p EXCEPT !.func = func]

---------------------------------------------------------------------------
(* bpf_program__record_reloc, or None when the relocation is refused.        *)
DataSections == {".data", ".bss", ".rodata"}

MapAt(sym) ==
    {m \in DOMAIN obj.maps :
        obj.maps[m].sec = sym.sec /\ (sym.sec \notin DataSections => obj.maps[m].off = sym.value)}

Record(s, r) ==
    LET op == obj.code[s][r.insn_idx + 1].op
        least == CHOOSE m \in MapAt(r.sym) : \A n \in MapAt(r.sym) : m <= n
    IN CASE op = "call" /\ r.sym.sec = obj.text ->
              [type |-> "call", insn_idx |-> r.insn_idx, map_idx |-> 0, sym_off |-> r.sym.value]
         [] op = "ld64" /\ r.sym.sec = "extern" ->
              [type |-> "extern", insn_idx |-> r.insn_idx, map_idx |-> 0, sym_off |-> r.sym.value]
         [] op = "ld64" /\ r.sym.sec = ".maps" /\ MapAt(r.sym) # {} ->
              [type |-> "ld64", insn_idx |-> r.insn_idx, map_idx |-> least, sym_off |-> 0]
         [] op = "ld64" /\ r.sym.sec \in DataSections /\ MapAt(r.sym) # {} ->
              [type |-> "data", insn_idx |-> r.insn_idx, map_idx |-> least, sym_off |-> r.sym.value]
         [] OTHER -> None

(* One relocation of bpf_program__collect_reloc.                             *)
CollectProgram(s) ==
    LET r == obj.rels[k].list[i]
    IN IF s \notin Sections \/ Record(s, r) = None
       THEN Failed /\ UNCHANGED faults
       ELSE /\ desc' = [desc EXCEPT ![s] = Append(@, Record(s, r))]
            /\ i' = i + 1
            /\ UNCHANGED <<obj, pc, ext, k, slots, prog, faults>>

(* One relocation of bpf_object__collect_map_relos: a map in the values of   *)
(* an outer map.  The outer map is the one whose variable holds the address. *)
Holding(r) == {m \in DOMAIN obj.maps :
    LET d == obj.maps[m]
    IN d.sec = ".maps" /\ d.off <= r.offset /\ r.offset + 8 <= d.off + d.size}

Grow(list, n) == [j \in 1..(IF n > Len(list) THEN n ELSE Len(list)) |->
                    IF j <= Len(list) THEN list[j] ELSE None]

CollectMap ==
    LET r == obj.rels[k].list[i]
        m == CHOOSE x \in Holding(r) : TRUE
        d == obj.maps[m]
        at == r.offset - d.off - d.values
    IN \/ /\ \/ Holding(r) = {}
             \/ ~d.of_maps \/ r.target \notin DOMAIN obj.maps
             \/ at < 0 \/ at % 8 # 0
          /\ Failed /\ UNCHANGED faults
       \/ /\ Holding(r) # {}
          /\ d.of_maps /\ r.target \in DOMAIN obj.maps
          /\ at >= 0 /\ at % 8 = 0
          /\ LET slot == at \div 8 + 1
             IN \/ /\ slots' = [slots EXCEPT ![m] = [Grow(@, slot) EXCEPT ![slot] = r.target]]
                   /\ i' = i + 1
                   /\ UNCHANGED <<obj, pc, ext, k, desc, prog, faults>>
                \/ slot > Len(slots[m]) /\ Fault /\ Failed

Collect ==
    /\ pc = "collect" /\ k <= Len(obj.rels)
    /\ i <= Len(obj.rels[k].list)
    /\ IF obj.rels[k].sec = ".maps" THEN CollectMap ELSE CollectProgram(obj.rels[k].sec)

CollectSection ==
    /\ pc = "collect" /\ k <= Len(obj.rels)
    /\ i > Len(obj.rels[k].list)
    /\ k' = k + 1 /\ i' = 1
    /\ UNCHANGED <<obj, pc, ext, desc, slots, prog, faults>>

---------------------------------------------------------------------------
(* The order of bpf_object__relocate.                                        *)
NotText(s) == s # obj.text

Order == SelectSeq(obj.progs, LAMBDA s : s = obj.text) \o SelectSeq(obj.progs, NotText)

(* The maps have been created: map m has descriptor m.                       *)
Relocate ==
    /\ pc = "collect" /\ k > Len(obj.rels)
    /\ pc' = "relocate" /\ k' = 1 /\ i' = 0
    /\ UNCHANGED <<obj, ext, desc, slots, prog, faults>>

(* bpf_program__relocate begins with the information of the program itself.  *)
RelocateInfo ==
    /\ pc = "relocate" /\ k <= Len(Order) /\ i = 0
    /\ LET s == Order[k]
       IN \/ /\ ext # None /\ Fault /\ Failed
          \/ /\ prog' = IF ext = None THEN prog
                        ELSE [prog EXCEPT ![s] = Info(@, s, 0)]
             /\ i' = 1
             /\ UNCHANGED <<obj, pc, ext, k, desc, slots, faults>>

(* bpf_program__reloc_text: .text is appended at the first call into it.     *)
Appended(p) ==
    LET text == prog[obj.text]
        q == IF ext = None THEN p ELSE Info(p, obj.text, Len(p.insns))
    IN IF q = None THEN None
       ELSE [q EXCEPT !.insns = @ \o text.insns, !.main_prog_cnt = Len(p.insns)]

Needed(s) == s # obj.text /\ prog[s].main_prog_cnt = 0

Call(p, r) ==
    [p EXCEPT !.insns[r.insn_idx + 1].imm = @ + r.sym_off + p.main_prog_cnt - r.insn_idx]

RelocateCall(s, r) ==
    IF Needed(s)
    THEN \/ Fault /\ Failed
         \/ /\ obj.text \notin Sections \/ Appended(prog[s]) = None
            /\ Failed /\ UNCHANGED faults
         \/ /\ obj.text \in Sections /\ Appended(prog[s]) # None
            /\ prog' = [prog EXCEPT ![s] = Call(Appended(prog[s]), r)]
            /\ i' = i + 1
            /\ UNCHANGED <<obj, pc, ext, k, desc, slots, faults>>
    ELSE /\ prog' = [prog EXCEPT ![s] = Call(@, r)]
         /\ i' = i + 1
         /\ UNCHANGED <<obj, pc, ext, k, desc, slots, faults>>

KconfigMap == CHOOSE m \in DOMAIN obj.maps : obj.maps[m].sec = "extern"

Patched(insn, r) ==
    CASE r.type = "ld64" -> [insn EXCEPT !.src = "fd", !.imm = r.map_idx]
      [] r.type = "data" -> [insn EXCEPT !.src = "value", !.imm2 = insn.imm + r.sym_off,
                                         !.imm = r.map_idx]
      [] r.type = "extern" -> [insn EXCEPT !.src = "value", !.imm = KconfigMap,
                                           !.imm2 = r.sym_off]

RelocateOne ==
    /\ pc = "relocate" /\ k <= Len(Order) /\ i >= 1
    /\ LET s == Order[k]
           r == desc[s][i]
       IN /\ i <= Len(desc[s])
          /\ CASE r.insn_idx + 1 >= Len(prog[s].insns) -> Failed /\ UNCHANGED faults
               [] r.insn_idx + 1 < Len(prog[s].insns) /\ r.type = "call" -> RelocateCall(s, r)
               [] OTHER ->
                    /\ prog' = [prog EXCEPT ![s].insns[r.insn_idx + 1] = Patched(@, r)]
                    /\ i' = i + 1
                    /\ UNCHANGED <<obj, pc, ext, k, desc, slots, faults>>

RelocateNext ==
    /\ pc = "relocate" /\ k <= Len(Order) /\ i > Len(desc[Order[k]])
    /\ desc' = [desc EXCEPT ![Order[k]] = <<>>]
    /\ k' = k + 1 /\ i' = 0
    /\ pc' = IF k = Len(Order) THEN "done" ELSE pc
    /\ UNCHANGED <<obj, ext, slots, prog, faults>>

Next ==
    \/ btf_ext__new \/ Collect \/ CollectSection
    \/ Relocate \/ RelocateInfo \/ RelocateOne \/ RelocateNext

---------------------------------------------------------------------------
TypeOK ==
    /\ obj \in Objects /\ faults \in 0..MaxFaults
    /\ pc \in {"ext", "collect", "relocate", "done", "failed"}
    /\ \A s \in Sections : prog[s].main_prog_cnt \in 0..Len(prog[s].insns)

RelsOf(s) == UNION {{obj.rels[n].list[j] : j \in DOMAIN obj.rels[n].list} :
                       n \in {x \in DOMAIN obj.rels : obj.rels[x].sec = s}}

(* Every call of a relocated program, those in its copy of .text too,        *)
(* reaches the function that the relocation named.                           *)
CallsReach ==
    pc = "done" => \A s \in Sections : \A n \in DOMAIN prog[s].insns :
        LET insn == prog[s].insns[n]
        IN \A r \in {x \in RelsOf(insn.sec) : x.insn_idx = insn.idx} :
             insn.op = "call" =>
                LET to == n + insn.imm + 1
                IN /\ to \in DOMAIN prog[s].insns
                   /\ prog[s].insns[to].sec = obj.text
                   /\ prog[s].insns[to].idx =
                        obj.code[insn.sec][insn.idx + 1].imm + r.sym.value + 1

(* Every load names the map of its symbol, and the address within it.        *)
LoadsName ==
    pc = "done" => \A s \in Sections : \A n \in DOMAIN prog[s].insns :
        LET insn == prog[s].insns[n]
        IN \A r \in {x \in RelsOf(insn.sec) : x.insn_idx = insn.idx} :
             insn.op = "ld64" =>
                /\ insn.src # None /\ obj.maps[insn.imm].sec = r.sym.sec
                /\ r.sym.sec = ".maps" => obj.maps[insn.imm].off = r.sym.value
                /\ r.sym.sec # ".maps" =>
                     insn.imm2 = r.sym.value + IF r.sym.sec = "extern" THEN 0
                                               ELSE obj.code[insn.sec][insn.idx + 1].imm

(* A record of function or line information stands at the instruction it was *)
(* written for, in the program and in its copy of .text.                     *)
InfoFollowsCode ==
    pc = "done" => \A s \in Sections, kind \in Kinds :
        LET list == IF kind = "func" THEN prog[s].func ELSE prog[s].line
        IN \A n \in DOMAIN list :
             LET insn == prog[s].insns[list[n].insn_off + 1]
             IN insn.sec = list[n].sec /\ insn.idx = list[n].idx

(* The kernel wants these lists in the order of the instructions.            *)
InfoAscends ==
    \A s \in Sections : \A a, b \in DOMAIN prog[s].line :
        a < b => prog[s].line[a].insn_off <= prog[s].line[b].insn_off

(* .text is in a program at most once.                                       *)
TextOnce ==
    \A s \in Sections : \A a, b \in DOMAIN prog[s].insns :
        /\ prog[s].insns[a].sec = prog[s].insns[b].sec
        /\ prog[s].insns[a].idx = prog[s].insns[b].idx
        => a = b

(* The slots of an outer map hold the maps that the file names there.        *)
SlotsNamed ==
    pc \in {"relocate", "done"} => \A m \in DOMAIN obj.maps : \A j \in DOMAIN slots[m] :
        LET named == {r \in RelsOf(".maps") :
                        r.offset = obj.maps[m].off + obj.maps[m].values + 8 * (j - 1)}
        IN IF named = {} THEN slots[m][j] = None
           ELSE \E r \in named : slots[m][j] = r.target

RelocRight == CallsReach /\ LoadsName /\ InfoFollowsCode /\ InfoAscends /\ TextOnce /\ SlotsNamed
================================================================================
