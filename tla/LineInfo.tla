------------------------------- MODULE LineInfo -------------------------------
(* bpf_prog_linfo.c: an index of the line information of a loaded program.   *)
(* The kernel gives the records of all functions in one array, with the      *)
(* address each was compiled to; dissect_jited_func finds where the records  *)
(* of each function begin, and the lookups search a function's records.      *)
EXTENDS Integers, Sequences, FiniteSets

CONSTANTS
    Infos,          \* [linfo, jited, ksyms, lens, enough] as the kernel reports them
    Addrs, Offs, Skips,     \* what the lookups are asked
    MaxFaults,      \* bound: failing allocations
    None

VARIABLES
    info,
    at,             \* jited_linfo_func_idx, from 1
    per,            \* nr_jited_linfo_per_func
    i, f, prev_i,   \* of dissect_jited_func
    pc,             \* new, dissect, ready, none
    asked, answer,  \* the last lookup
    faults

linfovars == <<info, at, per, i, f, prev_i, pc, asked, answer, faults>>

Jited == info.jited
Ksyms == info.ksyms

Init ==
    /\ info \in Infos
    /\ at = <<>> /\ per = <<>> /\ i = 0 /\ f = 0 /\ prev_i = 0
    /\ pc = "new" /\ asked = None /\ answer = None /\ faults = 0

(* bpf_prog_linfo__new: without all of the kernel's arrays there is only the *)
(* index by instruction.                                                     *)
New ==
    /\ pc = "new"
    /\ CASE info.linfo = <<>> -> pc' = "none" /\ UNCHANGED <<at, i, f, prev_i>>
         [] info.linfo # <<>> /\ ~info.enough -> pc' = "ready" /\ UNCHANGED <<at, i, f, prev_i>>
         [] OTHER ->
              IF Ksyms[1] # Jited[1] THEN pc' = "none" /\ UNCHANGED <<at, i, f, prev_i>>
              ELSE pc' = "dissect" /\ at' = <<1>> /\ i' = 2 /\ f' = 2 /\ prev_i' = 1
    /\ UNCHANGED <<info, per, asked, answer, faults>>
NoMemory ==
    /\ pc = "new" /\ info.linfo # <<>> /\ faults < MaxFaults
    /\ faults' = faults + 1 /\ pc' = "none"
    /\ UNCHANGED <<info, at, per, i, f, prev_i, asked, answer>>

(* dissect_jited_func, one record.                                           *)
(* A mutant: the count of a function includes the first record of the next.  *)
CountToo(from, to) == to - from + 1
Count(from, to) == to - from

DissectRecord ==
    LET begins == Ksyms[f] = Jited[i]
        tooFar == Jited[i - 1] - Ksyms[f - 1] + 1 > info.lens[f - 1]
    IN /\ pc = "dissect" /\ i <= Len(Jited) /\ f <= Len(Ksyms)
       /\ CASE begins /\ ~tooFar ->
                 /\ at' = Append(at, i) /\ per' = Append(per, Count(prev_i, i))
                 /\ f' = f + 1 /\ prev_i' = i /\ i' = i + 1
                 /\ UNCHANGED <<info, pc, asked, answer, faults>>
            [] ~begins /\ Jited[i] > Jited[i - 1] ->
                 i' = i + 1 /\ UNCHANGED <<info, at, per, f, prev_i, pc, asked, answer, faults>>
            [] OTHER ->
                 pc' = "none" /\ UNCHANGED <<info, at, per, i, f, prev_i, asked, answer, faults>>
DissectEnd ==
    /\ pc = "dissect" /\ (i > Len(Jited) \/ f > Len(Ksyms))
    /\ IF f <= Len(Ksyms) THEN pc' = "none" /\ UNCHANGED per
       ELSE pc' = "ready" /\ per' = Append(per, Len(Jited) - prev_i + 1)
    /\ UNCHANGED <<info, at, i, f, prev_i, asked, answer, faults>>

---------------------------------------------------------------------------
(* The loop of both lookups: the record before the first that lies beyond.   *)
Scan(keys, from, upto, x) ==
    LET beyond == {k \in from..upto : keys[k] > x}
    IN IF beyond = {} THEN upto ELSE (CHOOSE k \in beyond : \A j \in beyond : k <= j) - 1

(* bpf_prog_linfo__lfind_addr_func.                                          *)
lfind_addr_func(addr, func, skip) ==
    /\ pc = "ready" /\ asked' = <<"addr", addr, func, skip>>
    /\ answer' =
          IF func > Len(per) THEN None
          ELSE IF skip >= per[func] THEN None
          ELSE LET start == at[func] + skip
               IN IF addr < Jited[start] THEN None
                  ELSE Scan(Jited, start, at[func] + per[func] - 1, addr)
    /\ UNCHANGED <<info, at, per, i, f, prev_i, pc, faults>>

(* bpf_prog_linfo__lfind.                                                    *)
lfind(off, skip) ==
    /\ pc = "ready" /\ asked' = <<"insn", off, 0, skip>>
    /\ answer' =
          IF skip >= Len(info.linfo) THEN None
          ELSE IF off < info.linfo[skip + 1] THEN None
          ELSE Scan(info.linfo, skip + 1, Len(info.linfo), off)
    /\ UNCHANGED <<info, at, per, i, f, prev_i, pc, faults>>

Next ==
    \/ New \/ NoMemory \/ DissectRecord \/ DissectEnd
    \/ \E a \in Addrs, k \in 1..3, s \in Skips : lfind_addr_func(a, k, s)
    \/ \E o \in Offs, s \in Skips : lfind(o, s)

---------------------------------------------------------------------------
TypeOK ==
    /\ pc \in {"new", "dissect", "ready", "none"}
    /\ Len(per) <= Len(at)
    /\ faults \in 0..MaxFaults

(* The records of a function in a well-formed report: those whose address    *)
(* lies in it.                                                               *)
Mine(k) == {j \in DOMAIN Jited : Jited[j] >= Ksyms[k] /\ Jited[j] < Ksyms[k] + info.lens[k]}
Rising(S) == \A a, b \in S : a < b => Jited[a] < Jited[b]
WellFormed ==
    /\ info.enough /\ info.linfo # <<>>
    /\ UNION {Mine(k) : k \in DOMAIN Ksyms} = DOMAIN Jited
    /\ \A k \in DOMAIN Ksyms :
         /\ \E j \in Mine(k) : Jited[j] = Ksyms[k]
         /\ Rising(Mine(k))
         /\ \A j \in DOMAIN Ksyms : k < j =>
              \A a \in Mine(k), b \in Mine(j) : a < b

(* A well-formed report is accepted, and each function gets its records.     *)
IndexRight ==
    WellFormed /\ faults = 0 =>
        /\ pc # "none"
        /\ pc = "ready" => \A k \in DOMAIN Ksyms : Mine(k) = at[k]..(at[k] + per[k] - 1)

(* What is accepted is right for every function but the last, whose records  *)
(* are not looked at any more (bpf_prog_linfo.c:52).                         *)
AcceptedIsRight ==
    pc = "ready" /\ info.enough =>
        /\ Len(at) = Len(Ksyms) /\ Len(per) = Len(Ksyms)
        /\ \A k \in DOMAIN Ksyms : Jited[at[k]] = Ksyms[k]
        /\ \A k \in 1..(Len(Ksyms) - 1) :
             /\ at[k] + per[k] = at[k + 1]
             /\ \A j \in at[k]..(at[k + 1] - 1) : j \in Mine(k)
             /\ Rising(at[k]..(at[k + 1] - 1))
        /\ at[Len(Ksyms)] + per[Len(Ksyms)] = Len(Jited) + 1

(* A lookup by address answers with the nearest record at or before it, of   *)
(* the function asked for.                                                   *)
LookupRight ==
    WellFormed /\ asked # None =>
        IF asked[1] = "addr"
        THEN LET k == asked[3]
                 left == IF k \in DOMAIN Ksyms
                         THEN {j \in Mine(k) : Cardinality({x \in Mine(k) : x < j}) >= asked[4]} ELSE {}
                 below == {j \in left : Jited[j] <= asked[2]}
             IN answer = IF below = {} THEN None ELSE CHOOSE j \in below : \A x \in below : x <= j
        ELSE answer # None =>
                /\ info.linfo[answer] <= asked[2]
                /\ answer < Len(info.linfo) => info.linfo[answer + 1] > asked[2]

LineInfoRight == IndexRight /\ AcceptedIsRight /\ LookupRight
================================================================================
