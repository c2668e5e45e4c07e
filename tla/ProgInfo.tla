------------------------------- MODULE ProgInfo -------------------------------
(* libbpf.c: bpf_program__get_prog_info_linear asks the kernel for the sizes *)
(* of the arrays that describe a program, allocates one block for those the  *)
(* caller chose, and asks again to have it filled.  The block can be stored  *)
(* and read back at another address: bpil_addr_to_offs and bpil_offs_to_addr *)
(* turn its pointers into offsets and back.                                  *)
EXTENDS Integers, Sequences, FiniteSets

CONSTANTS
    NArrays,        \* BPF_PROG_INFO_LAST_ARRAY
    Kernels,        \* what the kernel has: sequences of [count, size]
    Knowns,         \* the arrays a kernel knows: subsets of 1..NArrays
    Bases,          \* addresses the allocator returns
    Align,          \* sizeof(__u64)
    MaxFaults,      \* bound: failing calls and allocations
    MaxMoves,       \* bound: times the block is stored and read back
    None

VARIABLES
    kernel, known,  \* the kernel's arrays now, and those it knows
    want,           \* arrays: the caller's bits, then those included
    info,           \* the sizes of the first call, or None
    linear,         \* info_linear->info: [count, size, ptr] by array, or None
    base,           \* address of info_linear->data
    mem,            \* what the kernel wrote: address -> <<array, byte>>
    data_len,
    form,           \* "addr" or "offs": what the pointers hold now
    pc, err, faults, moves

infovars == <<kernel, known, want, info, linear, base, mem, data_len, form, pc, err, faults, moves>>

EFAULT == -14  ENOMEM == -12

RoundUp(n) == ((n + Align - 1) \div Align) * Align
Bytes(a) == a.count * a.size

(* The bytes of the arrays in S that come before array i.                    *)
Before(arrs, S, i) ==
    LET sum[k \in 0..NArrays] ==
            IF k = 0 THEN 0 ELSE sum[k - 1] + IF k \in S /\ k < i THEN Bytes(arrs[k]) ELSE 0
    IN sum[NArrays]

Init ==
    /\ kernel \in Kernels /\ known \in Knowns
    /\ want \in SUBSET (1..NArrays)
    /\ info = None /\ linear = None /\ base = 0 /\ mem = <<>> /\ data_len = 0
    /\ form = "addr" /\ pc = "ask" /\ err = 0 /\ faults = 0 /\ moves = 0

Fail(e) ==
    /\ faults < MaxFaults /\ faults' = faults + 1
    /\ err' = e /\ pc' = "done" /\ linear' = None
    /\ UNCHANGED <<kernel, known, want, info, base, mem, data_len, form, moves>>

(* External: the program's view changes, as when kernel addresses are hidden *)
(* between the two calls.                                                    *)
KernelChanges ==
    /\ pc = "fill"
    /\ \E k \in Kernels : k # kernel /\ kernel' = k
    /\ pc' = "fill2"
    /\ UNCHANGED <<known, want, info, linear, base, mem, data_len, form, err, faults, moves>>

(* Steps 1 and 2: the dimensions; arrays an old kernel lacks are dropped.    *)
GetDimensions ==
    /\ pc = "ask"
    /\ info' = kernel /\ want' = want \cap known
    /\ pc' = "alloc"
    /\ UNCHANGED <<kernel, known, linear, base, mem, data_len, form, err, faults, moves>>

(* Steps 3 and 4: one block, the arrays one behind the other.                *)
(* A mutant: every array begins where the block begins.                      *)
PlaceFirst(b, i) == b
Place(b, i) == b + Before(info, want, i)

Allocate ==
    /\ pc = "alloc"
    /\ \E b \in Bases :
          /\ base' = b
          /\ linear' = [i \in 1..NArrays |->
                IF i \in want THEN [count |-> info[i].count, size |-> info[i].size, ptr |-> Place(b, i)]
                ELSE [count |-> 0, size |-> 0, ptr |-> 0]]
    /\ data_len' = RoundUp(Before(info, want, NArrays + 1))
    /\ pc' = "fill"
    /\ UNCHANGED <<kernel, known, want, info, mem, form, err, faults, moves>>

(* Step 5, the kernel's side: it writes no more than it was given room for,  *)
(* and reports what it has.                                                  *)
Given(i) == IF linear[i].count < kernel[i].count THEN linear[i].count ELSE kernel[i].count
Wrote(i) == linear[i].ptr..(linear[i].ptr + Given(i) * kernel[i].size - 1)
Fill ==
    /\ pc \in {"fill", "fill2"}
    /\ mem' = [a \in UNION {Wrote(i) : i \in want} |->
                  LET i == CHOOSE x \in want : a \in Wrote(x) IN <<i, a - linear[i].ptr>>]
    /\ linear' = [i \in 1..NArrays |->
          IF i \in want THEN [linear[i] EXCEPT !.count = kernel[i].count, !.size = kernel[i].size]
          ELSE linear[i]]
    /\ pc' = "ready"
    /\ UNCHANGED <<kernel, known, want, info, base, data_len, form, err, faults, moves>>

CallFails == pc \in {"ask", "fill", "fill2"} /\ Fail(EFAULT)
NoMemory == pc = "alloc" /\ Fail(ENOMEM)

(* bpf_program__bpil_addr_to_offs and _offs_to_addr, called in turns.        *)
Shift(by) == linear' = [i \in 1..NArrays |-> IF i \in want THEN [linear[i] EXCEPT !.ptr = @ + by] ELSE linear[i]]
bpil_addr_to_offs ==
    /\ pc = "ready" /\ form = "addr" /\ Shift(-base) /\ form' = "offs"
    /\ UNCHANGED <<kernel, known, want, info, base, mem, data_len, pc, err, faults, moves>>
bpil_offs_to_addr ==
    /\ pc = "ready" /\ form = "offs" /\ Shift(base) /\ form' = "addr"
    /\ UNCHANGED <<kernel, known, want, info, base, mem, data_len, pc, err, faults, moves>>

(* External: a caller stores the block and reads it at another address.      *)
Move ==
    /\ pc = "ready" /\ form = "offs" /\ moves < MaxMoves
    /\ \E b \in Bases \ {base} :
          /\ base' = b
          /\ mem' = [a \in {x + b - base : x \in DOMAIN mem} |-> mem[a - b + base]]
    /\ moves' = moves + 1
    /\ UNCHANGED <<kernel, known, want, info, linear, data_len, form, pc, err, faults>>

Next ==
    \/ GetDimensions \/ Allocate \/ KernelChanges \/ Fill \/ CallFails \/ NoMemory
    \/ bpil_addr_to_offs \/ bpil_offs_to_addr \/ Move

---------------------------------------------------------------------------
TypeOK ==
    /\ pc \in {"ask", "alloc", "fill", "fill2", "ready", "done"} /\ form \in {"addr", "offs"}
    /\ want \subseteq 1..NArrays
    /\ err # 0 <=> pc = "done"

(* Nothing is written outside the block, wherever it lies.                   *)
InsideBlock == pc = "ready" => DOMAIN mem \subseteq base..(base + data_len - 1)

(* As long as the program did not change between the calls, each array that  *)
(* was included is read whole through its pointer, also after the block was  *)
(* moved; the others have no pointer.                                        *)
ReadBack ==
    pc = "ready" /\ form = "addr" =>
        /\ \A i \in want : kernel = info =>
              /\ linear[i].count = kernel[i].count /\ linear[i].size = kernel[i].size
              /\ \A k \in 0..(Bytes(linear[i]) - 1) : mem[linear[i].ptr + k] = <<i, k>>
        /\ \A i \in 1..NArrays \ want : linear[i].ptr = 0

InfoRight == InsideBlock /\ ReadBack
================================================================================
