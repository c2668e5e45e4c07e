----------------------------- MODULE TargetAlloc -----------------------------
(* alloc.h and the writers of go_types.h: BPF programs copy strings and      *)
(* slices into an area that the agent mapped into the traced Go program.     *)
(* Every CPU fills its own part of the area from the start to the end and    *)
(* then begins again; the place reached is kept in a per-CPU hash map.  A    *)
(* program runs on one CPU from beginning to end, the CPUs run concurrently. *)
EXTENDS Integers, Sequences, FiniteSets

CONSTANTS
    total_cpus,     \* CPUs are 0..total_cpus-1
    start_addr, end_addr,       \* the area, a multiple of PageSize per CPU
    PageSize, Align,            \* 4096 and 8 bytes
    MaxBufferSize,              \* MAX_BUFFER_SIZE; MIN_BUFFER_SIZE is 1
    StringSize,                 \* sizeof(struct go_string)
    Lengths,                    \* lengths of the strings that probes write
    MaxWrites,                  \* bound: writes of programs in a behaviour
    MaxSlice,                   \* bound: length of the slice
    Width                       \* addresses are unsigned, modulo Width

CPUs == 0..(total_cpus - 1)
partition_size == (end_addr - start_addr) \div total_cpus
PartStart(c) == start_addr + partition_size * c
PartEnd(c) == PartStart(c) + partition_size
GoHeap == 1         \* where the Go program's own array of the slice lies
Item == 1           \* item_size
Locations == 0..(end_addr + PageSize)

(* A page holds what a probe writes at once, and a CPU's part is of pages.   *)
AllocAssumption ==
    /\ total_cpus \in Nat \ {0} /\ PageSize \in Nat \ {0} /\ Align \in Nat \ {0}
    /\ start_addr \in Nat /\ end_addr \in Nat /\ GoHeap < start_addr
    /\ partition_size > 0 /\ PartEnd(total_cpus - 1) <= end_addr
    /\ start_addr % PageSize = 0 /\ partition_size % PageSize = 0
    /\ PageSize % Align = 0 /\ partition_size < Width
    /\ MaxBufferSize \in 1..PageSize /\ StringSize \in Nat /\ Lengths \subseteq Nat
    /\ MaxWrites \in Nat /\ MaxSlice \in Nat /\ Width \in Nat

VARIABLES
    alloc_start,    \* alloc_map[0]: <<>> when there is none, else one value per CPU
    alloc_end,      \* alloc_map[1], likewise
    prog,           \* CPU -> its program: the sizes it still has to write, what
                    \* for, the buffer with the old items, and the block written
    at,             \* CPU -> the step of write_target_data
    start, end,     \* CPU -> the local variables of write_target_data
    memory,         \* address -> number of the write that last stored there
    writes,         \* number of writes
    blocks,         \* CPU -> the blocks written since alloc_map[0] was last deleted
    emptied,        \* CPUs that wrote an empty string into a full part
    slice,          \* the Go slice [array, len, cap] that append_item_to_slice extends
    appended,       \* the write that stored each of its items, 0 if the write failed
    recycled        \* some CPU began again after the slice's array, or the one
                    \* that is about to replace it, was written into the area

tavars == <<alloc_start, alloc_end, prog, at, start, end, memory, writes, blocks,
            emptied, slice, appended, recycled>>

NoProgram == [why |-> "none", sizes |-> <<>>, buffer |-> <<>>, block |-> <<>>]
Steps == {"idle", "start", "store", "end", "restart", "restore", "write",
          "update", "done"}

TypeOK ==
    /\ alloc_start = <<>> \/ alloc_start \in [CPUs -> Locations]
    /\ alloc_end = <<>> \/ alloc_end \in [CPUs -> Locations]
    /\ \A c \in CPUs : prog[c].why \in {"none", "string", "append"}
    /\ at \in [CPUs -> Steps]
    /\ start \in [CPUs -> Locations] /\ end \in [CPUs -> Locations]
    /\ memory \in [Locations -> 0..MaxWrites]
    /\ writes \in 0..MaxWrites
    /\ emptied \subseteq CPUs
    /\ slice.len = Len(appended) /\ slice.len <= slice.cap

Init ==
    /\ alloc_start = <<>>
    /\ alloc_end = <<>>
    /\ prog = [c \in CPUs |-> NoProgram]
    /\ at = [c \in CPUs |-> "idle"]
    /\ start = [c \in CPUs |-> 0]
    /\ end = [c \in CPUs |-> 0]
    /\ memory = [a \in Locations |-> 0]
    /\ writes = 0
    /\ blocks = [c \in CPUs |-> {}]
    /\ emptied = {}
    /\ slice = [array |-> GoHeap, len |-> 0, cap |-> 1]
    /\ appended = <<>>
    /\ recycled = FALSE

-----------------------------------------------------------------------------
(* One CPU's value in a per-CPU hash map: an entry made by another CPU is 0. *)
Here(entry, c) == IF entry = <<>> THEN 0 ELSE entry[c]
Put(entry, c, value) ==
    [d \in CPUs |-> IF d = c THEN value ELSE Here(entry, d)]

bound_number(num, min, max) ==
    IF num < min THEN min ELSE IF num > max THEN max ELSE num

(* The target is moved to the next page when the data would cross into it.   *)
PageAdjusted(addr, size) ==
    LET dist_to_next_page == PageSize - (addr % PageSize)
    IN  IF dist_to_next_page < size THEN addr + dist_to_next_page ELSE addr
RoundUp(addr) == IF addr % Align = 0 THEN addr ELSE addr + Align - (addr % Align)

(* Where the next write of this CPU goes: behind what has been written.      *)
UpdatedWithoutPage(begin, target, size) == RoundUp(begin + size)
UpdatedStart(begin, target, size) == RoundUp(target + size)

(* get_area_end: a CPU computes it from its first start and then keeps it.  *)
AreaEnd(c) ==
    IF Here(alloc_end, c) = 0 THEN start[c] + partition_size ELSE Here(alloc_end, c)

(* The part is too full for size bytes, in unsigned arithmetic.              *)
TooFull(c, size) == (AreaEnd(c) - start[c]) % Width < size

-----------------------------------------------------------------------------
(* write_user_go_string writes the characters and then the string header.    *)
WriteUserGoString(c) ==
    /\ at[c] = "idle"
    /\ \E len \in Lengths :
        prog' = [prog EXCEPT ![c] = [NoProgram EXCEPT
            !.why = "string", !.sizes = <<len, StringSize>>]]
    /\ at' = [at EXCEPT ![c] = "start"]
    /\ UNCHANGED <<alloc_start, alloc_end, start, end, memory, writes, blocks,
                   emptied, slice, appended, recycled>>

(* append_item_to_slice: whether the array has room for one item more.       *)
HasRoomOffByOne == slice.len <= slice.cap
HasRoom == slice.len < slice.cap

(* append_item_to_slice with room in the array: the result of writing the    *)
(* item is ignored, and the descriptor is written after it.                  *)
AppendInPlace(c) ==
    /\ at[c] = "idle"
    /\ HasRoom
    /\ writes < MaxWrites
    /\ writes' = writes + 1
    /\ \E written \in BOOLEAN, described \in BOOLEAN :
        /\ memory' = IF written THEN [memory EXCEPT ![slice.array + slice.len] = writes']
                     ELSE memory
        /\ slice' = IF described THEN [slice EXCEPT !.len = @ + 1] ELSE slice
        /\ appended' = IF described THEN Append(appended, IF written THEN writes' ELSE 0)
                       ELSE appended
    /\ UNCHANGED <<alloc_start, alloc_end, prog, at, start, end, blocks, emptied,
                   recycled>>

(* append_item_to_slice without room: the old items are read into a buffer,  *)
(* and a new array of one item more is to be written.                        *)
OldItems == [i \in 1..slice.len |-> memory[slice.array + i - 1]]
(* (No second program extends the slice meanwhile: its goroutine is inside   *)
(* the probed function.)                                                     *)
AppendGrows(c) ==
    LET size == Item * slice.len + Item
    IN  /\ at[c] = "idle"
        /\ ~HasRoom
        /\ slice.len < MaxSlice
        /\ \A d \in CPUs : prog[d].why # "append"
        /\ size <= MaxBufferSize        \* MAX_SLICE_ARRAY_SIZE is the same number
        /\ prog' = [prog EXCEPT ![c] = [NoProgram EXCEPT
               !.why = "append", !.sizes = <<size>>, !.buffer = OldItems]]
        /\ at' = [at EXCEPT ![c] = "start"]
        /\ UNCHANGED <<alloc_start, alloc_end, start, end, memory, writes, blocks,
                       emptied, slice, appended, recycled>>

-----------------------------------------------------------------------------
(* get_area_start: the lookup, and the store when there was nothing.         *)
GetAreaStart(c) ==
    /\ at[c] \in {"start", "restart"}
    /\ LET known == Here(alloc_start, c)
           again == at[c] = "restart"
       IN IF known = 0
          THEN /\ start' = [start EXCEPT ![c] = PartStart(c)]
               /\ at' = [at EXCEPT ![c] = IF again THEN "restore" ELSE "store"]
          ELSE /\ start' = [start EXCEPT ![c] = known]
               /\ at' = [at EXCEPT ![c] = IF again THEN "write" ELSE "end"]
    /\ UNCHANGED <<alloc_start, alloc_end, prog, end, memory, writes, blocks,
                   emptied, slice, appended, recycled>>
StoreAreaStart(c) ==
    /\ at[c] \in {"store", "restore"}
    /\ alloc_start' = Put(alloc_start, c, start[c])
    /\ at' = [at EXCEPT ![c] = IF @ = "restore" THEN "write" ELSE "end"]
    /\ UNCHANGED <<alloc_end, prog, start, end, memory, writes, blocks, emptied,
                   slice, appended, recycled>>

(* An array of the slice lies in the area: the present one, or the new one   *)
(* of a program that has still to write the descriptor.                      *)
GivesArrayAway ==
    \/ slice.array # GoHeap
    \/ \E d \in CPUs : prog[d].why = "append" /\ at[d] = "done"

(* The test for room.  Without enough the entry alloc_map[0] is deleted, for *)
(* every CPU, and read again.                                                *)
Check(c) ==
    /\ at[c] = "end"
    /\ end' = [end EXCEPT ![c] = AreaEnd(c)]
    /\ alloc_end' = Put(alloc_end, c, AreaEnd(c))
    /\ IF TooFull(c, Head(prog[c].sizes))
       THEN /\ alloc_start' = <<>>
            /\ blocks' = [d \in CPUs |-> {}]
            /\ recycled' = (recycled \/ GivesArrayAway)
            /\ at' = [at EXCEPT ![c] = "restart"]
       ELSE /\ at' = [at EXCEPT ![c] = "write"]
            /\ UNCHANGED <<alloc_start, blocks, recycled>>
    /\ UNCHANGED <<prog, start, memory, writes, emptied, slice, appended>>

(* The program ends without a block: out of bounds, or the write failed.     *)
GivesUp(c) ==
    /\ at' = [at EXCEPT ![c] = "idle"]
    /\ prog' = [prog EXCEPT ![c] = NoProgram]
    /\ start' = [start EXCEPT ![c] = 0]
    /\ end' = [end EXCEPT ![c] = 0]
    /\ UNCHANGED <<memory, writes, blocks, emptied>>

(* bpf_probe_write_user: the buffer and the new item, or a string.           *)
WriteTarget(c) ==
    LET asked == Head(prog[c].sizes)
        size == bound_number(asked, 1, MaxBufferSize)
        target == PageAdjusted(start[c], size)
        w == writes + 1
        content == prog[c].buffer \o [i \in 1..(size - Len(prog[c].buffer)) |-> w]
    IN  /\ at[c] = "write"
        /\ writes < MaxWrites
        /\ \/ GivesUp(c)
           \/ /\ target \in start_addr..end_addr
              /\ writes' = w
              /\ memory' = [a \in Locations |->
                    IF a \in target..(target + size - 1) THEN content[a - target + 1]
                    ELSE memory[a]]
              /\ blocks' = [blocks EXCEPT ![c] = @ \cup
                    {[first |-> target, last |-> target + size - 1, write |-> w]}]
              /\ emptied' = IF asked = 0 /\ start[c] = end[c] THEN emptied \cup {c}
                            ELSE emptied
              /\ start' = [start EXCEPT ![c] = UpdatedStart(start[c], target, size)]
              /\ at' = [at EXCEPT ![c] = "update"]
              /\ prog' = [prog EXCEPT ![c].block = <<target, w>>]
              /\ UNCHANGED end
        /\ UNCHANGED <<alloc_start, alloc_end, slice, appended, recycled>>

(* The place reached is stored, and the caller goes on with the block: it    *)
(* writes the next one, or the descriptor of the slice, which may fail.      *)
UpdateStart(c) ==
    /\ at[c] = "update"
    /\ alloc_start' = Put(alloc_start, c, start[c])
    /\ at' = [at EXCEPT ![c] = IF Len(prog[c].sizes) > 1 THEN "start" ELSE "done"]
    /\ prog' = [prog EXCEPT ![c].sizes = Tail(@)]
    /\ UNCHANGED <<alloc_end, start, end, memory, writes, blocks, emptied, slice,
                   appended, recycled>>
Finish(c) ==
    /\ at[c] = "done"
    /\ \/ UNCHANGED <<slice, appended, recycled>>
       \/ /\ prog[c].why = "append"
          /\ slice' = [array |-> prog[c].block[1], len |-> slice.len + 1, cap |-> slice.cap + 1]
          /\ appended' = Append(appended, prog[c].block[2])
    /\ at' = [at EXCEPT ![c] = "idle"]
    /\ prog' = [prog EXCEPT ![c] = NoProgram]
    /\ start' = [start EXCEPT ![c] = 0]
    /\ end' = [end EXCEPT ![c] = 0]
    /\ UNCHANGED <<alloc_start, alloc_end, memory, writes, blocks, emptied,
                   recycled>>

Next == \E c \in CPUs :
    \/ WriteUserGoString(c) \/ AppendInPlace(c) \/ AppendGrows(c)
    \/ GetAreaStart(c) \/ StoreAreaStart(c) \/ Check(c)
    \/ WriteTarget(c) \/ UpdateStart(c) \/ Finish(c)
Spec == Init /\ [][Next]_tavars

-----------------------------------------------------------------------------
(* A CPU writes into its own part of the area only, although neither the     *)
(* move to the next page nor the end of the part is tested together with the *)
(* size.  The exception is the code's: an empty string counts as 0 in the    *)
(* test for room and as 1 when it is written.                                *)
WithinPart == \A c \in CPUs \ emptied : \A b \in blocks[c] :
    PartStart(c) <= b.first /\ b.last < PartEnd(c)

(* Until a CPU begins again at the start of its part, it overwrites nothing  *)
(* that it has handed to the Go program, whatever the other CPUs delete      *)
(* from the shared map meanwhile.                                            *)
NoOverlap == emptied = {} =>
    \A c \in CPUs : \A b1, b2 \in blocks[c] :
        b1 = b2 \/ b1.last < b2.first \/ b2.last < b1.first

(* The slice holds what was appended to it, in order, until some CPU begins  *)
(* its part again: that gives away the arrays of all, also one whose         *)
(* descriptor is still to be written.  0 stands for the failure that         *)
(* append_item_to_slice ignores.                                             *)
SliceIntact == emptied = {} /\ ~recycled =>
    \A i \in 1..slice.len : appended[i] \in {0, memory[slice.array + i - 1]}
=============================================================================
