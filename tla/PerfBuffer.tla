----------------------------- MODULE PerfBuffer ------------------------------
(* The perf buffer of libbpf.c: one ring per online CPU, which programs in   *)
(* the kernel fill through the entries of a perf event array, while          *)
(* perf_buffer__poll reads them.  The kernel writes a record when there is   *)
(* room up to the data_tail it sees, else it counts the loss and puts a LOST *)
(* record before the next one.  It wakes the reader at every record, and a   *)
(* wake-up is forgotten once epoll_wait has reported it.                     *)
EXTENDS Integers, FiniteSets

CONSTANTS
    Cpus,           \* possible CPUs
    Online,         \* those that are online
    Size,           \* units of a ring (mmap_size)
    Lengths,        \* sizes of samples, in units; a LOST record takes one
    MaxSamples,     \* bound: samples per CPU
    MaxFaults,      \* bound: failing system calls, allocations and callbacks
    None

PerfAssumption ==
    /\ Size \in Nat \ {0} /\ Lengths \subseteq Nat \ {0}
    /\ Online \subseteq Cpus /\ None \notin Cpus
    /\ MaxSamples \in Nat /\ MaxFaults \in Nat

VARIABLES
    pc,             \* "none", "new", "freeing", "idle", "poll" or "read"
    step,           \* perf_buffer__new: "open", "update" or "epoll"
    cpu_bufs,       \* CPUs with a buffer
    entries,        \* CPUs with an entry in the map
    polled,         \* CPUs in the epoll set
    cur,            \* the CPU the reader is at, or None
    events,         \* what epoll_wait reported and is not processed yet
    head, tail,     \* data_head and data_tail of each ring
    mem,            \* the units of each ring
    data_head, data_tail,   \* the reader's copies
    ready,          \* CPUs with a wake-up that was not reported
    attempts,       \* samples a program tried to write into the buffer, per CPU
    missed,         \* those the kernel has not reported as lost yet
    got,            \* samples delivered or reported as lost to the callbacks
    stopped,        \* a poll ended before all was read (history)
    faults

pbvars == <<pc, step, cpu_bufs, entries, polled, cur, events, head, tail, mem, data_head,
            data_tail, ready, attempts, missed, got, stopped, faults>>

(* A unit of a record: its number among the CPU's samples, its place in the  *)
(* record, the size of the record and how many samples it stands for.        *)
Unit == [id : 1..MaxSamples, part : Nat, size : Lengths \cup {1}, counts : 1..MaxSamples]
Empty == [n \in 0..(Size - 1) |-> None]
Start(c) == IF cur = c THEN data_tail ELSE tail[c]

TypeOK ==
    /\ pc \in {"none", "new", "freeing", "idle", "poll", "read"}
    /\ step \in {"open", "update", "epoll"}
    /\ cpu_bufs \subseteq Online /\ entries \subseteq Online /\ polled \subseteq Online
    /\ cur \in Cpus \cup {None} /\ events \subseteq cpu_bufs /\ ready \subseteq cpu_bufs
    /\ \A c \in Cpus :
        /\ tail[c] <= head[c] /\ head[c] - tail[c] <= Size
        /\ \A n \in 0..(Size - 1) : mem[c][n] \in Unit \cup {None}
        /\ got[c] <= attempts[c] /\ missed[c] <= attempts[c]
        /\ attempts[c] <= MaxSamples
    /\ data_tail <= data_head
    /\ faults \in 0..MaxFaults

Init ==
    /\ pc = "none" /\ step = "open"
    /\ cpu_bufs = {} /\ entries = {} /\ polled = {}
    /\ cur = None /\ events = {}
    /\ head = [c \in Cpus |-> 0] /\ tail = [c \in Cpus |-> 0]
    /\ mem = [c \in Cpus |-> Empty]
    /\ data_head = 0 /\ data_tail = 0
    /\ ready = {}
    /\ attempts = [c \in Cpus |-> 0]
    /\ missed = [c \in Cpus |-> 0]
    /\ got = [c \in Cpus |-> 0]
    /\ stopped = FALSE
    /\ faults = 0

Fault == faults < MaxFaults /\ faults' = faults + 1
rings == <<head, tail, mem, ready, attempts, missed, got>>
reader == <<events, data_head, data_tail, stopped>>

-----------------------------------------------------------------------------
(* __perf_buffer__new: the CPUs one after the other, those that are not      *)
(* online left out.                                                          *)
New ==
    /\ pc = "none"
    /\ pc' = "new" /\ step' = "open" /\ cur' = None
    /\ UNCHANGED <<cpu_bufs, entries, polled, faults, rings, reader>>

(* perf_buffer__open_cpu_buf: opened, mapped and enabled.                    *)
OpenCpuBuf(c) ==
    /\ pc = "new" /\ step = "open" /\ c \in Online \ cpu_bufs
    /\ \/ cpu_bufs' = cpu_bufs \cup {c} /\ cur' = c /\ step' = "update" /\ UNCHANGED <<pc, faults>>
       \/ Fault /\ pc' = "freeing" /\ UNCHANGED <<cpu_bufs, cur, step>>
    /\ data_head' = head[c] /\ data_tail' = tail[c]
    /\ UNCHANGED <<entries, polled, events, stopped, rings>>

UpdateElem ==
    /\ pc = "new" /\ step = "update"
    /\ \/ entries' = entries \cup {cur} /\ step' = "epoll" /\ UNCHANGED <<pc, cur, faults>>
       \/ Fault /\ pc' = "freeing" /\ cur' = None /\ UNCHANGED <<entries, step>>
    /\ UNCHANGED <<cpu_bufs, polled, rings, reader>>

EpollCtl ==
    /\ pc = "new" /\ step = "epoll"
    /\ \/ polled' = polled \cup {cur} /\ step' = "open" /\ cur' = None /\ UNCHANGED <<pc, faults>>
       \/ Fault /\ pc' = "freeing" /\ cur' = None /\ UNCHANGED <<polled, step>>
    /\ UNCHANGED <<cpu_bufs, entries, rings, reader>>

Created ==
    /\ pc = "new" /\ step = "open" /\ cpu_bufs = Online
    /\ pc' = "idle"
    /\ UNCHANGED <<step, cpu_bufs, entries, polled, cur, faults, rings, reader>>

(* perf_buffer__free, which is also what a failure of __perf_buffer__new     *)
(* does: one buffer after the other leaves the map and is closed.            *)
Free ==
    /\ pc = "idle"
    /\ pc' = "freeing"
    /\ UNCHANGED <<step, cpu_bufs, entries, polled, cur, faults, rings, reader>>
EntryStays(c) == UNCHANGED entries
EntryDeleted(c) == entries' = entries \ {c}
FreeCpuBuf(c) ==
    /\ pc = "freeing" /\ c \in cpu_bufs
    /\ EntryDeleted(c)
    /\ cpu_bufs' = cpu_bufs \ {c}
    /\ polled' = polled \ {c}
    /\ ready' = ready \ {c}
    /\ head' = [head EXCEPT ![c] = 0] /\ tail' = [tail EXCEPT ![c] = 0]
    /\ mem' = [mem EXCEPT ![c] = Empty]
    /\ attempts' = [attempts EXCEPT ![c] = 0] /\ missed' = [missed EXCEPT ![c] = 0]
    /\ got' = [got EXCEPT ![c] = 0]
    /\ UNCHANGED <<pc, step, cur, faults, reader>>
Freed ==
    /\ pc = "freeing" /\ cpu_bufs = {}
    /\ pc' = "none"
    /\ stopped' = FALSE /\ data_head' = 0 /\ data_tail' = 0
    /\ UNCHANGED <<step, cpu_bufs, entries, polled, cur, faults, rings, events>>

-----------------------------------------------------------------------------
(* bpf_perf_event_output, at any moment; without an entry the program fails. *)
Room(c) == Size - (head[c] - tail[c])
Written(c, size, id, counts) == [n \in 0..(Size - 1) |->
    IF \E k \in 0..(size - 1) : (head[c] + k) % Size = n
    THEN [id |-> id, size |-> size, counts |-> counts,
          part |-> CHOOSE k \in 0..(size - 1) : (head[c] + k) % Size = n]
    ELSE mem[c][n]]
Sample(c) == \E size \in Lengths :
    /\ c \in entries /\ attempts[c] < MaxSamples
    /\ attempts' = [attempts EXCEPT ![c] = @ + 1]
    /\ \/ /\ missed[c] = 0 /\ size <= Room(c)
          /\ mem' = [mem EXCEPT ![c] = Written(c, size, attempts[c] + 1, 1)]
          /\ head' = [head EXCEPT ![c] = @ + size]
          /\ ready' = ready \cup {c}
          /\ UNCHANGED missed
       \/ /\ missed[c] > 0 /\ size < Room(c)
          /\ LET first == attempts[c] + 1 - missed[c]
                 lost == Written(c, 1, first, missed[c])
             IN  mem' = [mem EXCEPT ![c] = [n \in 0..(Size - 1) |->
                     IF \E k \in 1..size : (head[c] + k) % Size = n
                     THEN [id |-> attempts[c] + 1, size |-> size, counts |-> 1,
                           part |-> (CHOOSE k \in 1..size : (head[c] + k) % Size = n) - 1]
                     ELSE lost[n]]]
          /\ head' = [head EXCEPT ![c] = @ + size + 1]
          /\ ready' = ready \cup {c}
          /\ missed' = [missed EXCEPT ![c] = 0]
       \/ /\ size + (IF missed[c] > 0 THEN 1 ELSE 0) > Room(c)
          /\ missed' = [missed EXCEPT ![c] = @ + 1]
          /\ UNCHANGED <<mem, head, ready>>
    /\ UNCHANGED <<pc, step, cpu_bufs, entries, polled, cur, tail, got, faults, reader>>

-----------------------------------------------------------------------------
(* perf_buffer__poll *)
EpollWait ==
    /\ pc = "idle" /\ ready \cap polled # {}
    /\ pc' = "poll"
    /\ events' = ready \cap polled
    /\ ready' = ready \ polled
    /\ UNCHANGED <<step, cpu_bufs, entries, polled, cur, head, tail, mem, data_head, data_tail,
                   attempts, missed, got, stopped, faults>>

(* bpf_perf_event_read_simple: data_head is read once, data_tail is written  *)
(* when the records up to there were handed to the callback, or one of them  *)
(* asked to stop; a record that does not fit the copy buffer may fail.       *)
ReadHead(c) ==
    /\ pc = "poll" /\ c \in events
    /\ pc' = "read" /\ cur' = c
    /\ events' = events \ {c}
    /\ data_head' = head[c] /\ data_tail' = tail[c]
    /\ UNCHANGED <<step, cpu_bufs, entries, polled, stopped, faults, rings>>

Ehdr == mem[cur][data_tail % Size]
Wraps == (data_tail % Size) + Ehdr.size > Size
AdvancedOne == data_tail' = data_tail + 1
Advanced == data_tail' = data_tail + Ehdr.size
TailWritten == tail' = [tail EXCEPT ![cur] = data_tail']

Record ==
    /\ pc = "read" /\ data_tail # data_head
    /\ Advanced
    /\ got' = [got EXCEPT ![cur] = @ + Ehdr.counts]
    /\ \/ UNCHANGED <<pc, tail, cur, events, stopped, faults>>
       \/ Fault /\ TailWritten /\ pc' = "idle" /\ cur' = None /\ events' = {} /\ stopped' = TRUE
    /\ UNCHANGED <<step, cpu_bufs, entries, polled, head, mem, data_head, ready, attempts, missed>>
NoCopy ==
    /\ pc = "read" /\ data_tail # data_head /\ Wraps
    /\ Fault
    /\ UNCHANGED data_tail /\ TailWritten
    /\ pc' = "idle" /\ cur' = None /\ events' = {} /\ stopped' = TRUE
    /\ UNCHANGED <<step, cpu_bufs, entries, polled, head, mem, data_head, ready, attempts, missed, got>>
WriteTail ==
    /\ pc = "read" /\ data_tail = data_head
    /\ UNCHANGED <<data_tail, data_head>> /\ TailWritten
    /\ pc' = (IF events = {} THEN "idle" ELSE "poll") /\ cur' = None
    /\ UNCHANGED <<step, cpu_bufs, entries, polled, events, head, mem, ready, attempts, missed, got,
                   stopped, faults>>

Next ==
    \/ New \/ UpdateElem \/ EpollCtl \/ Created \/ Free \/ Freed
    \/ EpollWait \/ Record \/ NoCopy \/ WriteTail
    \/ \E c \in Cpus : OpenCpuBuf(c) \/ FreeCpuBuf(c) \/ Sample(c) \/ ReadHead(c)
Spec == Init /\ [][Next]_pbvars

-----------------------------------------------------------------------------
(* From where the reader is to data_head there are whole records, and they   *)
(* continue what it delivered without a gap that is not counted by a LOST    *)
(* record, although the kernel writes while the reader reads, and a record   *)
(* may go around the end of the ring (libbpf.c:7948).                        *)
StreamWhole == \A c \in cpu_bufs :
    LET from == Start(c)
        at(n) == mem[c][n % Size]
    IN  /\ from < head[c] => at(from).part = 0 /\ at(from).id = got[c] + 1
        /\ \A n \in from..(head[c] - 1) : n + 1 < head[c] =>
            IF at(n).part + 1 < at(n).size
            THEN at(n + 1) = [at(n) EXCEPT !.part = @ + 1]
            ELSE at(n + 1).part = 0 /\ at(n + 1).id = at(n).id + at(n).counts

(* When the reader waits without a wake-up, every ring is empty: no record   *)
(* is left until another one comes.  It is otherwise after a callback that   *)
(* stopped the reading, or a failed allocation: perf_buffer__poll then       *)
(* leaves the other CPUs it was told about (libbpf.c:8361).                  *)
NoneForgotten == pc = "idle" /\ ready = {} /\ ~stopped => \A c \in cpu_bufs : tail[c] = head[c]

(* A buffer that was freed, or that could not be created, leaves nothing in  *)
(* the map and nothing open (libbpf.c:8043).                                 *)
FreedLeavesNothing == pc = "none" => cpu_bufs = {} /\ entries = {} /\ polled = {}

PerfBufferSafe == StreamWhole /\ NoneForgotten /\ FreedLeavesNothing
=============================================================================
