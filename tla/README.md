# A TLA+ development of the accumulation repository

The repository (`src/`) collects several Go programs, BPF programs and a copy of
libbpf. Its largest hand-written service is `framework/bandwidth`: it captures packets on the
host's interfaces, sums them per stream, and reports the traffic of every game session to
`creport`, with a memory ring, a spill file and retries in between. Around it stand the pipeline
that archives and uploads the logs of a game, a transaction middleware, eBPF probes and an XDP
load balancer, and under `framework/ebpf/internal/src` the C sources of libbpf, by far the
largest body of code. This development models all of these; what it leaves out is listed in
section 5.

Paths below are relative to `src/framework` (`bandwidth`, `logfile`, `ebpf`) or `src/`.
`libbpf` stands for `framework/ebpf/internal/src`.

## 1. Inventory

| Component | Source | State | Operations | Talks to |
|---|---|---|---|---|
| `RingBuff` | `report/ring_buff.go` | slots, head, tail, size, mutex | Enqueue, Dequeue (locked), Current, Surplus, SurplusCount (not locked) | called by the job |
| `FileStore` | `store/store.go` | file, descriptor position, offset (memory only), mutex | Open, Store, Load (locked), Truncate, Close (not locked when Stop calls them) | called by the job |
| `BandwidthReportJob` | `report/report_job.go` | ring, tmp, dataBuffOnly, isRunnable, mutex, store | Start, Add, loopReport, tryLoadData, Stop | tasks call Add; loopReport calls creport |
| `BandwidthReportTask` | `report/report_task.go` | lastStatTime, cron, isRunnable | Start, Stop, periodFetchBandwidth every 10 s | queries the engine, calls job.Add |
| `BandwidthEngine` | `store/bandwidth_engine.go` | data sorted by CollectTime, RWMutex, capacity | collector run every 5 s, Add, Query, Stop | pulls from collectors |
| `BandwidthCollector` | `collector/collector.go` | stats per ip:port, handle, isRunning | capture loop, addPacketLen, ExportAndClean, Start, Stop | libpcap |
| `bandwidthReportManager` | `report/bandwidth_report_manager.go` | task map, engine, collectors, mutex | StartReport, EndReport, RemoveTask, initialization | game events; starts and stops all of the above |
| log pipeline | `framework/logfile` | source files, copies, archive, age | UploadLog, DoMove, archive, upload, clean, CleanExpiredData | object storage |
| transaction middleware | `middleware/orm/tx.go` | a transaction per call, the connection pool | DoTransaction: begin, body, commit, rollback, recover | database |
| latency probe | `uprobe/funlosttime/bpf/perf.bpf.c` | hash map by process, its elements | entry, return | kernel, user-space reader |
| probe memory | `internal/include/alloc.h`, `go_types.h` | per-CPU start and end, an area of the traced process | write_target_data, write_user_go_string, append_item_to_slice | the traced Go program |
| spans | `go_context.h`, `uprobe.h`, `start_span.h`, `sampling.h` | context and span maps, sampler | start, look up the parent, track, return, stop tracking | entry probes |
| XDP load balancer | `xdp/bpf` | program on the interface, pinned map, two maps | the loader's steps; one action per packet | netlink, bpffs |
| libbpf: objects | `libbpf.c` | ELF sections, maps, programs, types, externs, struct_ops | open, collect, relocate, load, pin, close | kernel, bpffs |
| libbpf: links, perf buffers | `libbpf.c` | descriptors, hooks, pins; rings | attach, pin, detach, destroy; open, poll, free | kernel |
| libbpf: BTF | `btf.c`, `btf_dump.c`, `hashmap.c` | types, canonical map, emit queue, hash chains | parse, query, finalize, load, dedup, dump | objects |
| libbpf: AF_XDP | `xsk.c`, `xsk.h` | umem, sockets, rings shared with the kernel | create, delete; reserve, submit, peek, release | kernel |
| libbpf: netlink | `netlink.c`, `nlattr.c` | sockets with unread answers | set and query XDP programs, dumps, attribute parsing | kernel |
| libbpf: program reports | `libbpf.c`, `bpf_prog_linfo.c` | one block of arrays; an index of lines | get info, convert pointers, look up lines | kernel |
| kimi client, proxy, log, nnet, hardware, repository demo | `bigmodel`, `pkg/`, `middleware` | none of interest | | |

What is hard in them, and what makes each correct:

* **Job, ring and file**: producers, the loop goroutine, Start and Stop interleave, two of them
  without the locks the others use; requests move between three containers; creport fails,
  answers get lost, writes stop half-way, the process dies. Correct means: an accepted request
  is in one of the containers until creport has it, it is not delivered twice while nothing
  fails, the backlog keeps its order, what is on file survives the process, and everything is
  delivered once creport recovers.
* **Engine, task, collector**: half-open time windows must tile the time, every exported record
  is counted once per task unless capacity evicts it, the data stay sorted.
* **Manager**: one running task per session, the engine runs exactly while there are tasks.
* **Log pipeline**: a file that left its place is a copy, in an archive or uploaded, whatever
  fails or crashes; a "success" is one; every call ends.
* **Transaction**: nil means committed; the connection comes back.
* **BPF programs**: they run on several CPUs, share hash maps whose elements are given away again
  while pointers into them live, and each access to a map is a step of its own. A record pairs
  the entry and the return of one call; memory given to the traced program is not overwritten; no
  span outlives its call; a packet goes where the backend's entry says.
* **libbpf objects and handles**: a multi-step construction in which any step may fail, by
  processes that share the BPF file system and may crash; descriptors are numbers that are used
  again. A failed call leaves nothing behind and removes nothing that is not its own.
* **libbpf transformations** (relocations, CO-RE, externs, struct_ops, BTF, dumps): long
  calculations on linked data, whose result must mean what the source meant.
* **Shared rings and netlink dialogues**: two sides that run at the same time, copies of counters
  that are stale, counters that wrap, answers that arrive late.

Every hazard is listed at its line in `PROJECT.json`, with the properties that cover it.

## 2. Modules

A plain module models one part; an abstract module says what a part promises; an `MC...` module is
an instance for TLC; a `..._proofs` module holds the theorems. A module's properties stand at its
end and are stated in comments there. The runs of the ring, the job and the manager use the
modules themselves, with sets of model values given in the `.cfg`.

| Module | Role |
|---|---|
| `BoundedQueue` | abstract: a bounded FIFO queue whose head is peeked, reported and then released |
| `RingBuff`, `RingBuff_proofs` | `ring_buff.go` at the grain of its memory accesses; implements `BoundedQueue` |
| `DiskQueue` | abstract: a FIFO queue on disk |
| `FileStore` | `store.go`: records, descriptor position, offset, the steps of Truncate, failing calls; implements `DiskQueue` |
| `Outbox` | abstract: a request is pending until creport received it |
| `ReportJob`, `ReportJob_proofs` | `report_job.go`, with `FileStore` as a component (INSTANCE) and the ring as a sequence; implements `Outbox` |
| `BandwidthEngine`, `BandwidthEngine_proofs` | `bandwidth_engine.go` with the collectors that feed it and the tasks that read it |
| `ReportManager`, `ReportManager_proofs` | `bandwidth_report_manager.go`: the task map and the life cycle of tasks, engine and collectors |
| `LogPipeline` | `framework/logfile`: one flow, called again, with crashes and ageing |
| `Transaction` | `tx.go`: concurrent callers over a pool |
| `LatencyProbe` | `perf.bpf.c`: threads, processes, elements of the hash map |
| `TargetAlloc` | `alloc.h` and the writers of `go_types.h` on several CPUs |
| `SpanTracker` | spans, contexts and sampling on several CPUs |
| `XdpBalancer` | `xdp_bpf.c` and the loader `main.go`, restarted |
| `ElfObject` | `libbpf.c`: sections, map definitions, BTF of an object and its sanitizing |
| `Externs` | `libbpf.c`: extern variables, their layout, the kernel configuration |
| `StructOps` | `libbpf.c`: tables of functions laid out for the running kernel |
| `ProgramReloc` | `libbpf.c`, `btf.c`: relocation of calls, maps and data; line and function info |
| `CoreReloc` | `libbpf.c`: fields looked up in the kernel's types |
| `ProgramLoad` | `libbpf.c`, `bpf.c`: probes of features, loads, retries, instances |
| `ProgInfo`, `LineInfo` | `libbpf.c`, `bpf_prog_linfo.c`: what the kernel reports of a program |
| `BtfTypes`, `BtfDedup` | `btf.c`: reading, queries, finalizing; deduplication |
| `BtfDump`, `BtfDumpText` | `btf_dump.c`: the order of declarations; the text of one |
| `Multimap`, `HashMap` | abstract: a bag of values per key; `hashmap.c`, which implements it |
| `BpfObject`, `BpfLink` | `libbpf.c`: maps, pins, load and unload by several processes; links and skeletons |
| `PerfBuffer` | `libbpf.c`: perf rings read while the kernel writes |
| `XskSocket`, `XskRing` | `xsk.c`, `xsk.h`: construction of sockets; the rings, with their theorems |
| `Netlink`, `NlAttr` | `netlink.c`, `nlattr.c`: dialogues; the parser of attributes |
| `MCFileStore`, `MCFileStore_proofs` | the three parts that keep data outside the process, side by side: `FileStore`, `LogPipeline`, `Transaction` |
| `MCBandwidthEngine` | the instance of the engine |
| `MCKernel`, `MCKernel_proofs`, `MCKernel_delivery_proofs` | what is shared with the kernel: probes, balancer, maps, links, sockets, rings, netlink |
| `MCLibbpf` | what libbpf computes, with the object files and type graphs to enumerate |

`ReportJob` composes `FileStore`, a ring and `Outbox`; `BandwidthEngine` composes collectors,
engine and tasks; `ReportManager` composes tasks, engine and collectors. The instances
`MCFileStore`, `MCKernel` and `MCLibbpf` put modules side by side that share nothing: `part`
names the module a behaviour belongs to, and the variables of the others stay as they are. That
is a way to run them together and says nothing about an interaction.

### RingBuff

Variables `items, head, tail, size, mutex` are the fields of the Go struct. Enqueue and Dequeue
are split at every store: `EnqueueLock` (the lock and the full test), `EnqueueItem`,
`EnqueueTail`, `EnqueueSize` (the store and the unlock), and likewise `DequeueLock`,
`DequeueHead`, `DequeueSize`. `Current` is two reads (`CurrentSize`, `CurrentItem`) and `Surplus`
is `SurplusSize`, `SurplusHead`, one `SurplusItem` per slot. The consumer is the loop of
`loopReport`: Current, then the call to creport (`ReportOK`, `ReportFails`), then Dequeue only
after success. An argument of Enqueue is a fresh pointer, hence not in the ring already.
Stores are seen in program order (the memory model of amd64, which this repository's builds use;
the Go memory model promises nothing for these unlocked reads).

`Contents` is the refinement mapping to `BoundedQueue`: the value enters the queue with the store
of `size` in Enqueue and leaves it with the store of `head` in Dequeue.

### FileStore

The unit is the record. `recs` is the file, `pos` the position of the descriptor, `offset` the
Go field. A write goes to `pos` (`Written` also covers a write beyond the end, whose gap reads
as `Hole`). A Load seeks to `offset`, so it leaves `pos` where its 4096-byte buffered reader
stopped: `ReadEnd` computes it from `Chunk`, the records in one such read. `Truncate` is one
action per system call (`TruncateRead`, `TruncateZero`, three `TruncateWrite`, `TruncateReset`),
per caller, since Stop calls it without the lock that Load holds. `TruncatePanics` is
`make` with a negative length. A failing call leaves the rest undone; a failing read is taken
for the end of file. `Forget` is the end of the process: only `recs` is left.

A record has two bytes in this tree (`Encode` returns nothing and only the length is written),
so a real chunk has 2048 records.

### ReportJob

`Add` is one action (it holds `job.mutex` from beginning to end): `AddToRing` or `AddToTmp`,
which appends to tmp and at `BufLen` writes tmp to the file. The loop goroutine is
`LoopCheck, LoopCurrent, ReportOK | ReportFails, LoopDequeue`, and `TryFull | TryLoad, (the
Truncate inside Load), TryMove | TryPanics`; tryLoadData holds `job.mutex` (`locked`) between
its actions, so Add waits and Stop does not. `ReportFails` covers an error, a panic of the
client, and an answer that is lost after creport took the request. Start is `StartOpen,
StartLoad, StartFill`. Stop is `StopCalled` (isRunnable), `StopSurplus`, `StopTruncate` (job.tmp
is read and Truncate called), `StopTruncating` (each system call), `StopPanics` (Truncate
with the offset beyond the end of the file: Stop ends there and does not close it) and `StopClose`.
`Restart` ends the process after Stop, after a failed Start, or by a crash, and begins the next one.

The ring is a sequence here: `RingBuff_proofs!Refinement` is the reason why that is sound for
Enqueue, Current and Dequeue, and the invariant of `RingBuff` about Surplus for `StopSurplus`.

Requests are numbered in the order in which Add took the lock, so "in order" and "twice" can be
said. `delivered`, `stored`, `stopHeld`, `stopRaced` and `process` are history variables.

### BandwidthEngine

`AddPacketLen` is the capture loop when a packet opens a new key `ip:port` of `stats` (more
packets of a key only add to its length). A run of the engine's cron job is `CollectorLock` (the
write lock), one `ExportAndClean` per collector in their order, each with its own reading of the
clock, and Add, which evicts, appends, and sorts as the code does: `defer t.data.Sort()` has
evaluated its receiver, so the old slice is sorted, whose array the new one shares unless `append`
moved it. `Stop` takes no lock and sets `t.data` to nil, so Add is one step per access to `t.data`:
`Add` (the receiver of Sort, and the length that decides how much is dropped), `AddCuts`
(`t.data[reduce:]`), `AddKeeps`, `AddAppends`, `AddStores`; `place` is where it is, `reduce` and
`kept` are its local values. Stop clears the words of the slice header one by one, in either order
(`Stop`, `StopEnds`): in between the slice is `torn`, with a length and no array. `CutPanics`,
`AppendPanics` and `SortPanics` are the panics, in a goroutine where nothing recovers; `crossed`
(history) says that Stop cleared a word during the Add. A run of a task's cron job is `PeriodFetch` (clock and
`lastStatTime`), `Query` (the read lock) and `Account`. `Boundary` is what a `sort.Search` may
return: any place with the condition false before it and true from it on.

`TooMany` and `Reduce` are the two numbers of Add. Records are numbered in the order of their
export; `start` and `seen` are history: what a task's windows began with and have counted.

### ReportManager

A caller is a goroutine with a game event: `Call`, then `StartLookup` or `EndLookup` without the
mutex, `TaskStop` (the cron and `isRunnable`), `RemoveLock` and `RemoveOne | RemoveLast |
RemovePanics` (the callback `RemoveTask`), and for StartReport `StartLock` and `StartTask |
InitializationFails`. `LookupCrashes` is the Go runtime, which may end the process when it sees a
map read during a write. EndReport's lookup and its `IsRunnable` are one action: a task stays
in the map until after it was stopped, so a lookup at the moment of the second read finds the same
(unless events of the session overlap, where a replaced task could end up in between).

`engines` and `capturing` are the engines whose cron runs and whose collectors capture, the ones
nobody points to any more included. `overlapped` (history) becomes true when two events of one
session overlap; most of what the manager promises holds only before, see section 5.

### LogPipeline and Transaction

`LogPipeline` is one flow: `source`, the copies in `tmp`, the archive `zip` (what is in it,
whether it was closed, and in `by` the calls whose file it is: the one that made it and those that
took it for upload), `uploaded`. A call whose archive was removed by another one goes on in a file
without a name, which nobody will find (`Filled` leaves `zip` alone, `Arrives`). A call of UploadLog is the check for an archive that exists,
`copyDir` a file at a time, the removal of the sources, and then its goroutine with up to
`Attempts` runs of archive, upload and clean. Every operation may fail; the deferred Close that
replaces an error is modelled as such (the next handler gets a nil `*FileDesc`). Every DoMove
starts a cleaner, which lists what is older than eight hours and later removes by name. `Crash`
ends all calls at any step. `torn` (history) holds the files whose copies were removed and whose
archive was never whole under its name: it could not be closed, was uploaded and removed before it
was closed, or was removed by a call that had uploaded an earlier archive of that name. `reused`
(history) says that some call took an incomplete archive for the archive.

`Transaction`: a caller is between Begin and return, in `fn`, Commit, Rollback or the recover of
the deferred function. Begin may fail (the code does not look), `fn` may return an error or panic,
the answer to Commit may be lost (`unknown`). A transaction holds one of `MaxConns` connections.

### Probes and XDP

`LatencyProbe`: the entry program is one step (it runs alone on its CPU and does one update); the
return program is the lookup, the store through the pointer, the delete, and the output, each a
step, since another CPU may use the element that the delete gave back. `TargetAlloc`: addresses
are numbers modulo `Width`; a program is the steps of `write_target_data` around its map
accesses. `SpanTracker`: one step per access to `go_context_to_sc`, `tracked_spans_by_sc`,
`uprobe_context`; the failed comparison of `stop_tracking_span` is modelled as what it does.
`XdpBalancer`: every step of the loader, which may end at any of them while program and pinned
map stay in the kernel, and one action per packet, with byte orders as `Swapped`.

### Objects, handles and rings of libbpf

`BpfObject` has one object per process. A call is a list of system calls and each is a step; the
kernel's maps, the pins and the descriptors of all processes are the shared state. An unlink may
fail wherever the code calls one, the roll-backs that ignore it included; `stuck` (history) holds
the paths. `BpfLink` keeps
descriptors as numbers from a small set that are given out again, which is what makes a stale one
dangerous; an attachment to a perf event is the opening, the ioctl calls and, when these fail, the
closing (`OpenEvent`, `AttachPerf`, `CloseEvent`). `XskSocket` has one action per step of
`xsk_umem__create` and `xsk_socket__create`, each of which may fail and jump, and one per label at
their ends (`call.at` is the step or the label); the two calls that delete may fail to get the
offsets and then leave the rings mapped. What the code forgets is collected in `lost`. `XskRing` has the shared and the cached counters
modulo `Width`. `PerfBuffer` has units of the ring (so that a record may go around its end),
`data_head` and `data_tail`, and the wake-ups that `epoll_wait` has already reported. `Netlink`
has the kernel prepare the datagrams of a dump one ahead while interfaces change; `NlAttr` chooses
each header when it is read.

### What libbpf computes

`ElfObject`, `Externs`, `StructOps`, `ProgramReloc`, `CoreReloc`, `ProgramLoad`, `BtfTypes`,
`BtfDedup`, `BtfDump`, `BtfDumpText`, `ProgInfo` and `LineInfo` go through the code in its order,
one step per section, symbol, relocation, type or member, over the inputs of `MCLibbpf`, with
allocations and system calls that fail. A name is a model value or a short string, an offset a
small number; a type of BTF is a record of kind, name, own information and references. Where a
result has a meaning outside libbpf the property states that meaning independently of the code:
the rules of C for declarators, order and layout (`BtfDump`, `BtfDumpText`), the line of the
configuration that must decide (`Externs`), the bits of a field in the kernel's structure
(`CoreReloc`), a bisimulation on the type graph (`BtfDedup`).

`HashMap` is the array of chains with its growth; `ImplementsMultimap` maps it to `Multimap`.

## 3. Runs

| Run | Question | Bounds | States |
|---|---|---|---|
| `ring_buff` | is the ring a bounded FIFO queue in spite of the unlocked reads, is a snapshot complete, does everything leave? | 2 slots, 3 values, 2 producers: slots wrap and are reused during each unlocked read; no other bound | 67,960 |
| `storage` | is the file a FIFO queue? is a log file ever nowhere, does each call end? does nil mean committed, does the connection come back? | file: 7 records, batches and loads of 1-2, rewriting after 2; logs: 2 files, 2 calls, 2 attempts, 1 fault or crash, 1 ageing; 3 callers over 1 connection | 152,055 |
| `report_job` | one process without failures | ring and tmp of 2, 7 requests: ring full, tmp full, several batches on file, rewriting after 1 | 30,168 |
| `report_job_faults` | failing opens, partial writes, lost answers; delivery in the end | 5 requests, 2 faults | 114,921 |
| `report_job_crash` | crashes at every step, 3 processes | 6 requests, no rewriting (below) | 9,130 |
| `report_job_stop` | Stop against everything, with failing reads and Truncates, then a second process | 5 requests, 1 fault, reads of 3 records | 3,905,014 |
| `engine` | do the windows of a task tile the time, do the data stay sorted, when does Add panic? | 2 collectors, 5 records, 4 places, 3 seconds, one task | 1,300,734 |
| `report_manager` | do engine and tasks come and go together, is a task ever orphaned, does every call return? | 2 callers, 2 sessions, 3 tasks, with and without devices | 58,300 |
| `kernel` | what is shared with the kernel, other processes and CPUs | below | 1,959,394 |
| `libbpf` | what libbpf makes of an object file | below | 345,176 |
| `job_overwrite`, `job_stop_race` | disagreements with the README of the service, section 6 | 6-8 requests | |

`BufLen = 2` is the smallest size at which a ring is partly full and tmp is non-empty without
being written; more requests than `2 * BufLen + 2` make the file hold more than one batch while
ring and tmp are full.

`engine`: a capacity of 4 is the smallest that tells half of it from one record; one collector
can see four keys, so that a batch is below, at and above half of the capacity and beyond it.
Three seconds give a task two windows and an export between them. `Orphans = FALSE` says that the
engine is stopped after its tasks, as the manager does while events do not overlap; TLC passes
`TRUE` as well (2,267,606 states), and the theorems cover both. `report_manager`: two
callers suffice for every pair of steps to interleave, a third task for a session that is
replaced while the other one ends. `storage`: two files make a directory half copied, two calls
let one find the archive of the other, and a fault hits any step; a third transaction waits while
two meet at the connection.

`kernel` has one instance per module (the `INSTANCE ... WITH` clauses of `MCKernel`):

| `part` | Bounds |
|---|---|
| `latency` | 3 threads in 2 processes, 1 place in the map and 3 elements, 3 calls: an element changes hands while a pointer into it is used |
| `alloc` | 2 CPUs, a part of 2 pages each, 3 writes of 0 or 3 bytes, a slice of up to 3 items: a part fills up and begins again |
| `span` | 2 goroutines, a server and a client probe, 2 nested contexts, 2 tracked spans, 3 spans, samplers by ratio and by parent |
| `xdp` | 2 processes one after the other, 2 places in the map, ports and addresses with their swapped forms |
| `object` | 2 processes with the same object file, which agree on one map and not on the other; 1 pin or unpin call, 1 fault, 1 path that unlink does not remove |
| `link` | 3 programs (perf event, none, raw tracepoint), descriptors up to 7, 3 hooks, 9 calls, 1 fault or crash |
| `xsk` | 2 sockets on one umem, 2 faults: a second failure after the clean-up of the first, or at the delete |
| `ring` | 2 slots, counters modulo 8, batches up to 3, 10 frames: counters wrap |
| `perf` | 3 CPUs of which 2 are online, rings of 4 units, samples of 1 and 3, 3 samples, 1 fault: records go around the end and get lost |
| `netlink` | 2 interfaces, modes skb and hw, a socket that sets and one that dumps, 2 seconds, 2 requests, 1 fault |
| `attr` | streams of 0-17 bytes, `nla_len` below, at and beyond what is left |

`libbpf` likewise (states per part in brackets); the inputs are a few shapes of each and the malformed ones that the code refuses:

| `part` | Inputs |
|---|---|
| `elf` (79,640) | 3 object files with maps in BTF, symbols and data sections; 4 kernels that know more or fewer kinds; 1 fault |
| `externs` (41,061) | variables of every kind of type, symbol tables in another order, configurations of up to 3 lines; 2-bit bytes, 4-byte words |
| `struct_ops` (14,340) | kernels whose members are moved, resized, of another kind or missing; 1 fault |
| `reloc` (22,176) | 2 programs and `.text` with calls into it, an inner map, tables of lines and functions |
| `core` (14,600) | kernels whose `s` or `s___2` has members moved, widened, in an anonymous struct, or left out; largest offset 32 |
| `load` (38,318) | programs that load, are refused, need a target, are too large or have instances; kernels that know less; log of up to 16 units |
| `hash` (1,714) | 3 keys of which two collide until the table grows, 2 values, 4 entries |
| `types` (6,071), `dedup` (28,350), `dump` (67,412), `text` (7,076) | graphs of up to 4 types with cycles; structs of up to 3 members |
| `lines` (7,394), `info` (17,024) | up to 3 functions in any order of addresses; arrays that differ between the two calls |

Two restrictions of the passing runs are real limits of the code and not of the check:

* `Chunk` larger than the number of requests (runs with 8 or 9) says that everything unread fits
  in one buffered read, 2048 records. Beyond it `doWrite` overwrites unread records
  (`job_overwrite`).
* `CleanThreshold` beyond the bound in `report_job_faults` and `report_job_crash` says that the
  file is not rewritten (below 1 MiB read): a failing call or a crash in the middle of Truncate
  loses what was unread, and a completed one drops the loaded requests that are still only in
  memory. With `CleanThreshold = 1` TLC finds `StoredSurvives` violated.

`EarlyAdds = FALSE` in the runs with a restart lets tasks add only after Start has returned; an
Add between Open and the first Load would write at the beginning of the file that is about to be
loaded. `CHECK_DEADLOCK FALSE` is used where the system may really end: Start can fail, Stop
returns and no further process starts, a call has returned, the bound on calls is reached.

### Properties

* `CurrentIsOldest`, `SurplusKeepsResidents` — what the two unlocked readers of the ring see.
* `ImplementsQueue`, `ImplementsDiskQueue`, `ImplementsOutbox`, `ImplementsMultimap` — the
  refinements.
* `DeliveredRight` — no double delivery and no reordering behind the ring while nothing fails.
  (The ring itself can overtake the file, section 6.)
* `MemoryKept` — whatever the file does, a request leaves a process's memory only for the file
  or for creport.
* `StopKeeps` — after Stop the file holds what the job held when Stop was called and creport did
  not receive, unless tryLoadData ran meanwhile or a call failed.
* `StoredSurvives`, `StoredDelivered` — a crash delays what is on file and does not lose it.
* `EveryItemLeaves`, `AllDelivered` — liveness.
* `WindowsTile` — the windows of a task neither overlap nor leave a gap, whatever the order of
  clock readings, locks and exports, and the data on which the binary search of Query relies stay
  sorted; `TaskCatchesUp` — and they reach every record that is not evicted.
* `PanicsOnlyOnLargeBatchOrStop` — a panic of Add needs a batch of more than half of the capacity,
  or a Stop that cleared the slice during this Add.
* `TasksManaged`, `EndReportEnds` — no orphaned task, no task without engine, no call on a nil
  engine, no task left after EndReport, while the events of one session do not overlap; with any
  overlap, the engine is there exactly while there are tasks, and nothing runs behind the
  manager's back. `CallsReturn` — with the callback into the mutex, every call ends.
* `NotLost` — a recent log file that is gone from its place is among the copies, in the archive
  or uploaded; the three exceptions are the code's and are named in the property (the cleaner took
  it, its archive was never whole, or the clean-up of a call that had uploaded an earlier archive
  removed by name the archive of a later call).
  `SuccessMeansUploaded` — "log upload success" is true unless the archive was one that an
  earlier attempt, call or process left unfinished. `CallsEnd` — every UploadLog and every
  transaction ends.
* `NilMeansCommitted` — DoTransaction returns nil for a committed transaction, or after a panic.
* `RecordsPair` — a latency record pairs the entry and the return of one call unless calls of
  the process overlap or two meet in one element; undisturbed calls are all reported; no record
  stays. `TargetIntact` — a CPU writes into its own part of the area, over nothing that was handed
  out. `SpansRight` — nothing is left registered but for three known reasons, a parent has not
  ended, a trace is sampled as a whole.
* `HandlesRight` — processes that load a map by one path share one map with the definition
  their programs were written for; failed loads and sockets leave nothing but what the property
  names (`lost`, `stuck`); a link's descriptor is its own; a umem counts its sockets.
  `FailedCallsUndo` — a failed load takes back its own pins and no other's; a failed `pin_maps`
  leaves none of the pins it made unless unlink fails, and removes no pin but those of the object's
  own maps (`RollsBackOwnMaps`; among them may be pins that were there before, section 6).
* `Delivered` — packets to the address the loader stored (which is not the backend's, section 6),
  frames and records whole and in order, none forgotten
  without a wake-up, an answer to its own request, an attribute inside its stream.
* `ObjectRight`, `ProgramsRight`, `TypesRight`, `LoadEnds` — what libbpf computes means what the
  object file, the configuration and the kernel's types say; the retries of a load end.

The properties of the composed runs are conjunctions of `part = ... => ...`; the modules define
and explain the conjuncts.

Every property has mutants in `PROJECT.json`: the definitions named `...Forgotten`,
`...OffByOne`, `...Without...` and the like stand next to the definition they alter, and are
used nowhere else. Each is a plausible slip in that code, and the run's property catches it.

### Fairness

`FairSpec` of `ReportJob`: weak fairness of Start, of the loop goroutine and of the system calls
of Load, since a goroutine that can run does run; strong fairness of `ReportOK`, which says that
creport, down again and again, accepts a request again and again (the README of the component
speaks of the recovery of creport). Nothing is assumed of Add, of Stop or of failures.
`FairSpec` of `RingBuff`: the same for the consumer, and weak fairness of the steps inside a
started Enqueue, so that the mutex is given back.
`FairSpec` of `BandwidthEngine`: weak fairness of the clock and of the collector job, strong
fairness of the runs of a task, since cron starts them again and again and an RWMutex does not
starve a reader. `FairSpec` of `ReportManager`: strong fairness of each caller, since a goroutine
goes on and a sync.Mutex does not starve who waits for it. Nothing is assumed of events, of
stopping, or of packets.
`storage`: weak fairness of the steps of each UploadLog call (a goroutine that can run does), and
strong fairness of each transaction's caller, since the pool serves who waits for a connection in
turn; nothing is assumed of the success of any operation. `libbpf`: weak fairness of the load of
programs, which is one thread. The `kernel` run states safety only.

## 4. Proofs

About 19,000 obligations in eight modules, all proved.

`RingBuff_proofs` proves for every capacity, every set of requests and every set of producers:

* `Invariance`: `Spec => []IInv`. `CurrentIsOldest` and `TypeOK` are not inductive by
  themselves. `IInv` adds: who holds the mutex is inside Enqueue or Dequeue (`OneHolder`), the
  places from head on hold requests (`NoHole`), where an Enqueue under way stands
  (`EnqueueInvariant`), tail is the place after the newest value (`TailInvariant`), and the
  consumer's view (`ConsumerInvariant`). The proof has one lemma per action. The arithmetic of
  the ring is in four lemmas (`SlotValue`, `NextSlot`, `SlotShift`, `SlotInjective`), which say
  that `(h + k) % Capacity` stays in range, steps by one and is injective in `k < Capacity`.
* `TypeCorrect`, `CurrentCorrect`: consequences.
* `Refinement`: `Spec => ImplementsQueue`. Enqueue appends at its last store, Dequeue removes
  at its store of head, Current peeks, and every other access is a stutter.

* `SurplusComplete`: `Spec => []SurplusKeepsResidents`. `SurplusInvariant` says what the three
  kinds of unlocked reads rely on: once size is read, whatever has stayed in the ring is among the
  first `sSize` values; once head is read, it is in one of the `sSize` slots from `sHead` on,
  copied or still to be copied. The lemma `RingStep` is the reason: a locked operation leaves a
  value that stays in its slot and never moves it away from head.

The assumptions are those of `RingBuff`: `Capacity` is a positive natural number, `None` is not
a request, and the goroutines are distinct. TLC evaluates them and checks `IInv` in `ring_buff`.

`ReportManager_proofs` proves for any sets of callers and sessions and any number of tasks:

* `Invariant`: `Spec => []IInv`. Its core is where a call stands with the task of its session
  (`CallInvariant`): after the lookup the task found is the one in the map, until it is removed
  it is there and no longer runs, and before the new one is stored there is none. That nobody
  else changes this is the lemma `OtherSessions`, used by every action. It is what makes
  `RunningRegistered` inductive, hence no task runs when the last one is removed
  (`RemoveLastStep`), hence `RunningHasEngine` and `NilEngineNeverStopped`. The parts on
  the engine (`EngineIffTasks`, `NoEngineLeft`) hold without the condition on overlapping.
* `NoOrphan`, `RunningTaskHasEngine`, `EngineMatchesTasks`, `EnginesAreManaged`,
  `NilEngineIsNotStopped`: its parts; `ManagedTasks`: all of them, the property `TasksManaged`.
* `EndReportEndsTheTask`: the action property `EndReportEnds`, with the lemma that only
  StartReport goes on after RemoveTask.

Its only assumption is `ManagerAssumption`: `None` is no task, caller or session, and the bound
is a natural number.

`BandwidthEngine_proofs` proves for any collectors, addresses, ports, tasks, capacity and bounds,
when the runs of one task do not overlap (`OneRun`, an assumption of each theorem: a run of
`periodFetchBandwidth` ends within its period; without it the property is false, section 5):

* `Invariance`: `Spec => []IInv`. `EngineInv` says who holds the lock and when the job has
  panicked, `SortInv` that the array is sorted by time even between append and sort, `KnownInv`
  that records are numbered in the order of their export and none is later than the clock,
  `TaskInv` that a task has counted exactly what it saw before `lastStatTime`, and `WindowInv`
  that what a query has returned is the window's records. That a task cannot miss a record is that
  an export under the write lock carries a time not before the `lastStatTime` of any task whose
  query is over; this is the content of the step lemmas of `ExportAndClean` and `Query`.
  `SearchRight` derives the window from the two binary searches, for any result `sort.Search` may
  give; `ReduceRight`, `OldRight`, `AddRight` are about the eviction, `SortedConcat` and
  `SortedSuffix` about sequences.
* `TypeCorrect`, `WindowsTileTime` (`WindowsTile`), `PanicNeedsLargeBatchOrStop`. What Add has
  read and not yet stored is sorted and known like the data (`kept`), whatever Stop clears meanwhile.

`ReportJob_proofs` is about the job with its file, for every `BufLen`, `Chunk` and
`CleanThreshold`, any number of requests, processes and failures. Unconditional are:

* `TypeCorrect` (`TypeOK`) — with `Inv`, which says where Start, the loop, Stop and tryLoadData
  stand with respect to each other (`StartInv`, `LoadInv`, `LoopInv`).
* `KeepsMemory` (`MemoryKept`) — in every step of a process each request in the ring or in tmp
  stays, or reaches the file or creport, whatever fails.

The rest of what the job promises is true of this code only under conditions, which are the
hypotheses of the theorems and nothing else. `FitsInOneRead` (what is unread fits in one buffered
read, 2048 records) keeps the write position at the end of the file; without it `Store` overwrites
records, see the run `job_overwrite`. `~EarlyAdds` says that tasks add after Start returned.
`NothingCut` adds that the prefix of the file is below 1 MiB, so that nothing is cut off;
`Calm`, the same or that no call fails. `~ReadsFail` excludes the read that fails and is taken for
the end of file. The passing runs take constants for which these hold at every state.

* `DeliversRight` (`DeliveredRight`), under `FitsInOneRead`. `CleanInv`: while nothing failed and
  Stop was not called, the file is written at its end, a Load has passed over no more than there
  is, a Truncate rewrites what it keeps (`FileInv`); what waits for the ring - the loaded batch,
  the backlog of the file, tmp - is increasing and disjoint from ring and delivered (`OrderInv`);
  what is in the ring and not yet received is delivered once (`OnceInv`). After Stop only
  `OnceInv` is left, and it suffices, since the loop delivers one more request at most.
* `StopKeepsWhatWasHeld` (`StopKeeps`), under `FitsInOneRead` and `~EarlyAdds`. `StopInv` follows
  what the job held through the snapshot of the ring and every system call of Truncate. That
  tryLoadData raced is in the property (`stopRaced`); the run `job_stop_race` shows why.
* `SurvivesCrashes` (`StoredSurvives`), for any number of crashes, under `NothingCut`,
  `~EarlyAdds`, no Stop and `~ReadsFail`. `CrashInv`: no Truncate is under way, every stored
  request is in the file, which is written at its end.
* `KeepsUntilReceived` (`ImplementsOutbox`, the refinement), for one process that is not stopped,
  under `Calm` and `~ReadsFail`. With `CalmInv` each step accepts a request, marks one received,
  or is a stutter of `Outbox`.

`MCFileStore_proofs` proves, for the module that the run `storage` checks and any values of its
constants:

* `KeepsTheQueue`: `FileStore` implements `DiskQueue` as long as what is unread fits in one
  buffered read. Its invariant is `FileInv`, as for the job.
* `LogsAreKept` (`NotLost`) and `SuccessIsUploaded` (`SuccessMeansUploaded`), for any files and any
  finite set of calls, attempts, failures and ageing, from `LogAssumption`. In `LogsInv`,
  `CallInv` says what a walk has passed and that an archive exists only after a walk; `ZipInv`
  that at most one call writes an archive that nobody has truncated, and that it holds every recent
  file when the copies are removed; `EndInv` what a call that uploads, or has uploaded, can rely
  on. An attempt to prove `NotLost` without its third exception fails for a good reason: with four
  calls, two may upload one archive, and the clean-up of the second removes by name what a third
  has archived since. This is recorded in `torn`; the two calls of the run cannot show it (TLC
  does with 4 calls and one file).
* `NilIsCommitted` (`NilMeansCommitted`). The invariant of `Transaction` adds that a caller that
  has not returned has no result and that only a panic leads to the recover.
* `TypesCorrect`: a step of one part is no step of another (`StorageStep`), so the invariants of
  the parts hold side by side.

The two modules of the run `kernel` prove what the run checks of each part, for any values of the
part's constants under the named assumption of its module (`LatencyAssumption` ...), which
TLC evaluates on the instance. Since the parts share no variable, one step of `MCKernel` is a step
of the part that `part` names, and each part has an inductive invariant of its own.

`MCKernel_proofs`:

* `Measures` (`RecordsPair`): any threads and processes, any number of places and elements of the
  hash map. `LatencyInv`: two calls that are in a process at once are both disturbed (`Alone`); what
  an undisturbed call has done is in its own element (`OwnRecord`), to which no other thread points
  and which no other process keeps (`OwnElement`) - this is what reuse of an element after a
  concurrent deletion could break; a record still stored belongs to a call that will delete it, or
  to one that `unmeasured` names (`StoredBy`).
* `TargetsStay` (`TargetIntact`): any number of CPUs, parts of whole pages, any lengths. `AllocInv`:
  the place a CPU has reached lies in its part and behind all that it wrote (`PartOK`), `alloc_map[1]`
  holds the end of its part once computed (`EndKnown`), the array of the slice lies before the place
  reached by some CPU that is not beginning again (`Safe`, `ArraySafe`), likewise an array that is
  written and not yet installed (`AppendSafe`). The exception of `SliceIntact` for a CPU that begins
  again used to name the installed array only; this invariant was not inductive then, and TLC found
  the behaviour with 5 writes: a CPU writes the new array, another program on it begins the part
  again before the descriptor is stored. `recycled` now covers it (`GivesArrayAway`).

* `SpansKept` (`SpansRight`): any goroutines, probed functions, contexts and chains of contexts, any
  sizes of the maps and any number of spans, where arguments are passed in registers (the key of an
  event is then its goroutine) and a parent-based sampler leaves a child to what its parent did.
  `SpanInv`: spans have numbers of their own (`SpansNumbered`) and the maps hold only spans that were
  started (`OnlySpans`); where each probe is and what it has done so far (`ProbeOK`); no two events
  share a span, each belongs to a call of its goroutine (`OneEvent`), and a tracked span has its event
  and, once it is ending, the goroutine that ends it (`Held`). The core is `ContextExplained`: the span
  registered for a context is tracked with that context and not past its release, or is about to be
  tracked, or the context is known to be left behind. A context is thus given back only to a parent
  that is still to give it back itself; a parent that is ending meanwhile is the second of the reasons
  that `ContextsLeftExplained` names.

`MCKernel_delivery_proofs`: `AllDelivered` (`Delivered`), with the invariants

* `XdpInv`: a process that opened the pinned map opened its own, because Pin fails where a map is
  left; every map holds the backend or nothing. For any number of processes, addresses and ports.
* that of the AF_XDP rings, for every size, batch and width of the counters where the width is a
  multiple of the size and at least twice as large, as with 32-bit counters and sizes that are
  powers of two. A distance is right however often its ends have wrapped (`PlusPlus`, `MinusPlus`,
  `MinusMinus`), a counter and the number it stands for name the same slot (`SlotWraps`), and
  positions less than a lap apart name different ones (`SlotsDiffer`): these lemmas stand in
  `XskRing`, with the invariant `IInv` that says where every descriptor is (`Numbered`, `InSlots`)
  and that the copies of the counters promise no more than there is (`ProdCounts`, `ConsCounts`).
* `PerfInv`: for any ring, any samples and any CPUs, between the tail and the head of a ring there
  are whole records, each continuing the one before it (`Whole`, `Follows`), the reader stands
  before one of them (`Continues`), and what it has not looked at is announced (`Told`). The core is
  that a record written at the head, around the end of the ring or not, leaves the places between
  tail and head alone (`Kept`).
* `NlInv`: for any interfaces, modes, sockets, requests and failures, a call that began on a
  socket without older messages of its number has heard each interface so far and the next datagram
  goes on there (`Streaming`, `GoesOn`), or the answer to its request is all there is
  (`Answered`), or the first message stops it (`Blocked`); what it knows of the interface it asks
  about was so during the call (`InfoOK`). What a call makes of the messages of a datagram is a
  recursive function (`Upto`); the induction over them is a proof by the least message that would
  be wrong, from the well-foundedness of the natural numbers (`Least`).
* `AttrInv`: the index holds the last visited attribute of a type, and the visited ones follow each
  other up to where the parser is.

Only model-checked: liveness (`EveryItemLeaves`, `AllDelivered` of the jobs, `StoredDelivered`,
`TaskCatchesUp`, `CallsReturn`, `CallsEnd`, `LoadEnds`), which is out of the prover's reach; of
`kernel` the types, `HandlesRight` and `FailedCallsUndo`; and what libbpf computes
(`libbpf`), where the modules use RECURSIVE operators on data, of which the provers cannot be told.
The strengthened invariants were model-checked before they were proved, on the instances of the
runs or larger ones (`SurplusInvariant` with 3 slots and 4 values, the logs with 3 calls on one file
and 2 calls on two, the rings with 2 and 3 slots and counters of 2 and 4 laps).

## 5. Abstractions and what is left out

The bandwidth service:

* Request contents, encoding, logging, sleeping times. The decode-error branch of Load cannot be
  reached since `Decode` never fails. The length field of a record (one byte written, two read)
  is not modelled: every length is 0 in this tree.
* `NewBandwidthReportJob` passes the empty string as the path of the file, so that Open fails as
  shipped; the model has a configured path, and `OpenFails`.
* Start is called once per process. (A Start after Stop in one process would find the closed
  file in `fs.store`.)
* The torn read of the slice header of `job.tmp` by Stop, and stale or nil entries at the end of
  a racing Surplus.
* In `StartFill` and `TryMove` several Enqueue calls are one action: the loop goroutine is the
  caller or not yet started, and Add waits for the mutex; a Stop that sees the middle of it is
  covered by `stopRaced`.
* The engine's slice header is two words, the address and the length with the capacity; a panic of
  the deferred Sort is put at the beginning of its Add (`SortPanics`); the runs of the collector job
  that wait for the lock are one.
* The engine: lengths of packets, hence the int32 totals and their overflow, and the filter of
  ports; the clock is in seconds and does not step back (otherwise the data are not sorted); a
  run of periodFetchBandwidth ends within its period of 10 s (`Runs = {1}`: with `Runs = {1, 2}`
  TLC finds records counted twice, since both runs read the same `lastStatTime`). What is evicted
  before a task reads it is lost by design.
* The manager: two overlapping events of one session can orphan a task, stop it twice or stop a
  nil engine. Whether events of a session can overlap is up to the event source, which is not
  in this tree, so the properties say "while they do not". A host without a matching device
  gets a new engine with every StartReport, and the former ones keep running.
* A panic in RemoveTask or in the clean-up of initialization ends the process or is recovered by
  the caller of the use case, which is not in this tree: both are modelled.
* The race of `collector.Stop` with the capture loop (a closed libpcap handle).

Log pipeline and transactions: one flow; its DoMove calls come one after another (they run in the
caller's goroutine); at most two periods of ageing (after 24 hours the archive would leave the
copies out). In this tree `createUploadClient` returns nil (`upload.go:80`); both values of
`client` are considered. What the body of a transaction does is a commit, an error or a panic.

BPF programs: BPF runs to completion on its CPU; the map operations are those of the kernel
(external); the entry probes that would call `start_span.h` are not in this tree, and the model
calls the helpers in the order in which they use each other's results. Headers and checksums of packets are left
out.

libbpf: this copy is not linked by the Go programs of the repository and is modelled as it
stands. The kernel is external throughout, modelled from how the code uses it. Inputs that no
compiler emits are refused where the code refuses them and otherwise left out: a relocation whose
`insn_idx` lies outside the program (`libbpf.c:2961`), a negative index in a CO-RE access string,
packed structs with bitfields and unnamed bitfields (`btf_dump.c:805`), an array of a struct that
is only reachable through a pointer to it (`btf_dump.c:205`, of which only a forward declaration
is written, so that the text does not compile).

Not modelled: `bpf_prog_load_xattr`, iteration and accessors, the tables of section names,
`libbpf_probes.c` (one system call per feature), `parse_cpu_mask`, `btf__parse_elf`,
`btf__get_from_id`, `libbpf_load_vmlinux_btf`, `find_btf_info`, and the wrappers of `bpf.c`, which
are reading of files and single system calls; `libbpf_errno.c` and `str_error.c`; the generated
helper definitions and the kernel's headers (`bpf_helper_defs.h`, `uapi/linux/*`,
`bpf_tracing.h`), which hold no behaviour and are a third of all lines. Of the Go code: the kimi
client (mostly generated; a retry loop and a line reader remain), the reverse proxy, the log,
network and hardware helpers, the SQL builder `base_repo.go`, and the Go loaders of the uprobes,
which attach and print.

## 6. Disagreements found

Shown by a run:

* `job_overwrite` — `store.go:57` writes at the position the last Load left; a Store then
  overwrites records that were not loaded.
* `job_stop_race` — `report_job.go:66` truncates without the locks; requests between file and
  ring are lost.

Met while modelling; the model does what the code does, and the properties name the exception
where it matters:

* `report_job.go:25` and `:119` say that `dataBuffOnly` means that only the ring has data; `:144`
  sets it while the file holds more. Nothing is lost, but new requests overtake the ones on file.
* Log pipeline: a second UploadLog of a flow takes an archive that is still being written, uploads
  and removes it (`archive.go:68`, the comment at `move.go:50`); the deferred `err = zw.Close()`
  replaces errors (`archive.go:83`), the next handler gets a nil `*FileDesc`; copies are removed
  before the archive is closed; `createIfNeeded` can truncate another goroutine's archive
  (`archive.go:192`); `CleanExpiredData` removes by name what is new again (`move.go:218`); old
  files are removed with the sources without an upload.
* `tx.go`: the error of Begin is not looked at; after a panic the caller gets nil.
* `go_context.h:102`: the branch for a parent with another context is never taken, since
  `bpf_probe_read_user` cannot read the values. `alloc.h:84`: an empty string counts as 0 in the
  test for room and as 1 when it is written.
* `store/bandwidth_engine.go:40` sets `t.data` to nil without the lock that `Add` holds (`Stop`): between
  the two reads at 92 and 97 the bound of `t.data[reduce:]` is beyond the length for a batch of any
  size, and a header read half-way has a length without an array. Nothing recovers in that goroutine,
  so the service ends. `PanicsOnlyOnLargeBatchOrStop` excepts it by name.
* `perf.bpf.c:26`: entry times are kept per process id, so a second thread or a nested call
  overwrites the first entry and its return is paired with the wrong one (`disturbed`).
* XDP: `ipToInt` (`main.go:71`) makes a number with the first octet highest, which `xdp_bpf.c:94`
  prints as such, and `xdp_bpf.c:81` and `:111` store it as it is in `ip->daddr`, which is in network
  byte order: on a little-endian host packets go to the address with its octets reversed. `OnWire`
  does what the code does, and `TxToStoredAddress` says no more than that.
* XDP: a restarted loader replaces the program before it fails at Pin, so the interface is left
  with a program whose map is empty; the entry for replies holds the backend, its port in the
  other byte order.
* `libbpf.c`: `bpf_object__reuse_map` leaves `pin_fd` open (3506); the roll-back of `pin_maps`
  unpins maps pinned before the call (6067), the roll-backs ignore an unlink that fails, so that a
  failed call leaves pins (5660, 6067, 6201), and pinning is allowed on an object whose load
  failed (6034); a struct_ops link keeps the number of a descriptor that the object closes, and a
  detach then deletes an element of whatever map has the number (7940); a second `attach_skeleton` forgets the first links (8880); a callback that stops
  `perf_buffer__poll` leaves the other CPUs until their next record (8361); a zero-size extern
  ends the collection early and is only caught by the mapping of 0 bytes (2824); a missing
  configuration file fails the load even if all externs are weak; `kern_vdata` is never freed
  (6208); log levels above 7 return whatever `errno` holds (5228); a program of
  exactly `BPF_MAXINSNS` instructions, which is allowed, is called too large whatever is wrong with
  it (5238); counts that differ between the
  two calls of `get_prog_info_linear` are only warned about (8553); the comment at 4405 says
  "enums will be assumed unsigned" and the code takes them as signed.
* `xsk.c`: the reference to the umem is lost when `socket()` fails (619); `munmap` gets MAP_FAILED
  and the fill ring stays mapped (311); a program attached by a failing call stays (579); the rings of a
  umem or a socket stay mapped when the offsets cannot be had at its delete (764, 792).
* `netlink.c:362`: requests are numbered by the second, so that a dump can take the answers an
  earlier one of the same second left unread; interface 0 mixes interfaces (248).
* `hashmap.h`: with HASHMAP_APPEND the order of a chain is reversed by every growth, against the
  comment. `btf.c:1308`: a deduplication that fails midway leaves the types partly rewritten.
  `btf_dump.c`: a call that fails leaves types ORDERING. `bpf_prog_linfo.c:52`: the addresses of
  the last function's records are not looked at.

## 7. Plan

1. (done) Ring, file, job; abstract specifications; proof of the ring.
2. (done) Engine with collector and task, proved; manager, proved.
3. (done) Log pipeline, transactions, probes, load balancer; libbpf.
4. (done) Proofs of the job, of the file store, of the log pipeline, of `Surplus` and of the
   AF_XDP rings.
5. (done) Proofs of the probes, the spans, the load balancer, the perf rings, netlink and the
   attributes.
6. Proofs: `HashMap` implements `Multimap`; `HandlesRight` of `BpfObject`, `BpfLink` and `XskSocket`.
7. Model: composition of `BpfObject` with `BpfLink` (descriptors of one process), the kimi client.
