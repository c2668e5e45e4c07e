-------------------------- MODULE BandwidthEngine --------------------------
(* store/bandwidth_engine.go with its producers, the collectors of           *)
(* collector/collector.go, and its readers, the tasks of                     *)
(* report/report_task.go: packets are summed per stream, exported to the     *)
(* engine by a cron job, and read by each task in windows of time.           *)
(*                                                                           *)
(* Clocks are whole seconds and do not step back.  The length of a packet is *)
(* left out: a stream that sent something has a positive length, and the     *)
(* int32 totals do not overflow.                                             *)
(*                                                                           *)
(* Stop writes t.data without the lock, so Add is one step for every access  *)
(* to t.data.  A slice is an address and a length, which Stop clears one     *)
(* after the other (the capacity goes with the length).                      *)
EXTENDS Integers, Sequences, FiniteSets, SequencesExt

CONSTANTS NCollectors, \* len(fileEngine.collectors)
          Ips,         \* local addresses of the captured packets
          Ports,       \* how many ports of an ip a collector may see
          Capacity,    \* fileEngine.capacity
          Tasks,
          Wants,       \* the addresses of the session of a task (StreamIp)
          Starts,      \* session.Start
          Runs,        \* runs of one task's cron job that may overlap
          Orphans,     \* whether a task may outlive its engine (see ReportManager)
          MaxClock,    \* bound: seconds
          MaxRecords   \* bound: records exported

Collectors == 1 .. NCollectors

ASSUME EngineAssumption ==
    /\ NCollectors \in Nat
    /\ Ports \in [Collectors \X Ips -> Nat]
    /\ Capacity \in Nat \ {0}
    /\ Wants \in [Tasks -> SUBSET Ips] /\ Starts \subseteq 0 .. MaxClock
    /\ Orphans \in BOOLEAN
    /\ MaxClock \in Nat /\ MaxRecords \in Nat

VARIABLES
    clock,       \* time.Now().Unix()
    stats,       \* the number of keys ip:port in the stats maps of the collectors
    place,       \* where the run of collector() is that holds the write lock
    done, batch, \* inside collector(): collectors and records exported so far
    reduce, kept,\* inside Add: its reduce, and the slice it is about to store
    data,        \* fileEngine.data
    torn,        \* data has its length and no address any more
    words,       \* the words of data that Stop has still to clear
    crossed,     \* history: Stop cleared words of data during this Add
    made,        \* history: the number of records exported
    engine,      \* whether the engine's cron runs, was stopped, or has panicked
    active,      \* the tasks whose cron runs
    last,        \* per task: lastStatTime
    at,          \* per run: its place in periodFetchBandwidth
    from, now,   \* per run: the window it asks for
    got,         \* per run: what Query returned
    start, seen  \* history, per task: session.Start, the records it accounted for

addVars == <<place, done, batch, reduce, kept>>
dataVars == <<data, torn, words, crossed>>
engineVars == <<addVars, dataVars, made, engine>>
taskVars == <<active, last, start, seen>>
runVars == <<at, from, now, got>>
vars == <<clock, stats, engineVars, taskVars, runVars>>

Record == [id : 1 .. MaxRecords, ip : Ips, time : 0 .. MaxClock]
Sorted(s) == \A i, j \in DOMAIN s : i < j => s[i].time <= s[j].time
Greater(a, b) == IF a < b THEN b ELSE a

Words == {"address", "length"}
(* About to read t.data for the cut, to store the cut, to read it for append *)
(* and to store what append gave: the accesses of Add behind its first.      *)
InAdd == {"cut", "keep", "append", "store"}
locked == place # "idle"

TypeOK ==
    /\ clock \in 0 .. MaxClock
    /\ stats \in [Collectors \X Ips -> Nat]
    /\ done \in 0 .. NCollectors
    /\ place \in {"idle", "export"} \cup InAdd
    /\ batch \in Seq(Record) /\ kept \in Seq(Record)
    /\ reduce \in 0 .. Capacity
    /\ data \in Seq(Record) /\ Len(data) <= Capacity
    /\ torn \in BOOLEAN /\ crossed \in BOOLEAN
    /\ words \in SUBSET Words
    /\ made \in 0 .. MaxRecords
    /\ engine \in {"running", "stopped", "panicked"}
    /\ active \in SUBSET Tasks
    /\ last \in [Tasks -> 0 .. MaxClock]
    /\ at \in [Tasks \X Runs -> {"idle", "query", "account"}]
    /\ from \in [Tasks \X Runs -> 0 .. MaxClock]
    /\ now \in [Tasks \X Runs -> 0 .. MaxClock]
    /\ got \in [Tasks \X Runs -> SUBSET (1 .. MaxRecords)]
    /\ start \in [Tasks -> 0 .. MaxClock]
    /\ seen \in [Tasks -> SUBSET (1 .. MaxRecords)]

Init ==
    /\ clock = 1
    /\ stats = [k \in Collectors \X Ips |-> 0]
    /\ place = "idle" /\ done = 0 /\ batch = <<>>
    /\ reduce = 0 /\ kept = <<>>
    /\ data = <<>> /\ torn = FALSE /\ words = {} /\ crossed = FALSE /\ made = 0
    /\ engine = "running"
    /\ active = {}
    /\ last = [t \in Tasks |-> 0] /\ start = [t \in Tasks |-> 0]
    /\ seen = [t \in Tasks |-> {}]
    /\ at = [r \in Tasks \X Runs |-> "idle"]
    /\ from = [r \in Tasks \X Runs |-> 0] /\ now = [r \in Tasks \X Runs |-> 0]
    /\ got = [r \in Tasks \X Runs |-> {}]
-----------------------------------------------------------------------------
Alive == engine # "panicked"

Tick ==
    /\ Alive /\ clock < MaxClock
    /\ clock' = clock + 1
    /\ UNCHANGED <<stats, engineVars, taskVars, runVars>>

(* The capture loop gets a packet of a port that is not in stats; the other  *)
(* packets only add to a length.                                             *)
AddPacketLen(c, ip) ==
    /\ engine = "running"
    /\ stats[<<c, ip>>] < Ports[<<c, ip>>]
    /\ made + FoldFunction(LAMBDA n, m : n + m, 0, stats) < MaxRecords
    /\ stats' = [stats EXCEPT ![<<c, ip>>] = @ + 1]
    /\ UNCHANGED <<clock, engineVars, taskVars, runVars>>
-----------------------------------------------------------------------------
(* A run of collector(): the write lock, every collector in turn, Add.  Runs  *)
(* that cron has begun may still wait for the lock when cron is stopped.     *)
CollectorLock ==
    /\ Alive /\ ~locked
    /\ place' = "export" /\ done' = 0
    /\ UNCHANGED <<clock, stats, batch, reduce, kept, dataVars, made, engine,
                   taskVars, runVars>>

(* One record for every key, in some order of the addresses. *)
ExportAndClean(c) ==
    /\ Alive /\ place = "export" /\ c = done + 1
    /\ \E ips \in SeqOf(Ips, MaxRecords - made) :
          /\ \A x \in Ips : Cardinality({i \in DOMAIN ips : ips[i] = x}) = stats[<<c, x>>]
          /\ batch' = batch \o [i \in DOMAIN ips |->
                          [id |-> made + i, ip |-> ips[i], time |-> clock]]
          /\ made' = made + Len(ips)
    /\ stats' = [k \in Collectors \X Ips |-> IF k[1] = c THEN 0 ELSE stats[k]]
    /\ done' = c
    /\ UNCHANGED <<clock, place, reduce, kept, dataVars, engine, taskVars, runVars>>

(* How many old records Add drops: what is too much, but not less than half  *)
(* of the capacity.                                                          *)
TooManyOffByOne == Len(batch) + Len(data) - Capacity - 1
TooMany == Len(batch) + Len(data) - Capacity

ReduceEverything == IF TooMany <= 0 THEN 0 ELSE Capacity
Reduce == IF TooMany <= 0 THEN 0 ELSE Greater(TooMany, Capacity \div 2)

(* What Sort leaves of s.  Records of one second are not told apart by any   *)
(* window, so one order among them stands for all.                           *)
Earlier(x, y) == x.time < y.time \/ (x.time = y.time /\ x.id < y.id)
Sortings(s) ==
    {r \in [DOMAIN s -> ToSet(s)] : \A i, j \in DOMAIN s : i < j => Earlier(r[i], r[j])}

(* Nothing recovers in the goroutine of the cron job: the process ends.      *)
Panics ==
    /\ engine' = "panicked"
    /\ UNCHANGED <<clock, stats, addVars, dataVars, made, taskVars, runVars>>

(* To the next access to t.data, without a write of it. *)
AddGoes(p, r, k) ==
    /\ place' = p /\ reduce' = r /\ kept' = k
    /\ UNCHANGED <<clock, stats, done, batch, data, torn, words, made, engine,
                   taskVars, runVars>>

(* t.data = k, a whole slice over whatever Stop has made of the old one. *)
Store(k) ==
    /\ data' = k /\ torn' = FALSE
    /\ UNCHANGED <<clock, stats, done, words, made, engine, taskVars, runVars>>

(* Nothing was exported: Add is not called. *)
NothingExported ==
    /\ Alive /\ place = "export" /\ done = NCollectors /\ batch = <<>>
    /\ place' = "idle"
    /\ UNCHANGED <<clock, stats, done, batch, reduce, kept, dataVars, made, engine,
                   taskVars, runVars>>

(* Add up to its reduce: the defer evaluates t.data, the length is read.  A   *)
(* length without its array makes the deferred Sort panic in the end, which  *)
(* is put here.                                                              *)
Add ==
    /\ Alive /\ place = "export" /\ done = NCollectors /\ batch # <<>>
    /\ crossed' = torn
    /\ IF Len(batch) > Capacity
       THEN AddGoes("store", 0, SubSeq(batch, Len(batch) - Capacity + 1, Len(batch)))
       ELSE AddGoes(IF Reduce > 0 THEN "cut" ELSE "append", Reduce, <<>>)

SortPanics ==
    /\ Alive /\ place = "export" /\ done = NCollectors /\ batch # <<>>
    /\ torn /\ Len(data) > 1
    /\ crossed' = TRUE /\ engine' = "panicked"
    /\ UNCHANGED <<clock, stats, addVars, data, torn, words, made, taskVars, runVars>>

(* t.data[reduce:] reads t.data again.  What the deferred Sort will do to the *)
(* old slice shows in the new one, with which it shares its array unless     *)
(* append has to move it.                                                    *)
AddCuts ==
    /\ Alive /\ place = "cut" /\ ~torn /\ reduce <= Len(data)
    /\ \E old \in {data} \cup Sortings(data) :
          AddGoes("keep", reduce, SubSeq(old, reduce + 1, Len(old)))
    /\ UNCHANGED crossed

(* The bound is beyond the length, or there is no array behind it.           *)
CutPanics ==
    /\ Alive /\ place = "cut" /\ (torn \/ reduce > Len(data))
    /\ Panics

AddKeeps ==
    /\ Alive /\ place = "keep"
    /\ Store(kept)
    /\ place' = "append" /\ kept' = <<>>
    /\ UNCHANGED <<batch, reduce, crossed>>

AppendUnsorted ==
    /\ Alive /\ place = "append" /\ ~torn
    /\ AddGoes("store", 0, batch \o data)
    /\ UNCHANGED crossed

(* append(t.data, ...) reads t.data again; without a cut it is the old slice. *)
AddAppends ==
    /\ Alive /\ place = "append" /\ ~torn
    /\ \E old \in IF reduce > 0 THEN {data} ELSE {data} \cup Sortings(data) :
          AddGoes("store", 0, old \o batch)
    /\ UNCHANGED crossed

(* append copies from no array.                                              *)
AppendPanics ==
    /\ Alive /\ place = "append" /\ torn
    /\ Panics

AddStores ==
    /\ Alive /\ place = "store"
    /\ Store(kept)
    /\ place' = "idle" /\ batch' = <<>> /\ kept' = <<>> /\ crossed' = FALSE
    /\ UNCHANGED reduce
-----------------------------------------------------------------------------
(* Stop, when the manager has removed the last task, without the lock and    *)
(* without waiting for a run of collector() or of a task: cron is stopped,   *)
(* and t.data = nil, word by word, in whatever order the build writes them.  *)
Clears(w) ==
    /\ IF w = "length" THEN data' = <<>> /\ torn' = FALSE
                       ELSE torn' = (data # <<>>) /\ UNCHANGED data
    /\ crossed' = (crossed \/ place \in InAdd)
    /\ UNCHANGED <<clock, stats, addVars, made, taskVars, runVars>>

Stop ==
    /\ engine = "running" /\ (active = {} \/ Orphans)
    /\ engine' = "stopped"
    /\ \E w \in Words : words' = Words \ {w} /\ Clears(w)

StopEnds ==
    /\ engine = "stopped"
    /\ \E w \in words : words' = words \ {w} /\ Clears(w)
    /\ UNCHANGED engine
-----------------------------------------------------------------------------
(* A task. *)
StartTask(t) ==
    /\ engine = "running" /\ t \notin active /\ \A r \in Runs : at[<<t, r>>] = "idle"
    /\ active' = active \cup {t}
    /\ \E s \in Starts :
          last' = [last EXCEPT ![t] = s] /\ start' = [start EXCEPT ![t] = s]
    /\ seen' = [seen EXCEPT ![t] = {}]
    /\ UNCHANGED <<clock, stats, engineVars, runVars>>

(* A run that has begun goes on. *)
StopTask(t) ==
    /\ Alive /\ t \in active
    /\ active' = active \ {t}
    /\ UNCHANGED <<clock, stats, engineVars, last, start, seen, runVars>>

PeriodFetch(t, r) ==
    /\ Alive /\ t \in active /\ at[<<t, r>>] = "idle"
    /\ now' = [now EXCEPT ![<<t, r>>] = clock]
    /\ from' = [from EXCEPT ![<<t, r>>] = last[t]]
    /\ at' = [at EXCEPT ![<<t, r>>] = "query"]
    /\ UNCHANGED <<clock, stats, engineVars, taskVars, got>>

(* What sort.Search finds, on sorted data or not: a place with an earlier     *)
(* record before it and none behind it.                                      *)
Boundary(x) ==
    {k \in 0 .. Len(data) : /\ k = 0 \/ data[k].time < x
                            /\ k = Len(data) \/ x <= data[k + 1].time}
SearchClosed(s, e) == {lo + 1 .. hi : lo \in Boundary(s), hi \in Boundary(e + 1)}
SearchWithoutNewest(s, e) == {lo + 1 .. hi - 1 : lo \in Boundary(s), hi \in Boundary(e)}
(* The places of data[lo:hi]; lo beyond hi panics, and so does a search where *)
(* Stop has taken the array, which ends the run like an empty result.        *)
Search(s, e) ==
    IF torn THEN {{}} ELSE {lo + 1 .. hi : lo \in Boundary(s), hi \in Boundary(e)}

(* Query under the read lock; nothing found ends the run. *)
Query(t, r) ==
    /\ at[<<t, r>>] = "query" /\ ~locked
    /\ \E places \in Search(from[<<t, r>>], now[<<t, r>>]) :
          LET found == {data[i].id : i \in {j \in places : data[j].ip \in Wants[t]}}
          IN  /\ got' = [got EXCEPT ![<<t, r>>] = found]
              /\ at' = [at EXCEPT ![<<t, r>>] = IF found = {} THEN "idle" ELSE "account"]
              /\ now' = IF found = {} THEN [now EXCEPT ![<<t, r>>] = 0] ELSE now
    /\ from' = [from EXCEPT ![<<t, r>>] = 0]
    /\ UNCHANGED <<clock, stats, engineVars, taskVars>>

(* lastStatTime moves on, the totals are built and handed to the job.        *)
Account(t, r) ==
    /\ Alive /\ at[<<t, r>>] = "account"
    /\ last' = [last EXCEPT ![t] = now[<<t, r>>]]
    /\ seen' = [seen EXCEPT ![t] = @ \cup got[<<t, r>>]]
    /\ got' = [got EXCEPT ![<<t, r>>] = {}]
    /\ now' = [now EXCEPT ![<<t, r>>] = 0]
    /\ at' = [at EXCEPT ![<<t, r>>] = "idle"]
    /\ UNCHANGED <<clock, stats, engineVars, active, start, from>>
-----------------------------------------------------------------------------
AddSteps ==
    \/ NothingExported \/ Add \/ AddCuts \/ AddKeeps \/ AddAppends \/ AddStores
    \/ SortPanics \/ CutPanics \/ AppendPanics
Collect ==
    \/ CollectorLock \/ AddSteps
    \/ \E c \in Collectors : ExportAndClean(c)
Run(t, r) == PeriodFetch(t, r) \/ Query(t, r) \/ Account(t, r)

Next ==
    \/ Tick \/ Collect \/ Stop \/ StopEnds
    \/ \E c \in Collectors, ip \in Ips : AddPacketLen(c, ip)
    \/ \E t \in Tasks : StartTask(t) \/ StopTask(t)
    \/ \E t \in Tasks, r \in Runs : Run(t, r)

Spec == Init /\ [][Next]_vars

(* Time passes, and the cron jobs run again and again.                       *)
FairSpec ==
    /\ Spec
    /\ WF_vars(Tick) /\ WF_vars(Collect)
    /\ \A t \in Tasks, r \in Runs : SF_vars(Run(t, r))
-----------------------------------------------------------------------------
(* The data stay sorted by time (bandwidth_engine.go:49 searches them with   *)
(* a binary search), although two collectors export one after the other, old *)
(* records are dropped and only the old slice is ever sorted.                *)
DataSorted == Sorted(data \o batch) /\ Sorted(kept)

(* The windows of a task do not overlap (report_task.go:89-97): what a run   *)
(* is about to account for was not accounted for before.                     *)
NoneTwice == \A t \in Tasks, r \in Runs : got[<<t, r>>] \cap seen[t] = {}

(* The windows have no gap, wherever the clock is read in relation to the    *)
(* locks of the engine: a record of the session behind lastStatTime was      *)
(* accounted for (report_task.go:82-97, collector.go:152).                   *)
NoneSkipped ==
    \A t \in Tasks : \A i \in DOMAIN data :
        /\ data[i].ip \in Wants[t]
        /\ start[t] <= data[i].time /\ data[i].time < last[t]
        => data[i].id \in seen[t]

(* What the binary searches of a task look at is sorted, and its windows     *)
(* tile the time (bandwidth_engine.go:46-54, report_task.go:82-97).          *)
WindowsTile == DataSorted /\ NoneTwice /\ NoneSkipped

(* Add stays in bounds for a batch of at most half of the capacity, whenever *)
(* cron fires and the engine is stopped, unless Stop writes t.data just then  *)
(* (bandwidth_engine.go:40-44, 86-99): the length may be gone between lines  *)
(* 92 and 97.  A Stop that is over before Add begins does no harm.           *)
PanicsOnlyOnLargeBatchOrStop ==
    engine = "panicked" => 2 * Len(batch) > Capacity \/ crossed

(* Every record that stays in the engine is accounted for by every task of   *)
(* its session (README.md:22).  One of the last second waits for the next.   *)
Behind(t) ==
    /\ t \in active /\ engine = "running"
    /\ \E i \in DOMAIN data :
          /\ data[i].ip \in Wants[t] /\ data[i].id \notin seen[t]
          /\ start[t] <= data[i].time /\ data[i].time < MaxClock
TaskCatchesUp == \A t \in Tasks : Behind(t) ~> ~Behind(t)
=============================================================================
