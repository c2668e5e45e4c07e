----------------------- MODULE BandwidthEngine_proofs -----------------------
(* What the engine and the windows of its tasks promise, for any collectors, *)
(* capacity and tasks, and any number of records: what the binary search     *)
(* looks at is sorted, the windows tile the time, and Add panics only on a   *)
(* batch of more than half of the capacity or while Stop takes the data.     *)
EXTENDS BandwidthEngine, SequenceTheorems, TLAPS

(* The records that the engine holds or is about to hold.                    *)
Known ==
    {data[i] : i \in DOMAIN data} \cup {batch[i] : i \in DOMAIN batch}
        \cup {kept[i] : i \in DOMAIN kept}

(* What Add knows at each of its accesses to t.data, although Stop may have   *)
(* taken the data in between, and the state a panic leaves.                  *)
EngineInv ==
    /\ ~locked => batch = <<>>
    /\ place \notin InAdd => kept = <<>>
    /\ place \in {"cut", "keep", "append"} => Len(batch) \in 1 .. Capacity
    /\ place = "cut" => reduce = Reduce \/ (data = <<>> /\ crossed)
    /\ place = "keep" => Len(kept) + Len(batch) <= Capacity
    /\ place = "append" => Len(data) + Len(batch) <= Capacity
    /\ place = "store" => Len(kept) <= Capacity
    /\ place \in InAdd /\ torn => crossed
    /\ engine = "panicked" => locked /\ (2 * Len(batch) > Capacity \/ crossed)

SortInv ==
    /\ Sorted(data) /\ Sorted(batch) /\ Sorted(kept)
    /\ \A i \in DOMAIN data, j \in DOMAIN batch : data[i].time <= batch[j].time
    /\ place = "keep" =>
           \A i \in DOMAIN kept, j \in DOMAIN batch : kept[i].time <= batch[j].time

(* Records are numbered, and none comes from the future.                     *)
KnownInv ==
    /\ \A a \in Known : a.id <= made /\ a.time <= clock
    /\ \A a, b \in Known : a.id = b.id => a = b

(* What a task accounted for is what its session saw before lastStatTime.    *)
TaskInv(t) ==
    /\ seen[t] \subseteq 1 .. made
    /\ last[t] <= clock \/ last[t] = start[t]
    /\ \A a \in Known :
          /\ a.id \in seen[t] => a.time < last[t]
          /\ a.ip \in Wants[t] /\ start[t] <= a.time /\ a.time < last[t] => a.id \in seen[t]

(* What a run got is what its session saw in the window.                     *)
WindowInv(t, r) ==
    /\ got[<<t, r>>] \subseteq 1 .. made
    /\ got[<<t, r>>] \cap seen[t] = {}
    /\ at[<<t, r>>] # "account" => got[<<t, r>>] = {}
    /\ at[<<t, r>>] = "query" => from[<<t, r>>] = last[t]
    /\ now[<<t, r>>] <= clock
    /\ at[<<t, r>>] = "account" =>
           \A a \in Known :
              /\ a.id \in got[<<t, r>>] => a.time < now[<<t, r>>]
              /\ a.ip \in Wants[t] /\ last[t] <= a.time /\ a.time < now[<<t, r>>]
                     => a.id \in got[<<t, r>>]
    /\ at[<<t, r>>] = "account" => last[t] <= now[<<t, r>>]

IInv ==
    /\ TypeOK
    /\ EngineInv
    /\ SortInv
    /\ KnownInv
    /\ \A t \in Tasks : TaskInv(t)
    /\ \A t \in Tasks, r \in Runs : WindowInv(t, r)
-----------------------------------------------------------------------------
(* The numbers of Add: what it drops makes room, and it drops more than      *)
(* there is only for a batch of more than half of the capacity.              *)
LEMMA ReduceRight ==
    ASSUME TypeOK, Len(batch) \in 1 .. Capacity
    PROVE  /\ Reduce \in 0 .. Capacity /\ Reduce \in Nat
           /\ Reduce <= Len(data) => Len(data) - Reduce + Len(batch) <= Capacity
           /\ Reduce > Len(data) => 2 * Len(batch) > Capacity
<1>1. Len(batch) \in Nat /\ Len(data) \in Nat /\ Capacity \in Nat
    BY EngineAssumption DEF TypeOK
<1>2. Capacity \div 2 \in Nat /\ 2 * (Capacity \div 2) <= Capacity
    BY <1>1
<1>3. Len(data) <= Capacity
    BY DEF TypeOK
<1>4. QED
    BY <1>1, <1>2, <1>3 DEF Reduce, TooMany, Greater

(* One slice appended to another.                                            *)
LEMMA ConcatOfRecords ==
    ASSUME NEW s \in Seq(Record), NEW t \in Seq(Record)
    PROVE  s \o t \in Seq(Record) /\ Len(s \o t) = Len(s) + Len(t)
    OBVIOUS

(* Sorted slices of which one ends before the other begins.                  *)
LEMMA SortedConcat ==
    ASSUME NEW s \in Seq(Record), NEW t \in Seq(Record), Sorted(s), Sorted(t),
           \A i \in DOMAIN s, j \in DOMAIN t : s[i].time <= t[j].time
    PROVE  Sorted(s \o t)
<1> DEFINE u == s \o t
<1>1. /\ Len(s) \in Nat /\ Len(t) \in Nat
      /\ DOMAIN s = 1 .. Len(s) /\ DOMAIN t = 1 .. Len(t)
      /\ DOMAIN u = 1 .. Len(s) + Len(t)
    OBVIOUS
<1>2. \A i \in DOMAIN u : u[i] = IF i <= Len(s) THEN s[i] ELSE t[i - Len(s)]
    BY ConcatProperties, <1>1
<1>3. ASSUME NEW i \in DOMAIN u, NEW j \in DOMAIN u, i < j PROVE u[i].time <= u[j].time
    <2>1. CASE j <= Len(s)
        BY <1>1, <1>2, <1>3, <2>1 DEF Sorted
    <2>2. CASE i > Len(s)
        <3>1. i - Len(s) \in DOMAIN t /\ j - Len(s) \in DOMAIN t /\ i - Len(s) < j - Len(s)
            BY <1>1, <1>3, <2>2
        <3>2. t[i - Len(s)].time <= t[j - Len(s)].time
            BY <3>1 DEF Sorted
        <3>3. QED
            BY <1>1, <1>2, <1>3, <2>2, <3>2
    <2>3. CASE i <= Len(s) /\ j > Len(s)
        <3>1. i \in DOMAIN s /\ j - Len(s) \in DOMAIN t
            BY <1>1, <1>3, <2>3
        <3>2. s[i].time <= t[j - Len(s)].time
            BY <3>1
        <3>3. QED
            BY <1>1, <1>2, <2>3, <3>2
    <2>4. QED
        BY <1>1, <2>1, <2>2, <2>3
<1>4. QED
    BY <1>3 DEF Sorted

(* Dropping the oldest leaves a sorted slice of the same records.            *)
LEMMA SortedSuffix ==
    ASSUME NEW s \in Seq(Record), Sorted(s), NEW n \in Nat, n <= Len(s)
    PROVE  /\ SubSeq(s, n + 1, Len(s)) \in Seq(Record)
           /\ Len(SubSeq(s, n + 1, Len(s))) = Len(s) - n
           /\ Sorted(SubSeq(s, n + 1, Len(s)))
           /\ \A i \in DOMAIN SubSeq(s, n + 1, Len(s)) :
                 i + n \in DOMAIN s /\ SubSeq(s, n + 1, Len(s))[i] = s[i + n]
<1> DEFINE u == SubSeq(s, n + 1, Len(s))
<1>1. Len(s) \in Nat /\ DOMAIN s = 1 .. Len(s)
    OBVIOUS
<1>2. u \in Seq(Record) /\ Len(u) = Len(s) - n
    OBVIOUS
<1>3. \A i \in 1 .. Len(s) - n : u[i] = s[i + n]
    OBVIOUS
<1>4. DOMAIN u = 1 .. Len(s) - n
    OBVIOUS
<1> HIDE DEF u
<1>5. \A i \in DOMAIN u : i + n \in DOMAIN s /\ u[i] = s[i + n]
    BY <1>1, <1>3, <1>4
<1>6. Sorted(u)
    <2>1. \A i, j \in DOMAIN u : i < j => i + n < j + n
        BY <1>1, <1>4
    <2>2. QED
        BY <1>5, <2>1 DEF Sorted
<1>7. QED
    BY <1>2, <1>5, <1>6 DEF u
-----------------------------------------------------------------------------
(* What is in the slices are records.                                        *)
LEMMA KnownRecords ==
    ASSUME TypeOK
    PROVE  \A a \in Known : a \in Record /\ a.time \in Nat /\ a.id \in Nat
<1>1. \A i \in DOMAIN data : data[i] \in Record
    BY DEF TypeOK
<1>2. \A i \in DOMAIN batch : batch[i] \in Record
    BY DEF TypeOK
<1>3. \A i \in DOMAIN kept : kept[i] \in Record
    BY DEF TypeOK
<1>4. \A a \in Record : a.time \in Nat /\ a.id \in Nat
    BY EngineAssumption DEF Record
<1>5. QED
    BY <1>1, <1>2, <1>3, <1>4 DEF Known

(* Nothing the tasks know becomes wrong when records go and time passes.     *)
LEMMA KnownShrinks ==
    ASSUME IInv, Known' \subseteq Known, clock' \in Nat, clock <= clock',
           UNCHANGED <<made, taskVars, runVars>>
    PROVE  /\ KnownInv'
           /\ \A t \in Tasks : TaskInv(t)'
           /\ \A t \in Tasks, r \in Runs : WindowInv(t, r)'
<1>1. /\ clock \in Nat
      /\ last \in [Tasks -> Nat] /\ now \in [Tasks \X Runs -> Nat]
      /\ UNCHANGED <<made, active, last, start, seen, at, from, now, got>>
    BY EngineAssumption DEF IInv, TypeOK, taskVars, runVars
<1>2. \A a \in Known : a.id <= made /\ a.time \in Nat /\ a.time <= clock
    BY KnownRecords DEF IInv, KnownInv
<1>3. KnownInv'
    <2>1. \A a \in Known' : a.id <= made /\ a.time <= clock'
        BY <1>1, <1>2
    <2>2. \A a, b \in Known' : a.id = b.id => a = b
        BY DEF IInv, KnownInv
    <2>3. QED
        BY <1>1, <2>1, <2>2 DEF KnownInv
<1>4. ASSUME NEW t \in Tasks PROVE TaskInv(t)'
    <2>1. TaskInv(t)
        BY DEF IInv
    <2>2. last[t] <= clock' \/ last[t] = start[t]
        BY <1>1, <2>1 DEF TaskInv
    <2>3. QED
        BY <1>1, <2>1, <2>2 DEF TaskInv
<1>5. ASSUME NEW t \in Tasks, NEW r \in Runs PROVE WindowInv(t, r)'
    <2>1. WindowInv(t, r)
        BY DEF IInv
    <2>2. now[<<t, r>>] \in Nat
        BY <1>1
    <2>3. now[<<t, r>>] <= clock'
        BY <1>1, <2>1, <2>2 DEF WindowInv
    <2>4. QED
        BY <1>1, <2>1, <2>3 DEF WindowInv
<1>6. QED
    BY <1>3, <1>4, <1>5

(* What a step of the engine has to keep, which exports nothing.             *)
LEMMA EngineStep ==
    ASSUME IInv, TypeOK', EngineInv', SortInv', Known' \subseteq Known,
           UNCHANGED <<clock, made, taskVars, runVars>>
    PROVE  IInv'
<1>1. clock \in Nat
    BY EngineAssumption DEF IInv, TypeOK
<1>2. clock' \in Nat /\ clock <= clock'
    BY <1>1
<1>3. QED
    BY <1>2, KnownShrinks DEF IInv

(* (bandwidth_engine.go:104, report_task.go)                                 *)
LEMMA InitIInv == ASSUME 1 \in 0 .. MaxClock, Init PROVE IInv
<1>1. Known = {}
    BY DEF Init, Known
<1>2. TypeOK
    <2>1. <<>> \in Seq(Record) /\ Len(<<>>) = 0
        OBVIOUS
    <2>2. /\ 0 \in 0 .. MaxClock /\ 0 \in 0 .. MaxRecords
          /\ 0 \in 0 .. Capacity /\ 0 \in 0 .. NCollectors
        BY EngineAssumption
    <2>3. {} \in SUBSET Words /\ {} \in SUBSET Tasks /\ {} \in SUBSET (1 .. MaxRecords)
        OBVIOUS
    <2>4. clock \in 0 .. MaxClock /\ stats \in [Collectors \X Ips -> Nat]
        BY DEF Init
    <2>5. /\ last \in [Tasks -> 0 .. MaxClock] /\ start \in [Tasks -> 0 .. MaxClock]
          /\ seen \in [Tasks -> SUBSET (1 .. MaxRecords)]
          /\ at \in [Tasks \X Runs -> {"idle", "query", "account"}]
          /\ from \in [Tasks \X Runs -> 0 .. MaxClock]
          /\ now \in [Tasks \X Runs -> 0 .. MaxClock]
          /\ got \in [Tasks \X Runs -> SUBSET (1 .. MaxRecords)]
        BY <2>2, <2>3 DEF Init
    <2>6. /\ engine \in {"running", "stopped", "panicked"} /\ active \in SUBSET Tasks
          /\ place \in {"idle", "export"} \cup InAdd /\ made \in 0 .. MaxRecords
          /\ done \in 0 .. NCollectors /\ reduce \in 0 .. Capacity
          /\ torn \in BOOLEAN /\ crossed \in BOOLEAN /\ words \in SUBSET Words
        BY <2>2, <2>3 DEF Init
    <2>7. /\ data \in Seq(Record) /\ Len(data) <= Capacity
          /\ batch \in Seq(Record) /\ kept \in Seq(Record)
        BY <2>1, EngineAssumption DEF Init
    <2>8. QED
        BY <2>4, <2>5, <2>6, <2>7 DEF TypeOK
<1>3. SortInv
    BY DEF Init, SortInv, Sorted
<1>4. EngineInv /\ KnownInv
    BY <1>1 DEF Init, EngineInv, KnownInv, InAdd, locked
<1>5. ASSUME NEW t \in Tasks PROVE TaskInv(t)
    BY <1>1 DEF Init, TaskInv
<1>6. ASSUME NEW t \in Tasks, NEW r \in Runs PROVE WindowInv(t, r)
    BY <1>1 DEF Init, WindowInv
<1>7. QED
    BY <1>2, <1>3, <1>4, <1>5, <1>6 DEF IInv

(* Time passes.                                                              *)
LEMMA TickStep == ASSUME IInv, Tick PROVE IInv'
<1>1. clock \in Nat /\ clock' \in 0 .. MaxClock /\ clock <= clock' /\ clock' \in Nat
    BY EngineAssumption DEF Tick, IInv, TypeOK
<1>2. UNCHANGED <<stats, done, place, batch, reduce, kept, data, torn, words, crossed,
                     made, engine, taskVars, runVars>>
    BY DEF Tick, engineVars, addVars, dataVars
<1>3. TypeOK'
    BY <1>1, <1>2 DEF IInv, TypeOK, taskVars, runVars
<1>4. EngineInv' /\ SortInv' /\ Known' = Known
    BY <1>2 DEF IInv, EngineInv, SortInv, Known, Reduce, TooMany, locked
<1>5. QED
    BY <1>1, <1>2, <1>3, <1>4, KnownShrinks DEF IInv

(* A packet of a new port.                                                   *)
LEMMA PacketStep ==
    ASSUME IInv, NEW c \in Collectors, NEW ip \in Ips, AddPacketLen(c, ip) PROVE IInv'
<1>1. stats' \in [Collectors \X Ips -> Nat]
    <2>1. <<c, ip>> \in Collectors \X Ips
        OBVIOUS
    <2>2. stats[<<c, ip>>] + 1 \in Nat
        BY <2>1 DEF IInv, TypeOK
    <2>3. QED
        BY <2>2 DEF AddPacketLen, IInv, TypeOK
<1>2. UNCHANGED <<clock, done, place, batch, reduce, kept, data, torn, words, crossed,
                     made, engine, taskVars, runVars>>
    BY DEF AddPacketLen, engineVars, addVars, dataVars
<1>3. TypeOK'
    BY <1>1, <1>2 DEF IInv, TypeOK, taskVars, runVars
<1>4. EngineInv' /\ SortInv' /\ Known' = Known
    BY <1>2 DEF IInv, EngineInv, SortInv, Known, Reduce, TooMany, locked
<1>5. clock \in Nat
    BY EngineAssumption DEF IInv, TypeOK
<1>6. QED
    BY <1>2, <1>3, <1>4, <1>5, KnownShrinks DEF IInv

(* A run of collector() begins.                                              *)
LEMMA LockStep == ASSUME IInv, CollectorLock PROVE IInv'
<1>1. /\ place = "idle" /\ place' = "export" /\ done' = 0 /\ engine # "panicked"
      /\ UNCHANGED <<clock, stats, batch, reduce, kept, data, torn, words, crossed,
                     made, engine, taskVars, runVars>>
    BY DEF CollectorLock, Alive, locked, dataVars
<1>2. TypeOK'
    BY <1>1, EngineAssumption DEF IInv, TypeOK, taskVars, runVars
<1>3. SortInv' /\ Known' = Known
    BY <1>1 DEF IInv, SortInv, Known
<1>4. EngineInv'
    BY <1>1 DEF IInv, EngineInv, InAdd, locked
<1>5. QED
    BY <1>1, <1>2, <1>3, <1>4, EngineStep
-----------------------------------------------------------------------------
(* What sorting the old slice leaves in it.                                  *)
LEMMA OldRight ==
    ASSUME IInv, NEW old \in {data} \cup Sortings(data)
    PROVE  /\ old \in Seq(Record) /\ Len(old) = Len(data) /\ Sorted(old)
           /\ \A i \in DOMAIN old : old[i] \in {data[j] : j \in DOMAIN data}
<1>1. data \in Seq(Record) /\ Sorted(data) /\ Len(data) \in Nat /\ DOMAIN data = 1 .. Len(data)
    BY DEF IInv, TypeOK, SortInv
<1>2. CASE old = data
    BY <1>1, <1>2
<1>3. CASE old \in Sortings(data)
    <2>1. /\ old \in [1 .. Len(data) -> {data[j] : j \in DOMAIN data}]
          /\ \A i, j \in 1 .. Len(data) : i < j => Earlier(old[i], old[j])
        BY <1>1, <1>3 DEF Sortings, ToSet
    <2>2. {data[j] : j \in DOMAIN data} \subseteq Record
        BY <1>1
    <2>3. old \in Seq(Record) /\ Len(old) = Len(data) /\ DOMAIN old = 1 .. Len(data)
        BY <1>1, <2>1, <2>2
    <2>4. \A a, b \in Record : Earlier(a, b) => a.time <= b.time
        BY EngineAssumption DEF Earlier, Record
    <2>5. Sorted(old)
        <3>1. \A i \in DOMAIN old : old[i] \in Record
            BY <2>3
        <3>2. QED
            BY <2>1, <2>3, <2>4, <3>1 DEF Sorted
    <2>6. QED
        BY <2>1, <2>3, <2>5
<1>4. QED
    BY <1>2, <1>3

(* Sorting again the cut of a slice, or the slice, and appending the batch.  *)
LEMMA AppendRight ==
    ASSUME IInv, NEW s \in Seq(Record), Sorted(s),
           \A i \in DOMAIN s : s[i] \in {data[j] : j \in DOMAIN data}
    PROVE  /\ s \o batch \in Seq(Record) /\ Len(s \o batch) = Len(s) + Len(batch)
           /\ Sorted(s \o batch)
           /\ \A i \in DOMAIN (s \o batch) : (s \o batch)[i] \in Known
<1> DEFINE u == s \o batch
<1>1. /\ batch \in Seq(Record) /\ Sorted(batch)
      /\ Len(s) \in Nat /\ Len(batch) \in Nat
      /\ DOMAIN s = 1 .. Len(s) /\ DOMAIN batch = 1 .. Len(batch)
    BY DEF IInv, TypeOK, SortInv
<1>2. \A i \in DOMAIN s, j \in DOMAIN batch : s[i].time <= batch[j].time
    BY DEF IInv, SortInv
<1>3. Sorted(u)
    BY <1>1, <1>2, SortedConcat
<1>4. u \in Seq(Record) /\ Len(u) = Len(s) + Len(batch)
    BY <1>1, ConcatOfRecords
<1>5. DOMAIN u = 1 .. Len(s) + Len(batch)
    BY <1>1, <1>4
<1>6. \A i \in DOMAIN u : u[i] = IF i <= Len(s) THEN s[i] ELSE batch[i - Len(s)]
    BY <1>1, <1>5, ConcatProperties
<1> HIDE DEF u
<1>7. ASSUME NEW i \in DOMAIN u PROVE u[i] \in Known
    <2>1. CASE i <= Len(s)
        BY <1>1, <1>5, <1>6, <2>1 DEF Known
    <2>2. CASE i > Len(s)
        <3>1. i - Len(s) \in DOMAIN batch
            BY <1>1, <1>5, <2>2
        <3>2. QED
            BY <1>1, <1>5, <1>6, <2>2, <3>1 DEF Known
    <2>3. QED
        BY <1>1, <1>5, <2>1, <2>2
<1>8. QED
    BY <1>3, <1>4, <1>7 DEF u

(* Add is not called (bandwidth_engine.go:80).                               *)
LEMMA NothingStep == ASSUME IInv, NothingExported PROVE IInv'
<1>1. /\ place = "export" /\ place' = "idle" /\ batch = <<>> /\ engine # "panicked"
      /\ UNCHANGED <<clock, stats, done, batch, reduce, kept, data, torn, words, crossed,
                     made, engine, taskVars, runVars>>
    BY DEF NothingExported, Alive, dataVars
<1>2. TypeOK'
    BY <1>1 DEF IInv, TypeOK, taskVars, runVars
<1>3. SortInv' /\ Known' = Known
    BY <1>1 DEF IInv, SortInv, Known
<1>4. EngineInv'
    BY <1>1 DEF IInv, EngineInv, InAdd, locked
<1>5. QED
    BY <1>1, <1>2, <1>3, <1>4, EngineStep

(* What reduce says of the data when it is computed                          *)
(* (bandwidth_engine.go:86-96).                                              *)
LEMMA AddStep == ASSUME IInv, Add PROVE IInv'
<1>1. /\ place = "export" /\ engine # "panicked" /\ batch # <<>> /\ crossed' = torn
      /\ UNCHANGED <<clock, stats, done, batch, data, torn, words, made, engine,
                     taskVars, runVars>>
      /\ \/ /\ Len(batch) > Capacity
            /\ place' = "store" /\ reduce' = 0
            /\ kept' = SubSeq(batch, Len(batch) - Capacity + 1, Len(batch))
         \/ /\ ~(Len(batch) > Capacity)
            /\ place' = (IF Reduce > 0 THEN "cut" ELSE "append")
            /\ reduce' = Reduce /\ kept' = <<>>
    BY DEF Add, AddGoes, Alive
<1>2. /\ batch \in Seq(Record) /\ Len(batch) \in Nat /\ Len(batch) # 0
      /\ Capacity \in Nat \ {0} /\ Sorted(batch) /\ Len(data) \in Nat
      /\ DOMAIN batch = 1 .. Len(batch)
    BY <1>1, EngineAssumption DEF IInv, TypeOK, SortInv
<1>3. CASE /\ Len(batch) > Capacity
           /\ place' = "store" /\ reduce' = 0
           /\ kept' = SubSeq(batch, Len(batch) - Capacity + 1, Len(batch))
    <2>1. Len(batch) - Capacity \in Nat /\ Len(batch) - Capacity <= Len(batch)
        BY <1>2, <1>3
    <2>2. /\ kept' \in Seq(Record)
          /\ Len(kept') = Len(batch) - (Len(batch) - Capacity)
          /\ Sorted(kept')
          /\ \A i \in DOMAIN kept' :
                i + (Len(batch) - Capacity) \in DOMAIN batch
                /\ kept'[i] = batch[i + (Len(batch) - Capacity)]
        BY <1>2, <1>3, <2>1, SortedSuffix
    <2>3. Len(kept') <= Capacity
        BY <1>2, <2>2
    <2>4. TypeOK'
        <3>1. 0 \in 0 .. Capacity
            BY <1>2
        <3>2. QED
            BY <1>1, <1>3, <2>2, <3>1 DEF IInv, TypeOK, InAdd, taskVars, runVars
    <2>5. SortInv'
        BY <1>1, <1>3, <2>2 DEF IInv, SortInv
    <2>6. EngineInv'
        BY <1>1, <1>3, <2>3 DEF IInv, EngineInv, InAdd, locked
    <2>7. Known' \subseteq Known
        BY <1>1, <2>2 DEF Known
    <2>8. QED
        BY <1>1, <2>4, <2>5, <2>6, <2>7, EngineStep
<1>4. CASE /\ ~(Len(batch) > Capacity)
           /\ place' = (IF Reduce > 0 THEN "cut" ELSE "append")
           /\ reduce' = Reduce /\ kept' = <<>>
    <2>1. Len(batch) \in 1 .. Capacity
        BY <1>2, <1>4
    <2>2. /\ Reduce \in 0 .. Capacity
          /\ Reduce <= Len(data) => Len(data) - Reduce + Len(batch) <= Capacity
        BY <2>1, ReduceRight DEF IInv
    <2>3. ~(Reduce > 0) => Len(data) + Len(batch) <= Capacity
        BY <1>2, <2>2
    <2>4. TypeOK'
        <3>1. <<>> \in Seq(Record)
            OBVIOUS
        <3>2. QED
            BY <1>1, <1>4, <2>2, <3>1 DEF IInv, TypeOK, InAdd, taskVars, runVars
    <2>5. SortInv'
        BY <1>1, <1>4 DEF IInv, SortInv, Sorted
    <2>6. Reduce' = Reduce
        BY <1>1 DEF Reduce, TooMany
    <2>7. EngineInv'
        BY <1>1, <1>4, <2>1, <2>3, <2>6 DEF IInv, EngineInv, InAdd, locked
    <2>8. Known' \subseteq Known
        BY <1>1, <1>4 DEF Known
    <2>9. QED
        BY <1>1, <2>4, <2>5, <2>7, <2>8, EngineStep
<1>5. QED
    BY <1>1, <1>3, <1>4

(* The process ends: only here when Stop has taken the array, or the batch   *)
(* is large (bandwidth_engine.go:86, 97, 99).                                *)
LEMMA PanicStep == ASSUME IInv, SortPanics \/ CutPanics \/ AppendPanics PROVE IInv'
<1>1. /\ engine' = "panicked" /\ place # "idle"
      /\ UNCHANGED <<clock, stats, done, place, batch, reduce, kept, data, torn, words, made,
                     taskVars, runVars>>
    BY DEF SortPanics, CutPanics, AppendPanics, Panics, addVars, dataVars
<1>2. /\ crossed' \in BOOLEAN /\ (crossed => crossed')
      /\ 2 * Len(batch) > Capacity \/ crossed'
    <2>1. CASE SortPanics
        BY <2>1 DEF SortPanics
    <2>2. CASE CutPanics
        <3>1. /\ place = "cut" /\ (torn \/ reduce > Len(data)) /\ crossed' = crossed
            BY <2>2 DEF CutPanics, Panics, dataVars
        <3>2. CASE torn
            BY <3>1, <3>2 DEF IInv, TypeOK, EngineInv, InAdd
        <3>3. CASE reduce > Len(data) /\ reduce = Reduce
            <4>1. 2 * Len(batch) > Capacity
                BY <3>1, <3>3, ReduceRight DEF IInv, EngineInv
            <4>2. QED
                BY <3>1, <4>1 DEF IInv, TypeOK
        <3>4. CASE crossed
            BY <3>1, <3>4
        <3>5. QED
            BY <3>1, <3>2, <3>3, <3>4 DEF IInv, EngineInv
    <2>3. CASE AppendPanics
        BY <2>3 DEF AppendPanics, Panics, dataVars, IInv, TypeOK, EngineInv, InAdd
    <2>4. QED
        BY <2>1, <2>2, <2>3
<1>3. TypeOK'
    BY <1>1, <1>2 DEF IInv, TypeOK, taskVars, runVars
<1>4. SortInv' /\ Known' = Known
    BY <1>1 DEF IInv, SortInv, Known
<1>5. EngineInv'
    BY <1>1, <1>2 DEF IInv, EngineInv, Reduce, TooMany, locked
<1>6. QED
    BY <1>1, <1>3, <1>4, <1>5, EngineStep

(* What is cut leaves room for the batch, if Stop has left something to cut  *)
(* (bandwidth_engine.go:97).                                                 *)
LEMMA CutStep == ASSUME IInv, AddCuts PROVE IInv'
<1>1. PICK old \in {data} \cup Sortings(data) :
          kept' = SubSeq(old, reduce + 1, Len(old))
    BY DEF AddCuts, AddGoes
<1>2. /\ place = "cut" /\ place' = "keep" /\ engine # "panicked" /\ reduce' = reduce
      /\ reduce <= Len(data)
      /\ UNCHANGED <<clock, stats, done, batch, data, torn, words, crossed, made, engine,
                     taskVars, runVars>>
    BY DEF AddCuts, AddGoes, Alive
<1>3. /\ Len(batch) \in 1 .. Capacity /\ Capacity \in Nat
      /\ reduce \in Nat /\ Len(data) \in Nat
    BY <1>2, EngineAssumption DEF IInv, TypeOK, EngineInv
<1>4. Len(data) - reduce + Len(batch) <= Capacity
    <2>1. CASE reduce = Reduce
        BY <1>2, <1>3, <2>1, ReduceRight DEF IInv
    <2>2. CASE data = <<>>
        BY <1>2, <1>3, <2>2
    <2>3. QED
        BY <1>2, <2>1, <2>2 DEF IInv, EngineInv
<1>5. /\ old \in Seq(Record) /\ Len(old) = Len(data) /\ Sorted(old)
      /\ \A i \in DOMAIN old : old[i] \in {data[j] : j \in DOMAIN data}
    BY OldRight
<1>6. /\ kept' \in Seq(Record) /\ Len(kept') = Len(data) - reduce /\ Sorted(kept')
      /\ \A i \in DOMAIN kept' : i + reduce \in DOMAIN old /\ kept'[i] = old[i + reduce]
    BY <1>1, <1>2, <1>3, <1>5, SortedSuffix
<1>7. \A i \in DOMAIN kept' : kept'[i] \in {data[j] : j \in DOMAIN data}
    BY <1>5, <1>6
<1>8. TypeOK'
    BY <1>2, <1>6 DEF IInv, TypeOK, InAdd, taskVars, runVars
<1>9. SortInv'
    BY <1>2, <1>6, <1>7 DEF IInv, SortInv
<1>10. EngineInv'
    BY <1>2, <1>4, <1>6 DEF IInv, EngineInv, InAdd, locked
<1>11. Known' \subseteq Known
    BY <1>2, <1>7 DEF Known
<1>12. QED
    BY <1>2, <1>8, <1>9, <1>10, <1>11, EngineStep

LEMMA KeepStep == ASSUME IInv, AddKeeps PROVE IInv'
<1>1. /\ place = "keep" /\ place' = "append" /\ engine # "panicked"
      /\ data' = kept /\ torn' = FALSE /\ kept' = <<>>
      /\ UNCHANGED <<clock, stats, done, batch, reduce, words, crossed, made, engine,
                     taskVars, runVars>>
    BY DEF AddKeeps, Store, Alive
<1>2. /\ Len(kept) + Len(batch) <= Capacity /\ Len(kept) \in Nat /\ Len(batch) \in Nat
      /\ Capacity \in Nat
    BY <1>1, EngineAssumption DEF IInv, TypeOK, EngineInv
<1>3. TypeOK'
    <2>1. Len(kept) <= Capacity
        BY <1>2
    <2>2. <<>> \in Seq(Record)
        OBVIOUS
    <2>3. QED
        BY <1>1, <2>1, <2>2 DEF IInv, TypeOK, InAdd, taskVars, runVars
<1>4. SortInv'
    BY <1>1 DEF IInv, SortInv, Sorted
<1>5. EngineInv'
    BY <1>1, <1>2 DEF IInv, EngineInv, InAdd, locked
<1>6. Known' \subseteq Known
    BY <1>1 DEF Known
<1>7. QED
    BY <1>1, <1>3, <1>4, <1>5, <1>6, EngineStep

(* What append gives fits (bandwidth_engine.go:99).                          *)
LEMMA AppendStep == ASSUME IInv, AddAppends PROVE IInv'
<1>1. PICK old \in {data} \cup Sortings(data) : kept' = old \o batch
    BY DEF AddAppends, AddGoes
<1>2. /\ place = "append" /\ place' = "store" /\ engine # "panicked" /\ reduce' = 0
      /\ UNCHANGED <<clock, stats, done, batch, data, torn, words, crossed, made, engine,
                     taskVars, runVars>>
    BY DEF AddAppends, AddGoes, Alive
<1>3. /\ old \in Seq(Record) /\ Len(old) = Len(data) /\ Sorted(old)
      /\ \A i \in DOMAIN old : old[i] \in {data[j] : j \in DOMAIN data}
    BY OldRight
<1>4. /\ kept' \in Seq(Record) /\ Len(kept') = Len(old) + Len(batch) /\ Sorted(kept')
      /\ \A i \in DOMAIN kept' : kept'[i] \in Known
    BY <1>1, <1>3, AppendRight
<1>5. TypeOK'
    <2>1. 0 \in 0 .. Capacity
        BY EngineAssumption
    <2>2. QED
        BY <1>2, <1>4, <2>1 DEF IInv, TypeOK, InAdd, taskVars, runVars
<1>6. SortInv'
    BY <1>2, <1>4 DEF IInv, SortInv
<1>7. EngineInv'
    BY <1>2, <1>3, <1>4 DEF IInv, EngineInv, InAdd, locked
<1>8. Known' \subseteq Known
    BY <1>2, <1>4 DEF Known
<1>9. QED
    BY <1>2, <1>5, <1>6, <1>7, <1>8, EngineStep

LEMMA StoreStep == ASSUME IInv, AddStores PROVE IInv'
<1>1. /\ place = "store" /\ place' = "idle" /\ engine # "panicked"
      /\ data' = kept /\ torn' = FALSE /\ kept' = <<>> /\ batch' = <<>> /\ crossed' = FALSE
      /\ UNCHANGED <<clock, stats, done, reduce, words, made, engine, taskVars, runVars>>
    BY DEF AddStores, Store, Alive
<1>2. Len(kept) <= Capacity
    BY <1>1 DEF IInv, EngineInv
<1>3. <<>> \in Seq(Record) /\ Sorted(<<>>)
    BY DEF Sorted
<1>4. TypeOK'
    BY <1>1, <1>2, <1>3 DEF IInv, TypeOK, taskVars, runVars
<1>5. SortInv'
    BY <1>1, <1>3 DEF IInv, SortInv
<1>6. EngineInv'
    BY <1>1 DEF EngineInv, InAdd, locked
<1>7. Known' \subseteq Known
    BY <1>1 DEF Known
<1>8. QED
    BY <1>1, <1>4, <1>5, <1>6, <1>7, EngineStep

(* Stop takes the data at any time (bandwidth_engine.go:42).                 *)
LEMMA StopStep == ASSUME IInv, Stop \/ StopEnds PROVE IInv'
<1>1. PICK w \in Words : words' = words \ {w} \/ words' = Words \ {w}
    BY DEF Stop, StopEnds, IInv, TypeOK
<1>2. /\ engine # "panicked" /\ engine' = "stopped"
      /\ \/ data' = <<>> /\ torn' = FALSE
         \/ torn' \in BOOLEAN /\ data' = data
      /\ crossed' = (crossed \/ place \in InAdd)
      /\ UNCHANGED <<clock, stats, done, place, batch, reduce, kept, made, taskVars, runVars>>
    BY DEF Stop, StopEnds, Clears, addVars
<1>3. <<>> \in Seq(Record) /\ Len(<<>>) = 0 /\ Sorted(<<>>) /\ 0 <= Capacity
    BY EngineAssumption DEF Sorted
<1>4. TypeOK'
    <2>1. crossed' \in BOOLEAN
        BY <1>2
    <2>2. words' \in SUBSET Words
        BY <1>1 DEF IInv, TypeOK
    <2>3. data' \in Seq(Record) /\ Len(data') <= Capacity /\ torn' \in BOOLEAN
        BY <1>2, <1>3 DEF IInv, TypeOK
    <2>4. QED
        BY <1>2, <2>1, <2>2, <2>3 DEF IInv, TypeOK, taskVars, runVars
<1>5. SortInv'
    BY <1>2 DEF IInv, SortInv, Sorted
<1>6. EngineInv'
    <2>1. place = "append" => Len(data') + Len(batch) <= Capacity
        <3>1. place = "append" => Len(batch) \in 1 .. Capacity
            BY DEF IInv, EngineInv
        <3>2. QED
            BY <1>2, <1>3, <3>1, EngineAssumption DEF IInv, EngineInv
    <2>2. place = "cut" => crossed'
        BY <1>2 DEF InAdd
    <2>3. place = "cut" => reduce' = Reduce' \/ data' = <<>>
        <3>1. data' = data => Reduce' = Reduce
            BY <1>2 DEF Reduce, TooMany
        <3>2. QED
            BY <1>2, <3>1 DEF IInv, EngineInv
    <2>4. QED
        BY <1>2, <2>1, <2>2, <2>3 DEF IInv, EngineInv, locked
<1>7. Known' \subseteq Known
    BY <1>2 DEF Known
<1>8. QED
    BY <1>2, <1>4, <1>5, <1>6, <1>7, EngineStep
-----------------------------------------------------------------------------
(* An export appends records of this second with new numbers, which no task  *)
(* has seen and which lie behind every window (collector.go:148-165).        *)
LEMMA ExportStep == ASSUME IInv, NEW c \in Collectors, ExportAndClean(c) PROVE IInv'
<1>1. PICK ips \in SeqOf(Ips, MaxRecords - made) :
          /\ batch' = batch \o [i \in DOMAIN ips |->
                          [id |-> made + i, ip |-> ips[i], time |-> clock]]
          /\ made' = made + Len(ips)
    BY DEF ExportAndClean
<1> DEFINE new == [i \in DOMAIN ips |-> [id |-> made + i, ip |-> ips[i], time |-> clock]]
<1>2. /\ UNCHANGED <<clock, place, reduce, kept, data, torn, words, crossed,
                     engine, taskVars, runVars>>
      /\ place = "export" /\ done' = c
      /\ stats' = [k \in Collectors \X Ips |-> IF k[1] = c THEN 0 ELSE stats[k]]
    BY DEF ExportAndClean, dataVars
<1>3. /\ clock \in 0 .. MaxClock /\ clock \in Nat /\ made \in 0 .. MaxRecords /\ made \in Nat
      /\ batch \in Seq(Record) /\ data \in Seq(Record)
      /\ Sorted(batch) /\ Sorted(data) /\ MaxRecords \in Nat
    BY EngineAssumption DEF IInv, TypeOK, SortInv
<1>4. PICK m \in 0 .. MaxRecords - made : ips \in [1 .. m -> Ips]
    BY DEF SeqOf
<1>5. m \in Nat /\ DOMAIN ips = 1 .. m /\ Len(ips) = m /\ made + m \in 0 .. MaxRecords
    BY <1>3, <1>4
<1>6. \A i \in 1 .. m : [id |-> made + i, ip |-> ips[i], time |-> clock] \in Record
    <2>1. \A i \in 1 .. m : made + i \in 1 .. MaxRecords /\ ips[i] \in Ips
        BY <1>3, <1>4, <1>5
    <2>2. QED
        BY <1>3, <2>1 DEF Record
<1>7. /\ new \in [1 .. m -> Record]
      /\ \A i \in 1 .. m : new[i].id = made + i /\ new[i].time = clock
    BY <1>5, <1>6
<1>8. new \in Seq(Record) /\ Len(new) = m /\ DOMAIN new = 1 .. m
    BY <1>5, <1>7
<1>9. batch' = batch \o new
    BY <1>1
<1> HIDE DEF new
<1>10. batch \o new \in Seq(Record) /\ Len(batch \o new) = Len(batch) + m
    BY <1>3, <1>8
<1>11. TypeOK'
    <2>1. stats' \in [Collectors \X Ips -> Nat]
        BY <1>2 DEF IInv, TypeOK
    <2>2. batch' \in Seq(Record) /\ made' \in 0 .. MaxRecords
        BY <1>1, <1>5, <1>9, <1>10
    <2>3. done' \in 0 .. NCollectors
        BY <1>2, EngineAssumption DEF Collectors
    <2>4. QED
        BY <1>2, <2>1, <2>2, <2>3 DEF IInv, TypeOK, taskVars, runVars
<1>12. \A i \in DOMAIN batch, j \in DOMAIN new : batch[i].time <= new[j].time
    BY <1>7, <1>8 DEF IInv, KnownInv, Known
<1>13. Sorted(new)
    BY <1>3, <1>7, <1>8 DEF Sorted
<1>14. Sorted(batch')
    BY <1>3, <1>8, <1>9, <1>12, <1>13, SortedConcat
<1>15. \A i \in DOMAIN batch' :
          \/ batch'[i] \in {batch[j] : j \in DOMAIN batch}
          \/ batch'[i] \in {new[j] : j \in 1 .. m}
    <2>1. /\ Len(batch) \in Nat /\ DOMAIN batch = 1 .. Len(batch)
          /\ DOMAIN batch' = 1 .. Len(batch) + m
        BY <1>3, <1>5, <1>9, <1>10
    <2>2. \A i \in 1 .. Len(batch) + m :
             (batch \o new)[i] = IF i <= Len(batch) THEN batch[i] ELSE new[i - Len(batch)]
        BY <1>3, <1>5, <1>8, <2>1, ConcatProperties
    <2>3. ASSUME NEW i \in DOMAIN batch', i > Len(batch)
          PROVE  batch'[i] \in {new[j] : j \in 1 .. m}
        <3>1. i - Len(batch) \in 1 .. m
            BY <1>5, <2>1, <2>3
        <3>2. batch'[i] = new[i - Len(batch)]
            BY <1>5, <1>9, <2>1, <2>2, <2>3
        <3>3. QED
            BY <3>1, <3>2
    <2>4. ASSUME NEW i \in DOMAIN batch', i <= Len(batch)
          PROVE  batch'[i] \in {batch[j] : j \in DOMAIN batch}
        BY <1>5, <1>9, <2>1, <2>2, <2>4
    <2>5. QED
        BY <1>5, <2>1, <2>3, <2>4
<1>16. \A a \in Known' : a \in Known \/ \E j \in 1 .. m : a = new[j]
    BY <1>2, <1>15 DEF Known
<1>17. SortInv'
    <2>1. \A i \in DOMAIN data, j \in DOMAIN batch' : data[i].time <= batch'[j].time
        <3>1. \A i \in DOMAIN data : data[i].time <= clock
            BY DEF IInv, KnownInv, Known
        <3>2. \A i \in DOMAIN data, j \in DOMAIN batch : data[i].time <= batch[j].time
            BY DEF IInv, SortInv
        <3>3. QED
            BY <1>7, <1>15, <3>1, <3>2
    <2>2. QED
        BY <1>2, <1>3, <1>14, <2>1 DEF IInv, SortInv
<1>18. KnownInv'
    <2>1. \A a \in Known : a.id \in Nat /\ a.id <= made /\ a.time <= clock
        BY KnownRecords DEF IInv, KnownInv
    <2>2. \A a \in Known' : a.id <= made + m /\ a.time <= clock
        BY <1>3, <1>5, <1>7, <1>16, <2>1
    <2>3. ASSUME NEW a \in Known', NEW b \in Known', a.id = b.id PROVE a = b
        <3>1. CASE a \in Known /\ b \in Known
            BY <2>3, <3>1 DEF IInv, KnownInv
        <3>2. CASE \E i, j \in 1 .. m : a = new[i] /\ b = new[j]
            BY <1>3, <1>7, <2>3, <3>2
        <3>3. CASE a \in Known /\ \E j \in 1 .. m : b = new[j]
            BY <1>3, <1>7, <2>1, <2>3, <3>3
        <3>4. CASE b \in Known /\ \E j \in 1 .. m : a = new[j]
            BY <1>3, <1>7, <2>1, <2>3, <3>4
        <3>5. QED
            BY <1>16, <3>1, <3>2, <3>3, <3>4
    <2>4. QED
        BY <1>1, <1>2, <1>5, <2>2, <2>3 DEF KnownInv
<1>19. 1 .. made \subseteq 1 .. made' /\ \A j \in 1 .. m : new[j].id \notin 1 .. made
    BY <1>1, <1>3, <1>5, <1>7
<1>20. ASSUME NEW t \in Tasks PROVE TaskInv(t)'
    <2>1. TaskInv(t) /\ last[t] \in Nat /\ start[t] \in Nat
        BY EngineAssumption DEF IInv, TypeOK
    <2>2. seen[t] \subseteq 1 .. made'
        BY <1>1, <1>3, <1>5, <2>1 DEF TaskInv
    <2>3. ASSUME NEW j \in 1 .. m
          PROVE  /\ new[j].id \notin seen[t]
                 /\ ~(start[t] <= new[j].time /\ new[j].time < last[t])
        BY <1>3, <1>7, <2>1 DEF TaskInv
    <2>4. UNCHANGED <<seen, last, start, clock>>
        BY <1>2 DEF taskVars
    <2>5. QED
        BY <1>16, <2>1, <2>2, <2>3, <2>4 DEF TaskInv
<1>21. ASSUME NEW t \in Tasks, NEW r \in Runs PROVE WindowInv(t, r)'
    <2>1. WindowInv(t, r) /\ now[<<t, r>>] \in Nat
        BY EngineAssumption DEF IInv, TypeOK
    <2>2. got[<<t, r>>] \subseteq 1 .. made /\ now[<<t, r>>] <= clock
        BY <2>1 DEF WindowInv
    <2>3. got[<<t, r>>] \subseteq 1 .. made'
        BY <1>19, <2>2
    <2>4. ASSUME NEW j \in 1 .. m
          PROVE  new[j].id \notin got[<<t, r>>] /\ ~(new[j].time < now[<<t, r>>])
        <3>1. new[j].id \notin got[<<t, r>>]
            BY <1>19, <2>2
        <3>2. ~(clock < now[<<t, r>>])
            BY <1>3, <2>1, <2>2
        <3>3. QED
            BY <1>7, <3>1, <3>2
    <2>5. UNCHANGED <<at, from, now, got, seen, last, clock>>
        BY <1>2 DEF taskVars, runVars
    <2>6. QED
        BY <1>16, <2>1, <2>3, <2>4, <2>5 DEF WindowInv
<1>22. EngineInv'
    <2>1. engine # "panicked"
        BY DEF ExportAndClean, Alive
    <2>2. QED
        BY <1>2, <2>1 DEF IInv, EngineInv, InAdd, locked
<1>23. QED
    BY <1>11, <1>17, <1>18, <1>20, <1>21, <1>22 DEF IInv
-----------------------------------------------------------------------------
(* A task begins with a window of no time (report_task.go:39-47).            *)
LEMMA StartTaskStep == ASSUME IInv, NEW t \in Tasks, StartTask(t) PROVE IInv'
<1>1. PICK s \in Starts :
          last' = [last EXCEPT ![t] = s] /\ start' = [start EXCEPT ![t] = s]
    BY DEF StartTask
<1>2. /\ active' = active \cup {t} /\ seen' = [seen EXCEPT ![t] = {}]
      /\ \A r \in Runs : at[<<t, r>>] = "idle"
      /\ UNCHANGED <<clock, stats, done, place, batch, reduce, kept,
                     data, torn, words, crossed, made, engine, at, from, now, got>>
    BY DEF StartTask, engineVars, addVars, dataVars, runVars
<1>3. s \in 0 .. MaxClock /\ s \in Nat
    BY EngineAssumption
<1>4. TypeOK'
    BY <1>1, <1>2, <1>3 DEF IInv, TypeOK
<1>5. EngineInv' /\ SortInv' /\ KnownInv' /\ Known' = Known
    BY <1>2 DEF IInv, EngineInv, SortInv, KnownInv, Known, Reduce, TooMany, locked
<1>6. ASSUME NEW u \in Tasks PROVE TaskInv(u)'
    <2>1. CASE u = t
        <3>1. seen'[t] = {} /\ last'[t] = s /\ start'[t] = s
            BY <1>1, <1>2, <1>3 DEF IInv, TypeOK
        <3>2. \A a \in Known' : ~(s <= a.time /\ a.time < s)
            BY <1>3, <1>5, KnownRecords DEF IInv
        <3>3. QED
            BY <2>1, <3>1, <3>2 DEF TaskInv
    <2>2. CASE u # t
        <3>1. seen'[u] = seen[u] /\ last'[u] = last[u] /\ start'[u] = start[u]
            BY <1>1, <1>2, <2>2 DEF IInv, TypeOK
        <3>2. TaskInv(u)
            BY DEF IInv
        <3>3. QED
            BY <1>2, <1>5, <3>1, <3>2 DEF TaskInv
    <2>3. QED
        BY <2>1, <2>2
<1>7. ASSUME NEW u \in Tasks, NEW r \in Runs PROVE WindowInv(u, r)'
    <2>1. WindowInv(u, r)
        BY DEF IInv
    <2>2. CASE u = t
        <3>1. at[<<u, r>>] = "idle" /\ got[<<u, r>>] = {} /\ now[<<u, r>>] <= clock
            BY <1>2, <2>1, <2>2 DEF WindowInv
        <3>2. QED
            BY <1>2, <3>1 DEF WindowInv
    <2>3. CASE u # t
        <3>1. seen'[u] = seen[u] /\ last'[u] = last[u]
            BY <1>1, <1>2, <2>3 DEF IInv, TypeOK
        <3>2. QED
            BY <1>2, <1>5, <2>1, <3>1 DEF WindowInv
    <2>4. QED
        BY <2>2, <2>3
<1>8. QED
    BY <1>4, <1>5, <1>6, <1>7 DEF IInv

LEMMA StopTaskStep == ASSUME IInv, NEW t \in Tasks, StopTask(t) PROVE IInv'
<1>1. /\ active' = active \ {t}
      /\ UNCHANGED <<clock, stats, done, place, batch, reduce, kept,
                     data, torn, words, crossed, made, engine, last, start, seen, at, from, now, got>>
    BY DEF StopTask, engineVars, addVars, dataVars, runVars
<1>2. TypeOK'
    BY <1>1 DEF IInv, TypeOK
<1>3. EngineInv' /\ SortInv' /\ KnownInv' /\ Known' = Known
    BY <1>1 DEF IInv, EngineInv, SortInv, KnownInv, Known, Reduce, TooMany, locked
<1>4. ASSUME NEW u \in Tasks PROVE TaskInv(u)'
    BY <1>1, <1>3 DEF IInv, TaskInv
<1>5. ASSUME NEW u \in Tasks, NEW r \in Runs PROVE WindowInv(u, r)'
    BY <1>1, <1>3 DEF IInv, WindowInv
<1>6. QED
    BY <1>2, <1>3, <1>4, <1>5 DEF IInv

(* A run reads the clock, and lastStatTime (report_task.go:76-89).           *)
LEMMA FetchStep ==
    ASSUME IInv, NEW t \in Tasks, NEW r \in Runs, PeriodFetch(t, r) PROVE IInv'
<1> DEFINE p == <<t, r>>
<1>1. /\ at[p] = "idle"
      /\ now' = [now EXCEPT ![p] = clock] /\ from' = [from EXCEPT ![p] = last[t]]
      /\ at' = [at EXCEPT ![p] = "query"]
      /\ UNCHANGED <<clock, stats, done, place, batch, reduce, kept,
                     data, torn, words, crossed, made, engine, active, last, start, seen, got>>
    BY DEF PeriodFetch, engineVars, addVars, dataVars, taskVars
<1>2. TypeOK'
    BY <1>1 DEF IInv, TypeOK
<1>3. EngineInv' /\ SortInv' /\ KnownInv' /\ Known' = Known
    BY <1>1 DEF IInv, EngineInv, SortInv, KnownInv, Known, Reduce, TooMany, locked
<1>4. ASSUME NEW u \in Tasks PROVE TaskInv(u)'
    BY <1>1, <1>3 DEF IInv, TaskInv
<1>5. ASSUME NEW u \in Tasks, NEW x \in Runs PROVE WindowInv(u, x)'
    <2>1. WindowInv(u, x) /\ <<u, x>> \in Tasks \X Runs /\ p \in Tasks \X Runs
        BY DEF IInv
    <2>2. CASE <<u, x>> = p
        <3>1. /\ at'[p] = "query" /\ now'[p] = clock /\ from'[p] = last[t]
              /\ got'[p] = {}
            BY <1>1, <2>1, <2>2 DEF IInv, TypeOK, WindowInv
        <3>2. u = t /\ x = r
            BY <2>2
        <3>3. clock <= clock
            BY EngineAssumption DEF IInv, TypeOK
        <3>4. QED
            BY <1>1, <3>1, <3>2, <3>3 DEF WindowInv
    <2>3. CASE <<u, x>> # p
        <3>1. /\ at'[<<u, x>>] = at[<<u, x>>] /\ now'[<<u, x>>] = now[<<u, x>>]
              /\ from'[<<u, x>>] = from[<<u, x>>]
            BY <1>1, <2>1, <2>3 DEF IInv, TypeOK
        <3>2. QED
            BY <1>1, <1>3, <2>1, <3>1 DEF WindowInv
    <2>4. QED
        BY <2>2, <2>3
<1>6. QED
    BY <1>2, <1>3, <1>4, <1>5 DEF IInv
-----------------------------------------------------------------------------
(* What sort.Search finds on sorted data: all that is earlier lies before.   *)
LEMMA BoundaryRight ==
    ASSUME TypeOK, Sorted(data), NEW x \in Nat, NEW k \in Boundary(x), NEW i \in DOMAIN data
    PROVE  k \in Nat /\ (i <= k <=> data[i].time < x)
<1> DEFINE n == Len(data)
           time == [j \in 1 .. n |-> data[j].time]
<1>1. n \in Nat /\ DOMAIN data = 1 .. n
    BY DEF TypeOK
<1>2. \A j \in 1 .. n : data[j] \in Known
    BY <1>1 DEF Known
<1>3. time \in [1 .. n -> Nat] /\ \A j \in 1 .. n : time[j] = data[j].time
    BY <1>2, KnownRecords
<1>4. k \in 0 .. n /\ (k = 0 \/ data[k].time < x) /\ (k = n \/ x <= data[k + 1].time)
    BY DEF Boundary
<1>5. \A j, l \in 1 .. n : j < l => time[j] <= time[l]
    BY <1>1, <1>3 DEF Sorted
<1> HIDE DEF n, time
<1>6. (k # 0 => time[k] < x) /\ (k # n => x <= time[k + 1])
    <2>1. k # 0 => k \in 1 .. n
        BY <1>1, <1>4
    <2>2. k # n => k + 1 \in 1 .. n
        BY <1>1, <1>4
    <2>3. QED
        BY <1>3, <1>4, <2>1, <2>2
<1>7. i \in 1 .. n
    BY <1>1
<1>8. i <= k <=> time[i] < x
    <2>1. CASE i <= k
        <3>1. k \in 1 .. n /\ k # 0 /\ (i = k \/ i < k)
            BY <1>1, <1>4, <1>7, <2>1
        <3>2. time[i] <= time[k] /\ time[k] < x
            BY <1>3, <1>5, <1>6, <1>7, <3>1
        <3>3. time[i] \in Nat /\ time[k] \in Nat
            BY <1>3, <1>7, <3>1
        <3>4. QED
            BY <2>1, <3>2, <3>3
    <2>2. CASE ~(i <= k)
        <3>1. k + 1 \in 1 .. n /\ k # n /\ (i = k + 1 \/ k + 1 < i)
            BY <1>1, <1>4, <1>7, <2>2
        <3>2. time[k + 1] <= time[i] /\ x <= time[k + 1]
            BY <1>3, <1>5, <1>6, <1>7, <3>1
        <3>3. time[i] \in Nat /\ time[k + 1] \in Nat
            BY <1>3, <1>7, <3>1
        <3>4. QED
            BY <2>2, <3>2, <3>3
    <2>3. QED
        BY <2>1, <2>2
<1>9. QED
    BY <1>1, <1>3, <1>4, <1>7, <1>8

(* A window has the records from its begin to before its end, or nothing,    *)
(* where the search panics.                                                  *)
LEMMA SearchRight ==
    ASSUME TypeOK, Sorted(data), NEW s \in Nat, NEW e \in Nat, NEW places \in Search(s, e)
    PROVE  /\ places \subseteq DOMAIN data
           /\ \A i \in DOMAIN data :
                 i \in places => s <= data[i].time /\ data[i].time < e
           /\ places # {} =>
                 \A i \in DOMAIN data :
                    s <= data[i].time /\ data[i].time < e => i \in places
<1> SUFFICES ASSUME places # {} PROVE
        /\ places \subseteq DOMAIN data
        /\ \A i \in DOMAIN data :
              i \in places <=> s <= data[i].time /\ data[i].time < e
    OBVIOUS
<1>1. PICK lo \in Boundary(s), hi \in Boundary(e) : places = lo + 1 .. hi
    BY DEF Search
<1>2. Len(data) \in Nat /\ DOMAIN data = 1 .. Len(data)
    BY DEF TypeOK
<1>3. lo \in 0 .. Len(data) /\ hi \in 0 .. Len(data)
    BY DEF Boundary
<1>4. ASSUME NEW i \in DOMAIN data
      PROVE  i \in places <=> s <= data[i].time /\ data[i].time < e
    <2>1. (i <= lo <=> data[i].time < s) /\ (i <= hi <=> data[i].time < e)
        BY BoundaryRight
    <2>2. i \in Nat /\ data[i].time \in Nat
        BY <1>2, KnownRecords DEF Known
    <2>3. QED
        BY <1>1, <1>3, <2>1, <2>2
<1>5. QED
    BY <1>1, <1>2, <1>3, <1>4

(* A run gets what it wants of its window: nobody is exporting, so all there *)
(* is before the end of the window is in the data (bandwidth_engine.go:46).  *)
LEMMA QueryStep == ASSUME IInv, NEW t \in Tasks, NEW r \in Runs, Query(t, r) PROVE IInv'
<1> DEFINE p == <<t, r>>
           Found(places) == {data[i].id : i \in {j \in places : data[j].ip \in Wants[t]}}
<1>1. PICK places \in Search(from[p], now[p]) :
          /\ got' = [got EXCEPT ![p] = Found(places)]
          /\ at' = [at EXCEPT ![p] = IF Found(places) = {} THEN "idle" ELSE "account"]
          /\ now' = IF Found(places) = {} THEN [now EXCEPT ![p] = 0] ELSE now
    BY DEF Query
<1> DEFINE found == Found(places)
<1>2. /\ at[p] = "query" /\ ~locked /\ from' = [from EXCEPT ![p] = 0]
      /\ UNCHANGED <<clock, stats, done, place, batch, reduce, kept,
                     data, torn, words, crossed, made, engine, active, last, start, seen>>
    BY DEF Query, engineVars, addVars, dataVars, taskVars
<1>3. p \in Tasks \X Runs /\ from[p] \in Nat /\ now[p] \in Nat /\ clock \in Nat /\ made \in Nat
    BY EngineAssumption DEF IInv, TypeOK
<1>4. /\ places \subseteq DOMAIN data
      /\ \A i \in DOMAIN data :
            i \in places => from[p] <= data[i].time /\ data[i].time < now[p]
      /\ places # {} =>
            \A i \in DOMAIN data :
               from[p] <= data[i].time /\ data[i].time < now[p] => i \in places
    BY <1>3, SearchRight DEF IInv, SortInv
<1>5. Known = {data[i] : i \in DOMAIN data}
    BY <1>2 DEF IInv, EngineInv, Known, InAdd, locked
<1>6. \A a \in Known : a \in Record /\ a.time \in Nat /\ a.id \in Nat
    BY KnownRecords DEF IInv
<1>7. \A x \in found : \E a \in Known :
          /\ a.id = x /\ a.ip \in Wants[t]
          /\ from[p] <= a.time /\ a.time < now[p]
    BY <1>4, <1>5
<1>8. found # {} => \A a \in Known :
          a.ip \in Wants[t] /\ from[p] <= a.time /\ a.time < now[p] => a.id \in found
    BY <1>4, <1>5
<1> HIDE DEF found, Found
<1>9. found \subseteq 1 .. MaxRecords /\ found \subseteq 1 .. made
    <2>1. \A a \in Known : a.id \in 1 .. MaxRecords /\ a.id <= made
        BY <1>6 DEF IInv, KnownInv, Record
    <2>2. QED
        BY <1>3, <1>7, <2>1, EngineAssumption
<1>10. TypeOK'
    <2>1. 0 \in 0 .. MaxClock
        BY EngineAssumption
    <2>2. got' \in [Tasks \X Runs -> SUBSET (1 .. MaxRecords)]
        BY <1>1, <1>9 DEF IInv, TypeOK, found
    <2>3. /\ at' \in [Tasks \X Runs -> {"idle", "query", "account"}]
          /\ now' \in [Tasks \X Runs -> 0 .. MaxClock]
          /\ from' \in [Tasks \X Runs -> 0 .. MaxClock]
        BY <1>1, <1>2, <2>1 DEF IInv, TypeOK
    <2>4. QED
        BY <1>2, <2>2, <2>3 DEF IInv, TypeOK
<1>11. EngineInv' /\ SortInv' /\ KnownInv' /\ Known' = Known
    BY <1>2 DEF IInv, EngineInv, SortInv, KnownInv, Known, Reduce, TooMany, locked
<1>12. ASSUME NEW u \in Tasks PROVE TaskInv(u)'
    BY <1>2, <1>11 DEF IInv, TaskInv
<1>13. ASSUME NEW u \in Tasks, NEW x \in Runs PROVE WindowInv(u, x)'
    <2>1. WindowInv(u, x) /\ <<u, x>> \in Tasks \X Runs
        BY DEF IInv
    <2>2. CASE <<u, x>> # p
        <3>1. /\ at'[<<u, x>>] = at[<<u, x>>] /\ now'[<<u, x>>] = now[<<u, x>>]
              /\ from'[<<u, x>>] = from[<<u, x>>] /\ got'[<<u, x>>] = got[<<u, x>>]
            BY <1>1, <1>2, <2>1, <2>2 DEF IInv, TypeOK
        <3>2. QED
            BY <1>2, <1>11, <2>1, <3>1 DEF WindowInv
    <2>3. CASE <<u, x>> = p
        <3>1. u = t /\ x = r
            BY <2>3
        <3>2. from[p] = last[t] /\ now[p] <= clock
            BY <1>2, <2>1, <3>1 DEF WindowInv
        <3>3. got'[p] = found
            BY <1>1, <1>3 DEF IInv, TypeOK, found
        <3>4. CASE found = {}
            <4>1. at'[p] = "idle" /\ now'[p] = 0
                BY <1>1, <1>3, <3>4 DEF IInv, TypeOK, found
            <4>2. 0 <= clock
                BY <1>3
            <4>3. QED
                BY <1>2, <3>1, <3>3, <3>4, <4>1, <4>2 DEF WindowInv
        <3>5. CASE found # {}
            <4>1. at'[p] = "account" /\ now'[p] = now[p]
                BY <1>1, <1>3, <3>5 DEF IInv, TypeOK, found
            <4>2. found \cap seen[t] = {}
                <5>1. \A a \in Known : a.id \in seen[t] => a.time < last[t]
                    BY DEF IInv, TaskInv
                <5>2. \A a \in Known : last[t] <= a.time => ~(a.time < last[t])
                    BY <1>3, <1>6, <3>2
                <5>3. QED
                    BY <1>7, <3>2, <5>1, <5>2
            <4>3. \A a \in Known : a.id \in found => a.time < now[p]
                BY <1>7 DEF IInv, KnownInv
            <4>4. last[t] <= now[p]
                BY <1>3, <1>6, <1>7, <3>2, <3>5
            <4>5. QED
                BY <1>2, <1>8, <1>9, <1>11, <3>1, <3>2, <3>3, <3>5, <4>1, <4>2, <4>3, <4>4
                DEF WindowInv
        <3>6. QED
            BY <3>4, <3>5
    <2>4. QED
        BY <2>2, <2>3
<1>14. QED
    BY <1>10, <1>11, <1>12, <1>13 DEF IInv

(* lastStatTime moves to the end of the window, and what was got is seen     *)
(* (report_task.go:97).                                                      *)
LEMMA AccountStep ==
    ASSUME IInv, \A x, y \in Runs : x = y, NEW t \in Tasks, NEW r \in Runs, Account(t, r)
    PROVE  IInv'
<1> DEFINE p == <<t, r>>
<1>1. /\ at[p] = "account"
      /\ last' = [last EXCEPT ![t] = now[p]]
      /\ seen' = [seen EXCEPT ![t] = seen[t] \cup got[p]]
      /\ got' = [got EXCEPT ![p] = {}] /\ now' = [now EXCEPT ![p] = 0]
      /\ at' = [at EXCEPT ![p] = "idle"]
      /\ UNCHANGED <<clock, stats, done, place, batch, reduce, kept,
                     data, torn, words, crossed, made, engine, active, start, from>>
    BY DEF Account, engineVars, addVars, dataVars
<1>2. /\ p \in Tasks \X Runs /\ now[p] \in 0 .. MaxClock /\ now[p] \in Nat /\ last[t] \in Nat
      /\ clock \in Nat /\ got[p] \subseteq 1 .. MaxRecords
    BY EngineAssumption DEF IInv, TypeOK
<1>3. TypeOK'
    <2>1. 0 \in 0 .. MaxClock
        BY EngineAssumption
    <2>2. seen' \in [Tasks -> SUBSET (1 .. MaxRecords)]
        BY <1>1, <1>2 DEF IInv, TypeOK
    <2>3. QED
        BY <1>1, <1>2, <2>1, <2>2 DEF IInv, TypeOK
<1>4. EngineInv' /\ SortInv' /\ KnownInv' /\ Known' = Known
    BY <1>1 DEF IInv, EngineInv, SortInv, KnownInv, Known, Reduce, TooMany, locked
<1>5. TaskInv(t) /\ WindowInv(t, r)
    BY DEF IInv
<1>6. ASSUME NEW u \in Tasks PROVE TaskInv(u)'
    <2>1. CASE u # t
        <3>1. seen'[u] = seen[u] /\ last'[u] = last[u] /\ TaskInv(u)
            BY <1>1, <2>1 DEF IInv, TypeOK
        <3>2. QED
            BY <1>1, <1>4, <3>1 DEF TaskInv
    <2>2. CASE u = t
        <3>1. seen'[t] = seen[t] \cup got[p] /\ last'[t] = now[p]
            BY <1>1 DEF IInv, TypeOK
        <3>2. last[t] <= now[p] /\ now[p] <= clock
            BY <1>1, <1>5 DEF WindowInv
        <3>3. ASSUME NEW a \in Known, a.id \in seen[t] \cup got[p] PROVE a.time < now[p]
            <4>1. a.time \in Nat
                BY KnownRecords DEF IInv
            <4>2. CASE a.id \in seen[t]
                BY <1>2, <1>5, <3>2, <4>1, <4>2 DEF TaskInv
            <4>3. CASE a.id \in got[p]
                BY <1>1, <1>5, <4>3 DEF WindowInv
            <4>4. QED
                BY <3>3, <4>2, <4>3
        <3>4. ASSUME NEW a \in Known, a.ip \in Wants[t], start[t] <= a.time, a.time < now[p]
              PROVE  a.id \in seen[t] \cup got[p]
            <4>1. a.time \in Nat
                BY KnownRecords DEF IInv
            <4>2. CASE a.time < last[t]
                BY <1>5, <3>4, <4>2 DEF TaskInv
            <4>3. CASE last[t] <= a.time
                BY <1>1, <1>5, <3>4, <4>3 DEF WindowInv
            <4>4. QED
                BY <1>2, <4>1, <4>2, <4>3
        <3>5. seen[t] \cup got[p] \subseteq 1 .. made
            BY <1>5 DEF TaskInv, WindowInv
        <3>6. QED
            BY <1>1, <1>4, <2>2, <3>1, <3>2, <3>3, <3>4, <3>5 DEF TaskInv
    <2>3. QED
        BY <2>1, <2>2
<1>7. ASSUME NEW u \in Tasks, NEW x \in Runs PROVE WindowInv(u, x)'
    <2>1. WindowInv(u, x) /\ <<u, x>> \in Tasks \X Runs
        BY DEF IInv
    <2>2. CASE u # t
        <3>1. /\ at'[<<u, x>>] = at[<<u, x>>] /\ now'[<<u, x>>] = now[<<u, x>>]
              /\ got'[<<u, x>>] = got[<<u, x>>]
              /\ seen'[u] = seen[u] /\ last'[u] = last[u]
            BY <1>1, <2>1, <2>2 DEF IInv, TypeOK
        <3>2. QED
            BY <1>1, <1>4, <2>1, <3>1 DEF WindowInv
    <2>3. CASE u = t
        <3>1. x = r
            OBVIOUS
        <3>2. at'[p] = "idle" /\ now'[p] = 0 /\ got'[p] = {}
            BY <1>1, <1>2 DEF IInv, TypeOK
        <3>3. 0 <= clock
            BY <1>2
        <3>4. QED
            BY <1>1, <2>3, <3>1, <3>2, <3>3 DEF WindowInv
    <2>4. QED
        BY <2>2, <2>3
<1>8. QED
    BY <1>3, <1>4, <1>6, <1>7 DEF IInv
-----------------------------------------------------------------------------
(* Every step keeps the invariant, when the runs of a task do not overlap.   *)
LEMMA NextIInv == ASSUME IInv, \A x, y \in Runs : x = y, [Next]_vars PROVE IInv'
<1>1. CASE UNCHANGED vars
    <2>1. UNCHANGED <<clock, stats, done, place, batch, reduce, kept,
                     data, torn, words, crossed, made, engine,  active, last, start, seen, at, from, now, got>>
        BY <1>1 DEF vars, engineVars, addVars, dataVars, taskVars, runVars
    <2>2. Known' = Known /\ clock \in Nat
        BY <2>1, EngineAssumption DEF Known, IInv, TypeOK
    <2>3. TypeOK' /\ EngineInv' /\ SortInv'
        BY <2>1 DEF IInv, TypeOK, EngineInv, SortInv, Reduce, TooMany, locked
    <2>4. QED
        BY <2>1, <2>2, <2>3, KnownShrinks DEF IInv, taskVars, runVars
<1>2. CASE Tick
    BY <1>2, TickStep
<1>3. CASE Collect
    BY <1>3, LockStep, ExportStep, NothingStep, AddStep, CutStep, KeepStep, AppendStep,
       StoreStep, PanicStep
    DEF Collect, AddSteps
<1>4. CASE Stop \/ StopEnds
    BY <1>4, StopStep
<1>5. ASSUME NEW c \in Collectors, NEW ip \in Ips, AddPacketLen(c, ip) PROVE IInv'
    BY <1>5, PacketStep
<1>6. ASSUME NEW t \in Tasks, StartTask(t) \/ StopTask(t) PROVE IInv'
    BY <1>6, StartTaskStep, StopTaskStep
<1>7. ASSUME NEW t \in Tasks, NEW r \in Runs, Run(t, r) PROVE IInv'
    BY <1>7, FetchStep, QueryStep, AccountStep DEF Run
<1>8. QED
    BY <1>1, <1>2, <1>3, <1>4, <1>5, <1>6, <1>7 DEF Next

(* The clock begins at 1, and a run of a task has ended when cron starts the *)
(* next one, ten seconds later (report_task.go:67).                          *)
OneRun == 1 <= MaxClock /\ \A x, y \in Runs : x = y

THEOREM Invariance == ASSUME OneRun PROVE Spec => []IInv
<1>1. 1 \in 0 .. MaxClock
    BY EngineAssumption DEF OneRun
<1>2. Init => IInv
    BY <1>1, InitIInv
<1>3. IInv /\ [Next]_vars => IInv'
    BY NextIInv DEF OneRun
<1>4. QED
    BY <1>2, <1>3, PTL DEF Spec

(* The variables stay in range, the data within the capacity.                *)
THEOREM TypeCorrect == ASSUME OneRun PROVE Spec => []TypeOK
<1>1. IInv => TypeOK
    BY DEF IInv
<1>2. QED
    BY <1>1, Invariance, PTL

(* The windows of every task tile the time: what its session sends is        *)
(* accounted for once (bandwidth_engine.go:46-101, report_task.go:82-97).    *)
THEOREM WindowsTileTime == ASSUME OneRun PROVE Spec => []WindowsTile
<1>1. IInv => DataSorted
    BY SortedConcat DEF IInv, TypeOK, SortInv, DataSorted
<1>2. IInv => NoneTwice
    BY DEF IInv, WindowInv, NoneTwice
<1>3. IInv => NoneSkipped
    BY DEF IInv, TaskInv, Known, NoneSkipped
<1>4. IInv => WindowsTile
    BY <1>1, <1>2, <1>3 DEF WindowsTile
<1>5. QED
    BY <1>4, Invariance, PTL

(* Add panics only on a batch of more than half of the capacity, or when     *)
(* Stop takes the data while it runs, whatever else Stop interleaves with    *)
(* (bandwidth_engine.go:40-44, 86-99).                                       *)
THEOREM PanicNeedsLargeBatchOrStop == ASSUME OneRun PROVE Spec => []PanicsOnlyOnLargeBatchOrStop
<1>1. IInv => PanicsOnlyOnLargeBatchOrStop
    BY DEF IInv, EngineInv, PanicsOnlyOnLargeBatchOrStop
<1>2. QED
    BY <1>1, Invariance, PTL
=============================================================================
