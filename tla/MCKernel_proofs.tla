-------------------------- MODULE MCKernel_proofs --------------------------
(* What the probes promise, for any number of threads, processes, CPUs,      *)
(* goroutines, contexts, elements, pages and calls.  A behaviour of MCKernel *)
(* is one of the part `part` names, so an invariant of a part is one of      *)
(* those behaviours.                                                         *)
EXTENDS MCKernel, FiniteSetTheorems, TLAPS

(* A step is a step of the part, or leaves the variables of the part alone.  *)
LEMMA PartSteps ==
    ASSUME [Next]_vars
    PROVE  /\ part' = part
           /\ part = "latency" => [Latency!Next]_latencyVars
           /\ part = "alloc" => [Alloc!Next]_allocVars
           /\ part = "span" => [Span!Next]_spanVars
<1>1. CASE UNCHANGED vars
    BY <1>1 DEF vars
<1>2. CASE Next
    BY <1>2 DEF Next, LatencyNext, AllocNext, SpanNext, XdpNext, ObjectNext, LinkNext,
        XskNext, RingNext, PerfNext, NlNext, AttrNext
<1>3. QED
    BY <1>1, <1>2
-----------------------------------------------------------------------------
(* perf.bpf.c, the entries and returns of the probed function.               *)

(* A call is under way on one thread at most; who shares its process with    *)
(* another call is disturbed.                                                *)

LatencyTypes ==
    /\ stack \in [Threads -> Seq(Nat)]
    /\ latency_step \in [Threads -> {"running", "found", "ended", "deleted"}]
    /\ stat \in [Threads -> Elements \cup {None}]
    /\ element \in [Elements -> Latency!Record \cup {None}]
    /\ fun_perf_stat_events \in [Latency!Processes -> Elements \cup {None}]
    /\ latency_events \subseteq Latency!Record \X (1..LatencyCalls)
    /\ latency_calls \in 0..LatencyCalls
    /\ disturbed \subseteq 1..LatencyCalls
    /\ unmeasured \subseteq 1..LatencyCalls
    /\ \A t \in Threads :
        /\ Len(stack[t]) <= latency_calls
        /\ \A i \in 1..Len(stack[t]) : stack[t][i] \in 1..latency_calls
        /\ stat[t] = None <=> latency_step[t] = "running"
        /\ stat[t] # None => stack[t] # <<>> /\ element[stat[t]] \in Latency!Record
Stored ==
    /\ \A p \in Latency!Processes : fun_perf_stat_events[p] # None =>
        element[fun_perf_stat_events[p]] \in Latency!Record
    /\ \A p, q \in Latency!Processes : fun_perf_stat_events[p] = fun_perf_stat_events[q] =>
        p = q \/ fun_perf_stat_events[p] = None

(* Two calls that are in one process at once are both disturbed.             *)
Alone == \A t, u \in Threads : \A i \in 1..Len(stack[t]), j \in 1..Len(stack[u]) :
    Process[t] = Process[u] /\ stack[t][i] \notin disturbed => t = u /\ i = j

(* What an undisturbed call has done so far is in its own element.           *)
OwnRecord == \A t \in Threads : \A i \in 1..Len(stack[t]) :
    LET c == stack[t][i]
        e == fun_perf_stat_events[Process[t]]
    IN  c \notin disturbed =>
        /\ latency_step[t] = "running" =>
            IF e = None THEN c \in unmeasured ELSE element[e].start_time = c
        /\ latency_step[t] \in {"found", "ended"} => e = stat[t]
        /\ latency_step[t] # "running" => element[stat[t]].start_time = c
        /\ latency_step[t] \in {"ended", "deleted"} => element[stat[t]].end_time = c

(* No other thread points to its element, nor does another process keep it.  *)
OwnElement == \A t \in Threads : stack[t] # <<>> /\ Head(stack[t]) \notin disturbed =>
    /\ \A u \in Threads : u # t /\ stat[u] # None =>
        stat[u] # stat[t] /\ stat[u] # fun_perf_stat_events[Process[t]]
    /\ stat[t] # None => \A p \in Latency!Processes : p # Process[t] =>
        fun_perf_stat_events[p] # stat[t]

(* The record of a process was stored by a call that is unmeasured or will   *)
(* delete it.                                                                *)
StoredBy == \A p \in Latency!Processes : fun_perf_stat_events[p] # None =>
    LET c == element[fun_perf_stat_events[p]].start_time
    IN  \/ c \in unmeasured
        \/ \E t \in Threads : Process[t] = p /\ \E i \in 1..Len(stack[t]) :
            stack[t][i] = c /\ (latency_step[t] = "deleted" => i # 1)

LatencyInv == LatencyTypes /\ Stored /\ Alone /\ OwnRecord /\ OwnElement
    /\ Latency!ReportsOwnCall /\ Latency!ReportsEveryCall
        /\ StoredBy

LEMMA PushSeq ==
    ASSUME NEW s \in Seq(Nat), NEW c \in Nat
    PROVE  /\ <<c>> \o s \in Seq(Nat) /\ Len(<<c>> \o s) = Len(s) + 1
           /\ (<<c>> \o s)[1] = c
           /\ \A i \in 1..Len(s) : (<<c>> \o s)[i + 1] = s[i]
           /\ \A i \in 1..(Len(s) + 1) : i # 1 =>
                i - 1 \in 1..Len(s) /\ (<<c>> \o s)[i] = s[i - 1]
OBVIOUS

LEMMA PopSeq ==
    ASSUME NEW s \in Seq(Nat), s # <<>>
    PROVE  /\ Tail(s) \in Seq(Nat) /\ Len(Tail(s)) = Len(s) - 1
           /\ 1 \in 1..Len(s) /\ Head(s) = s[1]
           /\ \A i \in 1..Len(Tail(s)) : i + 1 \in 1..Len(s) /\ Tail(s)[i] = s[i + 1]
           /\ \A i \in 1..Len(s) : i # 1 =>
                i - 1 \in 1..Len(Tail(s)) /\ Tail(s)[i - 1] = s[i]
OBVIOUS

(* The calls that are under way in a process.                                *)
LEMMA UnderwayIs ==
    ASSUME stack \in [Threads -> Seq(Nat)], NEW p, NEW c
    PROVE  c \in Latency!Underway(p) <=>
               \E t \in Threads : Process[t] = p /\ \E i \in 1..Len(stack[t]) : stack[t][i] = c
<1>1. \A t \in Threads : Latency!Range(stack[t]) = {stack[t][i] : i \in 1..Len(stack[t])}
    BY DEF Latency!Range
<1>2. QED
    BY <1>1 DEF Latency!Underway

LEMMA UnderwayIsNext ==
    ASSUME stack' \in [Threads -> Seq(Nat)], NEW p, NEW c
    PROVE  c \in Latency!Underway(p)' <=>
               \E t \in Threads : Process[t] = p /\ \E i \in 1..Len(stack'[t]) : stack'[t][i] = c
<1>1. \A t \in Threads : Latency!Range(stack'[t]) = {stack'[t][i] : i \in 1..Len(stack'[t])}
    BY DEF Latency!Range
<1>2. QED
    BY <1>1 DEF Latency!Underway

LEMMA LatencyInit == ASSUME Latency!LatencyAssumption, Latency!Init PROVE LatencyInv
<1>1. \A t \in Threads : stack[t] = <<>> /\ Len(stack[t]) = 0 /\ stat[t] = None
    BY DEF Latency!Init
<1>2. \A p \in Latency!Processes : fun_perf_stat_events[p] = None
    BY DEF Latency!Init
<1>3. LatencyTypes
    BY <1>1 DEF Latency!Init, LatencyTypes, Latency!LatencyAssumption
<1>4. Stored /\ StoredBy
    BY <1>2 DEF Stored, StoredBy
<1>5. Alone /\ OwnRecord /\ OwnElement
    BY <1>1 DEF Alone, OwnRecord, OwnElement
<1>6. Latency!ReportsOwnCall /\ Latency!ReportsEveryCall
    BY DEF Latency!Init, Latency!ReportsOwnCall, Latency!ReportsEveryCall
<1>7. QED
    BY <1>3, <1>4, <1>5, <1>6 DEF LatencyInv

LEMMA ProcessOf == ASSUME NEW t \in Threads PROVE Process[t] \in Latency!Processes
BY DEF Latency!Processes

(* A call that is not disturbed is alone on its thread.                      *)
LEMMA OnlyCall ==
    ASSUME LatencyTypes, Alone, NEW t \in Threads, NEW i \in 1..Len(stack[t]),
           stack[t][i] \notin disturbed
    PROVE  /\ i = 1 /\ Head(stack[t]) = stack[t][i] /\ Len(stack[t]) = 1
           /\ \A u \in Threads : u # t /\ Process[u] = Process[t] => stack[u] = <<>>
<1>1. stack[t] \in Seq(Nat) /\ Len(stack[t]) \in Nat /\ stack[t] # <<>>
    BY DEF LatencyTypes
<1>2. 1 \in 1..Len(stack[t]) /\ Len(stack[t]) \in 1..Len(stack[t])
    BY <1>1
<1>3. i = 1 /\ i = Len(stack[t])
    BY <1>2 DEF Alone
<1>4. Head(stack[t]) = stack[t][1]
    BY <1>1, PopSeq
<1>5. ASSUME NEW u \in Threads, u # t, Process[u] = Process[t], stack[u] # <<>> PROVE FALSE
    <2>1. stack[u] \in Seq(Nat) /\ 1 \in 1..Len(stack[u])
        BY <1>5, PopSeq DEF LatencyTypes
    <2>2. QED
        BY <1>5, <2>1 DEF Alone
<1>6. QED
    BY <1>3, <1>4, <1>5

LEMMA StackIs ==
    ASSUME LatencyTypes, NEW t \in Threads
    PROVE  /\ stack[t] \in Seq(Nat) /\ Len(stack[t]) \in Nat
           /\ stack[t] # <<>> => 1 \in 1..Len(stack[t]) /\ Head(stack[t]) = stack[t][1]
           /\ stack[t] = <<>> => Len(stack[t]) = 0
           /\ \A i \in 1..Len(stack[t]) : stack[t][i] \in 1..latency_calls /\ stack[t] # <<>>
<1>1. stack[t] \in Seq(Nat)
    BY DEF LatencyTypes
<1>2. QED
    BY <1>1, PopSeq DEF LatencyTypes

(* What a new call does to the stacks and to the calls it may distort.       *)
LEMMA UprobeStacks ==
    ASSUME Latency!LatencyAssumption, LatencyInv, NEW t \in Threads, Latency!uprobe(t)
    PROVE  /\ latency_calls \in Nat /\ latency_calls' = latency_calls + 1
                  /\ latency_calls' \in 1..LatencyCalls
           /\ stack' \in [Threads -> Seq(Nat)]
           /\ \A u \in Threads : u # t => stack'[u] = stack[u]
           /\ Len(stack'[t]) = Len(stack[t]) + 1
           /\ stack'[t][1] = latency_calls' /\ stack'[t] # <<>>
                  /\ Head(stack'[t]) = latency_calls'
           /\ \A i \in 1..Len(stack[t]) : i + 1 \in 1..Len(stack'[t])
                  /\ stack'[t][i + 1] = stack[t][i]
           /\ \A i \in 1..Len(stack'[t]) : i # 1 =>
                i - 1 \in 1..Len(stack[t]) /\ stack'[t][i] = stack[t][i - 1]
           /\ disturbed \subseteq disturbed' /\ disturbed' \subseteq 1..LatencyCalls
           /\ \A u \in Threads : Process[u] = Process[t] =>
                \A i \in 1..Len(stack[u]) : stack[u][i] \in disturbed'
                    /\ latency_calls' \in disturbed'
           /\ latency_step' = latency_step /\ stat' = stat /\ latency_events' = latency_events
           /\ latency_step[t] = "running" /\ stat[t] = None
<1> DEFINE c == latency_calls + 1
           others == Latency!Underway(Process[t])
           met(e) == others \cup {Head(stack[u]) : u \in {v \in Threads : stat[v] = e}}
<1>1. LatencyTypes
    BY DEF LatencyInv
<1>2. latency_calls \in Nat /\ c \in 1..LatencyCalls /\ latency_calls' = c
    BY <1>1 DEF LatencyTypes, Latency!LatencyAssumption, Latency!uprobe
<1>3. stack' = [stack EXCEPT ![t] = <<c>> \o stack[t]] /\ stack \in [Threads -> Seq(Nat)]
    BY <1>1 DEF Latency!uprobe, LatencyTypes
<1>4. /\ <<c>> \o stack[t] \in Seq(Nat) /\ Len(<<c>> \o stack[t]) = Len(stack[t]) + 1
      /\ (<<c>> \o stack[t])[1] = c
      /\ \A i \in 1..Len(stack[t]) : (<<c>> \o stack[t])[i + 1] = stack[t][i]
      /\ \A i \in 1..(Len(stack[t]) + 1) : i # 1 =>
            i - 1 \in 1..Len(stack[t]) /\ (<<c>> \o stack[t])[i] = stack[t][i - 1]
    <2>1. stack[t] \in Seq(Nat) /\ c \in Nat
        BY <1>2, <1>3
    <2> HIDE DEF c
    <2>2. QED
        BY <2>1, PushSeq
<1>5. stack' \in [Threads -> Seq(Nat)] /\ stack'[t] = <<c>> \o stack[t]
      /\ \A u \in Threads : u # t => stack'[u] = stack[u]
    <2> HIDE DEF c
    <2>1. QED
        BY <1>3, <1>4
<1>6. <<c>> \o stack[t] # <<>> /\ Head(<<c>> \o stack[t]) = c
    <2> HIDE DEF c
    <2>1. Len(stack[t]) \in Nat
        BY <1>3
    <2>2. <<c>> \o stack[t] # <<>>
        BY <2>1, <1>4
    <2>3. QED
        BY <2>2, <1>4, PopSeq
<1>7. \A u \in Threads : \A i \in 1..Len(stack[u]) : stack[u][i] \in 1..LatencyCalls
    BY <1>1 DEF LatencyTypes, Latency!LatencyAssumption
<1>8. others \subseteq 1..LatencyCalls
    <2>1. ASSUME NEW x \in others PROVE x \in 1..LatencyCalls
        BY <2>1, <1>3, <1>7, UnderwayIs
    <2>2. QED
        BY <2>1
<1>9. ASSUME NEW e \in Elements PROVE met(e) \subseteq 1..LatencyCalls
    <2>1. ASSUME NEW u \in Threads, stat[u] = e PROVE Head(stack[u]) \in 1..LatencyCalls
        <3>1. stack[u] # <<>>
            BY <2>1, <1>1 DEF LatencyTypes, Latency!LatencyAssumption
        <3>2. QED
            BY <3>1, <1>1, <1>7, StackIs
    <2>2. QED
        BY <2>1, <1>8
<1>10. PICK D : /\ disturbed' = disturbed \cup D /\ D \subseteq 1..LatencyCalls
                /\ others # {} => others \cup {c} \subseteq D
    <2>1. CASE Latency!Refused(Latency!Key(t))
        <3>1. disturbed' = disturbed \cup (IF others = {} THEN {} ELSE others \cup {c})
            BY <2>1 DEF Latency!uprobe
        <3>2. QED
            BY <3>1, <1>2, <1>8
    <2>2. CASE ~Latency!Refused(Latency!Key(t))
        <3>1. PICK e \in Elements :
                  disturbed' = disturbed \cup (IF met(e) = {} THEN {} ELSE met(e) \cup {c})
            BY <2>2 DEF Latency!uprobe
        <3>2. others \subseteq met(e) /\ met(e) \subseteq 1..LatencyCalls
            BY <1>9
        <3> DEFINE D == IF met(e) = {} THEN {} ELSE met(e) \cup {c}
        <3> HIDE DEF met, others, c
        <3>3. D \subseteq 1..LatencyCalls /\ (others # {} => others \cup {c} \subseteq D)
            BY <3>2, <1>2
        <3> HIDE DEF D
        <3>4. QED
            BY <3>1, <3>3 DEF D
    <2>3. QED
        BY <2>1, <2>2
<1>11. ASSUME NEW u \in Threads, Process[u] = Process[t], NEW i \in 1..Len(stack[u])
       PROVE  stack[u][i] \in disturbed' /\ c \in disturbed'
    <2>1. stack[u][i] \in others
        BY <1>3, <1>11, UnderwayIs
    <2>2. QED
        BY <2>1, <1>10
<1>12. disturbed \subseteq 1..LatencyCalls
    BY <1>1 DEF LatencyTypes
<1>13. latency_step' = latency_step /\ stat' = stat /\ latency_events' = latency_events
           /\ latency_step[t] = "running" /\ stat[t] = None
    BY <1>1 DEF Latency!uprobe, LatencyTypes
<1>14. \A i \in 1..Len(stack[t]) : i + 1 \in 1..Len(stack'[t])
    <2>1. Len(stack'[t]) = Len(stack[t]) + 1 /\ Len(stack[t]) \in Nat
        BY <1>3, <1>4, <1>5
    <2>2. QED
        BY <2>1
<1> HIDE DEF others
<1>15. QED
    BY <1>2, <1>4, <1>5, <1>6, <1>10, <1>11, <1>12, <1>13, <1>14

LEMMA Uprobe ==
    ASSUME Latency!LatencyAssumption, LatencyInv, NEW t \in Threads, Latency!uprobe(t)
    PROVE  LatencyInv'
<1> DEFINE c == latency_calls'
           p == Process[t]
<1>1. LatencyTypes /\ Stored /\ Alone /\ OwnRecord /\ OwnElement /\ Latency!ReportsOwnCall
      /\ Latency!ReportsEveryCall /\ StoredBy
    BY DEF LatencyInv
<1>2. /\ latency_calls \in Nat /\ c = latency_calls + 1 /\ c \in 1..LatencyCalls
      /\ stack' \in [Threads -> Seq(Nat)]
      /\ \A u \in Threads : u # t => stack'[u] = stack[u]
      /\ Len(stack'[t]) = Len(stack[t]) + 1
      /\ stack'[t][1] = c /\ stack'[t] # <<>> /\ Head(stack'[t]) = c
      /\ \A i \in 1..Len(stack[t]) : i + 1 \in 1..Len(stack'[t]) /\ stack'[t][i + 1] = stack[t][i]
      /\ \A i \in 1..Len(stack'[t]) : i # 1 =>
            i - 1 \in 1..Len(stack[t]) /\ stack'[t][i] = stack[t][i - 1]
    BY UprobeStacks
<1>3. /\ disturbed \subseteq disturbed' /\ disturbed' \subseteq 1..LatencyCalls
      /\ \A u \in Threads : Process[u] = p =>
            \A i \in 1..Len(stack[u]) : stack[u][i] \in disturbed' /\ c \in disturbed'
      /\ latency_step' = latency_step /\ stat' = stat /\ latency_events' = latency_events
      /\ latency_step[t] = "running" /\ stat[t] = None
    BY UprobeStacks
<1>4. \A u \in Threads : stack[u] \in Seq(Nat) /\ Len(stack[u]) \in Nat
    BY <1>1, StackIs
<1>5. p \in Latency!Processes /\ Latency!Key(t) = p
          /\ \A u \in Threads : Process[u] \in Latency!Processes
    BY ProcessOf DEF Latency!Key
\* What is not disturbed now: the new call on a process of its own, or a call of
\* another process that was not disturbed before.
<1>7. ASSUME NEW u \in Threads, NEW i \in 1..Len(stack'[u]), stack'[u][i] \notin disturbed'
      PROVE  \/ u = t /\ i = 1 /\ stack'[u][i] = c /\ \A v \in Threads : Process[v] = p =>
                    stack[v] = <<>>
             \/ /\ u # t /\ Process[u] # p /\ i \in 1..Len(stack[u])
                /\ stack'[u][i] = stack[u][i] /\ stack[u][i] \notin disturbed
                /\ i = 1 /\ Head(stack[u]) = stack[u][i]
    <2>1. CASE u = t
        <3>1. i = 1
            BY <2>1, <1>2, <1>3, <1>7
        <3>2. ASSUME NEW v \in Threads, Process[v] = p, stack[v] # <<>> PROVE FALSE
            <4>1. 1 \in 1..Len(stack[v])
                BY <3>2, <1>1, StackIs
            <4>2. c \in disturbed'
                BY <4>1, <3>2, <1>3
            <4>3. QED
                BY <4>2, <3>1, <2>1, <1>2, <1>7
        <3>3. QED
            BY <2>1, <3>1, <3>2, <1>2
    <2>2. CASE u # t
        <3>1. stack'[u] = stack[u] /\ i \in 1..Len(stack[u]) /\ stack[u][i] \notin disturbed
            BY <2>2, <1>2, <1>3, <1>7
        <3>2. Process[u] # p
            BY <3>1, <1>3, <1>7
        <3>3. i = 1 /\ Head(stack[u]) = stack[u][i]
            BY <3>1, <1>1, OnlyCall
        <3>4. QED
            BY <2>2, <3>1, <3>2, <3>3
    <2>3. QED
        BY <2>1, <2>2
\* Both ways of the map: the elements of calls of other processes stay as they are.
<1>8. PICK e \in Elements \cup {None} :
        /\ fun_perf_stat_events' = [fun_perf_stat_events EXCEPT ![p] = e]
        /\ e = None => element' = element /\ fun_perf_stat_events[p] = None /\ c \in unmeasured'
        /\ e # None =>
            /\ e \notin Latency!Used
            /\ element' = [element EXCEPT ![e] = [start_time |-> c, end_time |-> 0, pid |-> p]]
            /\ \A u \in Threads : stat[u] = e => Head(stack[u]) \in disturbed' /\ c \in disturbed'
        /\ unmeasured \subseteq unmeasured' /\ unmeasured' \subseteq unmeasured \cup {c}
    <2>1. CASE Latency!Refused(p)
        <3>1. element' = element /\ fun_perf_stat_events' = fun_perf_stat_events
              /\ unmeasured' = unmeasured \cup {c} /\ fun_perf_stat_events[p] = None
            BY <2>1, <1>2, <1>5 DEF Latency!uprobe, Latency!Refused
        <3>2. fun_perf_stat_events' = [fun_perf_stat_events EXCEPT ![p] = None]
            BY <3>1, <1>1 DEF LatencyTypes
        <3>3. QED
            BY <3>1, <3>2
    <2>2. CASE ~Latency!Refused(p)
        <3> DEFINE met(f) == Latency!Underway(p) \cup {Head(stack[u]) : u \in {v \in Threads :
                   stat[v] = f}}
        <3>1. PICK e \in Elements \ Latency!Used :
                /\ element' = [element EXCEPT ![e] = [start_time |-> latency_calls + 1,
                       end_time |-> 0, pid |-> p]]
                /\ fun_perf_stat_events' = [fun_perf_stat_events EXCEPT ![p] = e]
                /\ disturbed' = disturbed \cup (IF met(e) = {} THEN {}
                       ELSE met(e) \cup {latency_calls + 1})
                /\ unmeasured' = unmeasured
            BY <2>2, <1>5 DEF Latency!uprobe
        <3>2. ASSUME NEW u \in Threads, stat[u] = e
              PROVE Head(stack[u]) \in disturbed' /\ c \in disturbed'
            <4>1. Head(stack[u]) \in met(e)
                BY <3>2
            <4> HIDE DEF met
            <4>2. QED
                BY <4>1, <3>1, <1>2
        <3>3. e # None
            BY DEF Latency!LatencyAssumption
        <3>4. QED
            BY <3>1, <3>2, <3>3, <1>2
    <2>3. QED
        BY <2>1, <2>2
<1> DEFINE r == [start_time |-> c, end_time |-> 0, pid |-> p]
<1>9. r \in Latency!Record /\ r.start_time = c
    <2>1. c \in 0..LatencyCalls /\ 0 \in 0..LatencyCalls
        BY <1>2 DEF Latency!LatencyAssumption
    <2> HIDE DEF c, p
    <2>2. QED
        BY <2>1, <1>5 DEF Latency!Record
<1>10. /\ fun_perf_stat_events' \in [Latency!Processes -> Elements \cup {None}]
       /\ fun_perf_stat_events'[p] = e
       /\ \A q \in Latency!Processes : q # p => fun_perf_stat_events'[q] = fun_perf_stat_events[q]
       /\ element' \in [Elements -> Latency!Record \cup {None}]
       /\ e # None => element'[e] = r
       /\ \A f \in Elements : f # e => element'[f] = element[f]
       /\ \A f \in Elements : element[f] \in Latency!Record => element'[f] \in Latency!Record
    <2>1. fun_perf_stat_events \in [Latency!Processes -> Elements \cup {None}]
              /\ element \in [Elements -> Latency!Record \cup {None}]
        BY <1>1 DEF LatencyTypes
    <2> HIDE DEF c
    <2>2. QED
        BY <2>1, <1>5, <1>8, <1>9
<1>11. \A q \in Latency!Processes : fun_perf_stat_events[q] # None =>
            fun_perf_stat_events[q] # e
                /\ element'[fun_perf_stat_events[q]] = element[fun_perf_stat_events[q]]
    <2>1. ASSUME NEW q \in Latency!Processes, fun_perf_stat_events[q] # None
          PROVE  fun_perf_stat_events[q] # e /\ fun_perf_stat_events[q] \in Elements
        <3>1. fun_perf_stat_events[q] \in Latency!Used
            BY <2>1 DEF Latency!Used
        <3>2. fun_perf_stat_events[q] \in Elements
            BY <2>1, <1>1 DEF LatencyTypes
        <3>3. QED
            BY <3>1, <3>2, <2>1, <1>8
    <2>2. QED
        BY <2>1, <1>10
<1> HIDE DEF c, p, r
<1>12. LatencyTypes'
    <2>1. \A u \in Threads : /\ Len(stack'[u]) <= c
                             /\ \A i \in 1..Len(stack'[u]) : stack'[u][i] \in 1..c
        <3>1. ASSUME NEW u \in Threads, u # t
              PROVE  /\ Len(stack'[u]) <= c /\ \A i \in 1..Len(stack'[u]) : stack'[u][i] \in 1..c
            BY <3>1, <1>1, <1>2, <1>4 DEF LatencyTypes
        <3>2. Len(stack'[t]) <= c
            BY <1>1, <1>2, <1>4 DEF LatencyTypes
        <3>3. ASSUME NEW i \in 1..Len(stack'[t]) PROVE stack'[t][i] \in 1..c
            <4>1. CASE i = 1
                BY <4>1, <1>2
            <4>2. CASE i # 1
                <5>1. i - 1 \in 1..Len(stack[t]) /\ stack'[t][i] = stack[t][i - 1]
                    BY <4>2, <3>3, <1>2
                <5>2. stack[t][i - 1] \in 1..latency_calls
                    BY <5>1, <1>1 DEF LatencyTypes
                <5>3. QED
                    BY <5>1, <5>2, <1>2 DEF c
            <4>3. QED
                BY <4>1, <4>2
        <3>4. QED
            BY <3>1, <3>2, <3>3
    <2>2. \A u \in Threads : stat[u] # None =>
              stack'[u] # <<>> /\ element'[stat[u]] \in Latency!Record
        BY <1>1, <1>2, <1>10 DEF LatencyTypes
    <2>3. latency_calls' \in 0..LatencyCalls /\ unmeasured' \subseteq 1..LatencyCalls
        BY <1>1, <1>2, <1>8 DEF LatencyTypes, c
    <2>4. \A u \in Threads : Len(stack'[u]) <= latency_calls'
              /\ \A i \in 1..Len(stack'[u]) : stack'[u][i] \in 1..latency_calls'
        BY <2>1 DEF c
    <2>5. QED
        BY <2>2, <2>3, <2>4, <1>1, <1>2, <1>3, <1>10 DEF LatencyTypes
<1>13. Stored'
    <2>1. ASSUME NEW q \in Latency!Processes, fun_perf_stat_events'[q] # None
          PROVE  element'[fun_perf_stat_events'[q]] \in Latency!Record
        BY <2>1, <1>1, <1>9, <1>10, <1>11 DEF Stored
    <2>2. ASSUME NEW q1 \in Latency!Processes, NEW q2 \in Latency!Processes,
                 fun_perf_stat_events'[q1] = fun_perf_stat_events'[q2], q1 # q2
          PROVE  fun_perf_stat_events'[q1] = None
        BY <2>2, <1>1, <1>10, <1>11 DEF Stored
    <2>3. QED
        BY <2>1, <2>2 DEF Stored
<1>14. Alone'
    <2>1. ASSUME NEW u \in Threads, NEW v \in Threads, NEW i \in 1..Len(stack'[u]),
                 NEW j \in 1..Len(stack'[v]), Process[u] = Process[v],
                     stack'[u][i] \notin disturbed'
          PROVE  u = v /\ i = j
        <3>1. CASE u = t
            <4>1. i = 1 /\ \A w \in Threads : Process[w] = p => stack[w] = <<>>
                BY <3>1, <2>1, <1>7
            <4>2. v = t
                BY <4>1, <3>1, <2>1, <1>1, <1>2, StackIs DEF p
            <4>3. Len(stack'[t]) = 1
                BY <4>1, <1>1, <1>2, StackIs DEF p
            <4>4. QED
                BY <3>1, <4>1, <4>2, <4>3, <2>1
        <3>2. CASE u # t
            <4>1. i \in 1..Len(stack[u]) /\ stack[u][i] \notin disturbed /\ Process[u] # p
                BY <3>2, <2>1, <1>7
            <4>2. v # t /\ j \in 1..Len(stack[v])
                BY <4>1, <2>1, <1>2 DEF p
            <4>3. QED
                BY <4>1, <4>2, <2>1, <1>1 DEF Alone
        <3>3. QED
            BY <3>1, <3>2
    <2>2. QED
        BY <2>1 DEF Alone
<1>15. OwnRecord'
    <2>1. ASSUME NEW u \in Threads, NEW i \in 1..Len(stack'[u]), stack'[u][i] \notin disturbed'
          PROVE  LET d == stack'[u][i]
                     f == fun_perf_stat_events'[Process[u]]
                 IN  /\ latency_step[u] = "running" =>
                         IF f = None THEN d \in unmeasured' ELSE element'[f].start_time = d
                     /\ latency_step[u] \in {"found", "ended"} => f = stat[u]
                     /\ latency_step[u] # "running" => element'[stat[u]].start_time = d
                     /\ latency_step[u] \in {"ended", "deleted"} => element'[stat[u]].end_time = d
        <3>1. CASE u = t
            <4>1. stack'[u][i] = c /\ latency_step[u] = "running"
                      /\ fun_perf_stat_events'[Process[u]] = e
                BY <3>1, <2>1, <1>3, <1>7, <1>10 DEF p
            <4>2. QED
                BY <4>1, <1>8, <1>9, <1>10
        <3>2. CASE u # t
            <4>1. /\ Process[u] # p /\ i \in 1..Len(stack[u]) /\ stack'[u][i] = stack[u][i]
                  /\ stack[u][i] \notin disturbed /\ Head(stack[u]) = stack[u][i]
                BY <3>2, <2>1, <1>7
            <4>2. fun_perf_stat_events'[Process[u]] = fun_perf_stat_events[Process[u]]
                BY <4>1, <1>5, <1>10
            <4>3. latency_step[u] # "running" => element'[stat[u]] = element[stat[u]]
                <5>1. stat[u] # e \/ latency_step[u] = "running"
                    BY <4>1, <2>1, <1>1, <1>8 DEF LatencyTypes
                <5>2. latency_step[u] # "running" => stat[u] \in Elements
                    BY <1>1 DEF LatencyTypes
                <5>3. QED
                    BY <5>1, <5>2, <1>10
            <4>4. fun_perf_stat_events[Process[u]] # None =>
                    element'[fun_perf_stat_events[Process[u]]]
                        = element[fun_perf_stat_events[Process[u]]]
                BY <1>5, <1>11
            <4>5. QED
                BY <4>1, <4>2, <4>3, <4>4, <1>1, <1>8 DEF OwnRecord
        <3>3. QED
            BY <3>1, <3>2
    <2>2. QED
        BY <2>1, <1>3 DEF OwnRecord
<1>16. OwnElement'
    <2>1. ASSUME NEW u \in Threads, stack'[u] # <<>>, Head(stack'[u]) \notin disturbed'
          PROVE  /\ \A v \in Threads : v # u /\ stat[v] # None =>
                      stat[v] # stat[u] /\ stat[v] # fun_perf_stat_events'[Process[u]]
                 /\ stat[u] # None => \A q \in Latency!Processes : q # Process[u] =>
                      fun_perf_stat_events'[q] # stat[u]
        <3>1. 1 \in 1..Len(stack'[u]) /\ stack'[u][1] = Head(stack'[u])
            <4>1. stack'[u] \in Seq(Nat)
                BY <1>2
            <4>2. QED
                BY <4>1, <2>1, PopSeq
        <3>2. CASE u = t
            <4>1. ASSUME NEW v \in Threads, stat[v] # None PROVE stat[v] # e
                BY <4>1, <3>2, <2>1, <1>2, <1>8
            <4>2. QED
                BY <4>1, <3>2, <1>3, <1>10 DEF p
        <3>3. CASE u # t
            <4>1. Process[u] # p /\ stack[u] = stack'[u] /\ Head(stack[u]) \notin disturbed
                BY <3>1, <3>3, <2>1, <1>2, <1>3, <1>7
            <4>2. fun_perf_stat_events'[Process[u]] = fun_perf_stat_events[Process[u]]
                BY <4>1, <1>5, <1>10
            <4>3. stat[u] # None => stat[u] # e
                BY <4>1, <2>1, <1>8
            <4>4. QED
                BY <4>1, <4>2, <4>3, <2>1, <1>1, <1>10 DEF OwnElement
        <3>4. QED
            BY <3>2, <3>3
    <2>2. QED
        BY <2>1, <1>3 DEF OwnElement
<1>17. Latency!ReportsOwnCall'
    BY <1>1, <1>3 DEF Latency!ReportsOwnCall
<1>18. \A u \in Threads : \A i \in 1..Len(stack[u]) : \E j \in 1..Len(stack'[u]) :
           stack'[u][j] = stack[u][i]
    BY <1>2
<1>19. Latency!ReportsEveryCall'
    <2>1. ASSUME NEW d \in 1..latency_calls'
          PROVE  \/ d \in disturbed' \cup unmeasured'
                 \/ \E q \in Latency!Processes : d \in Latency!Underway(q)'
                 \/ \E ev \in latency_events' : ev[2] = d
        <3>1. CASE d = c
            <4>1. 1 \in 1..Len(stack'[t]) /\ stack'[t][1] = d
                BY <3>1, <1>2, <1>4
            <4>2. d \in Latency!Underway(p)'
                <5>1. \E u \in Threads : Process[u] = p
                          /\ \E i \in 1..Len(stack'[u]) : stack'[u][i] = d
                    BY <4>1 DEF p
                <5>2. QED
                    BY <5>1, <1>2, UnderwayIsNext
            <4>3. QED
                BY <4>2, <1>5
        <3>2. CASE d # c
            <4>1. d \in 1..latency_calls
                BY <3>2, <2>1, <1>2 DEF c
            <4>2. CASE \E q \in Latency!Processes : d \in Latency!Underway(q)
                <5>1. PICK q \in Latency!Processes : d \in Latency!Underway(q)
                    BY <4>2
                <5>2. \E u \in Threads : Process[u] = q
                          /\ \E i \in 1..Len(stack[u]) : stack[u][i] = d
                    BY <5>1, <1>1, UnderwayIs DEF LatencyTypes
                <5>3. \E u \in Threads : Process[u] = q
                          /\ \E i \in 1..Len(stack'[u]) : stack'[u][i] = d
                    BY <5>2, <1>18
                <5>4. d \in Latency!Underway(q)'
                    BY <5>3, <1>2, UnderwayIsNext
                <5>5. QED
                    BY <5>4
            <4>3. QED
                BY <4>1, <4>2, <1>1, <1>3, <1>8 DEF Latency!ReportsEveryCall
        <3>3. QED
            BY <3>1, <3>2
    <2>2. QED
        BY <2>1 DEF Latency!ReportsEveryCall
<1>20. StoredBy'
    <2>1. ASSUME NEW q \in Latency!Processes, fun_perf_stat_events'[q] # None
          PROVE  LET d == element'[fun_perf_stat_events'[q]].start_time
                 IN  \/ d \in unmeasured'
                     \/ \E u \in Threads : Process[u] = q /\ \E i \in 1..Len(stack'[u]) :
                         stack'[u][i] = d /\ (latency_step[u] = "deleted" => i # 1)
        <3>1. CASE q = p
            <4>1. element'[fun_perf_stat_events'[q]].start_time = c
                BY <3>1, <2>1, <1>9, <1>10
            <4>2. 1 \in 1..Len(stack'[t]) /\ stack'[t][1] = c /\ latency_step[t] # "deleted"
                      /\ Process[t] = q
                BY <3>1, <1>2, <1>3, <1>4 DEF p
            <4>3. QED
                BY <4>1, <4>2
        <3>2. CASE q # p
            <4> DEFINE d == element[fun_perf_stat_events[q]].start_time
            <4>1. fun_perf_stat_events[q] # None
                  /\ element'[fun_perf_stat_events'[q]].start_time = d
                BY <3>2, <2>1, <1>10, <1>11
            <4>2. \/ d \in unmeasured
                  \/ \E u \in Threads : Process[u] = q /\ \E i \in 1..Len(stack[u]) :
                         stack[u][i] = d /\ (latency_step[u] = "deleted" => i # 1)
                BY <4>1, <1>1 DEF StoredBy
            <4> HIDE DEF d
            <4>3. CASE d \in unmeasured
                BY <4>3, <4>1, <1>8
            <4>4. CASE d \notin unmeasured
                <5>1. PICK u \in Threads : Process[u] = q /\ \E i \in 1..Len(stack[u]) :
                         stack[u][i] = d /\ (latency_step[u] = "deleted" => i # 1)
                    BY <4>2, <4>4
                <5>2. u # t
                    BY <5>1, <3>2 DEF p
                <5>3. QED
                    BY <5>1, <5>2, <4>1, <1>2
            <4>5. QED
                BY <4>3, <4>4
        <3>3. QED
            BY <3>1, <3>2
    <2>2. QED
        BY <2>1, <1>3 DEF StoredBy
<1>21. QED
    BY <1>12, <1>13, <1>14, <1>15, <1>16, <1>17, <1>19, <1>20 DEF LatencyInv

(* A thread that returns takes its innermost call away; what is not          *)
(* disturbed afterwards is a call of another thread.                         *)
LEMMA ReturnedStacks ==
    ASSUME LatencyInv, NEW t \in Threads, stack[t] # <<>>, Latency!Returned(t)
    PROVE  /\ stack' \in [Threads -> Seq(Nat)]
           /\ \A u \in Threads : u # t => stack'[u] = stack[u]
           /\ Len(stack'[t]) <= Len(stack[t])
           /\ \A i \in 1..Len(stack'[t]) : i + 1 \in 1..Len(stack[t])
                  /\ stack'[t][i] = stack[t][i + 1]
           /\ \A i \in 1..Len(stack[t]) : i # 1 =>
                i - 1 \in 1..Len(stack'[t]) /\ stack'[t][i - 1] = stack[t][i]
           /\ \A i \in 1..Len(stack'[t]) : stack'[t][i] \in disturbed
           /\ stack'[t] # <<>> => Head(stack'[t]) \in disturbed
           /\ Head(stack[t]) = stack[t][1] /\ 1 \in 1..Len(stack[t])
<1>1. LatencyTypes /\ Alone
    BY DEF LatencyInv
<1>2. stack[t] \in Seq(Nat) /\ stack \in [Threads -> Seq(Nat)]
    BY <1>1 DEF LatencyTypes
<1>3. /\ Tail(stack[t]) \in Seq(Nat) /\ Len(Tail(stack[t])) = Len(stack[t]) - 1
      /\ 1 \in 1..Len(stack[t]) /\ Head(stack[t]) = stack[t][1]
      /\ \A i \in 1..Len(Tail(stack[t])) : i + 1 \in 1..Len(stack[t])
             /\ Tail(stack[t])[i] = stack[t][i + 1]
      /\ \A i \in 1..Len(stack[t]) : i # 1 =>
            i - 1 \in 1..Len(Tail(stack[t])) /\ Tail(stack[t])[i - 1] = stack[t][i]
    BY <1>2, PopSeq
<1>4. /\ stack' \in [Threads -> Seq(Nat)] /\ stack'[t] = Tail(stack[t])
      /\ \A u \in Threads : u # t => stack'[u] = stack[u]
    BY <1>2, <1>3 DEF Latency!Returned
<1>5. ASSUME NEW i \in 1..Len(stack'[t]) PROVE stack'[t][i] \in disturbed
    <2>1. i + 1 \in 1..Len(stack[t]) /\ stack'[t][i] = stack[t][i + 1] /\ i + 1 # 1
        BY <1>3, <1>4
    <2>2. QED
        BY <2>1, <1>1, OnlyCall
<1>6. stack'[t] # <<>> => 1 \in 1..Len(stack'[t]) /\ Head(stack'[t]) = stack'[t][1]
    BY <1>3, <1>4, PopSeq
<1>7. Len(stack'[t]) <= Len(stack[t])
    BY <1>2, <1>3, <1>4
<1>8. stack'[t] # <<>> => Head(stack'[t]) \in disturbed
    BY <1>5, <1>6
<1>9. /\ \A i \in 1..Len(stack'[t]) : i + 1 \in 1..Len(stack[t]) /\ stack'[t][i] = stack[t][i + 1]
      /\ \A i \in 1..Len(stack[t]) : i # 1 =>
            i - 1 \in 1..Len(stack'[t]) /\ stack'[t][i - 1] = stack[t][i]
    BY <1>3, <1>4
<1>10. QED
    BY <1>3, <1>4, <1>5, <1>7, <1>8, <1>9

LEMMA UretprobeMisses ==
    ASSUME Latency!LatencyAssumption, LatencyInv, NEW t \in Threads, Latency!uretprobe(t),
           fun_perf_stat_events[Process[t]] = None
    PROVE  LatencyInv'
<1>1. LatencyTypes /\ Stored /\ Alone /\ OwnRecord /\ OwnElement /\ Latency!ReportsOwnCall
      /\ Latency!ReportsEveryCall /\ StoredBy
    BY DEF LatencyInv
<1>2. /\ Latency!Returned(t) /\ stack[t] # <<>> /\ latency_step[t] = "running"
             /\ latency_step' = latency_step /\ stat' = stat
      /\ element' = element /\ fun_perf_stat_events' = fun_perf_stat_events
             /\ latency_events' = latency_events
      /\ latency_calls' = latency_calls /\ disturbed' = disturbed /\ unmeasured' = unmeasured
    BY DEF Latency!uretprobe, Latency!Key
<1>3. /\ stack' \in [Threads -> Seq(Nat)]
      /\ \A u \in Threads : u # t => stack'[u] = stack[u]
      /\ Len(stack'[t]) <= Len(stack[t])
      /\ \A i \in 1..Len(stack'[t]) : i + 1 \in 1..Len(stack[t]) /\ stack'[t][i] = stack[t][i + 1]
      /\ \A i \in 1..Len(stack[t]) : i # 1 =>
            i - 1 \in 1..Len(stack'[t]) /\ stack'[t][i - 1] = stack[t][i]
      /\ \A i \in 1..Len(stack'[t]) : stack'[t][i] \in disturbed
      /\ stack'[t] # <<>> => Head(stack'[t]) \in disturbed
      /\ Head(stack[t]) = stack[t][1] /\ 1 \in 1..Len(stack[t])
    BY <1>2, ReturnedStacks
<1>4. LatencyTypes'
    <2>1. \A i \in 1..Len(stack'[t]) : stack'[t][i] \in 1..latency_calls
        BY <1>1, <1>3 DEF LatencyTypes
    <2>2. Len(stack'[t]) <= latency_calls
        BY <1>1, <1>3 DEF LatencyTypes
    <2>3. stat[t] = None
        BY <1>1, <1>2 DEF LatencyTypes
    <2>4. QED
        BY <2>1, <2>2, <2>3, <1>1, <1>2, <1>3 DEF LatencyTypes
<1>5. Stored' /\ Latency!ReportsOwnCall'
    BY <1>1, <1>2 DEF Stored, Latency!ReportsOwnCall
<1>6. Alone' /\ OwnRecord'
    <2>1. ASSUME NEW u \in Threads, NEW i \in 1..Len(stack'[u]), stack'[u][i] \notin disturbed
          PROVE  u # t /\ stack'[u] = stack[u]
        BY <2>1, <1>3
    <2>2. OwnRecord'
        <3>1. ASSUME NEW u \in Threads, NEW i \in 1..Len(stack'[u]), stack'[u][i] \notin disturbed
              PROVE  i \in 1..Len(stack[u]) /\ stack'[u][i] = stack[u][i]
            BY <3>1, <2>1
        <3>2. QED
            BY <3>1, <1>1, <1>2 DEF OwnRecord
    <2>3. ASSUME NEW u \in Threads, NEW v \in Threads, NEW i \in 1..Len(stack'[u]),
                 NEW j \in 1..Len(stack'[v]), Process[u] = Process[v],
                     stack'[u][i] \notin disturbed
          PROVE  u = v /\ i = j
        <3>1. u # t /\ i \in 1..Len(stack[u]) /\ stack[u][i] \notin disturbed
            BY <2>1, <2>3
        <3>2. v # t
            BY <3>1, <2>3, <1>1, <1>2, OnlyCall
        <3>3. QED
            BY <3>1, <3>2, <2>3, <1>1, <1>3 DEF Alone
    <2>4. QED
        BY <2>2, <2>3, <1>2 DEF Alone
<1>7. OwnElement'
    <2>1. ASSUME NEW u \in Threads, stack'[u] # <<>>, Head(stack'[u]) \notin disturbed
          PROVE  stack'[u] = stack[u]
        BY <2>1, <1>3
    <2>2. QED
        BY <2>1, <1>1, <1>2 DEF OwnElement
<1>8. Latency!ReportsEveryCall'
    <2>1. ASSUME NEW d \in 1..latency_calls, d \notin disturbed
                     \cup unmeasured, ~ \E ev \in latency_events : ev[2] = d
          PROVE  \E q \in Latency!Processes : d \in Latency!Underway(q)'
        <3>1. PICK q \in Latency!Processes : d \in Latency!Underway(q)
            BY <2>1, <1>1 DEF Latency!ReportsEveryCall
        <3>2. PICK u \in Threads : Process[u] = q /\ \E i \in 1..Len(stack[u]) : stack[u][i] = d
            BY <3>1, <1>1, UnderwayIs DEF LatencyTypes
        <3>3. PICK i \in 1..Len(stack[u]) : stack[u][i] = d
            BY <3>2
        <3>4. u # t
            <4>1. SUFFICES ASSUME u = t PROVE FALSE
                OBVIOUS
            <4>2. d \in unmeasured
                BY <4>1, <3>3, <2>1, <1>1, <1>2 DEF OwnRecord
            <4>3. QED
                BY <4>2, <2>1
        <3>5. QED
            BY <3>2, <3>4, <1>3, UnderwayIsNext
    <2>2. QED
        BY <2>1, <1>2 DEF Latency!ReportsEveryCall
<1>9. StoredBy'
    <2>1. ASSUME NEW q \in Latency!Processes, fun_perf_stat_events[q] # None
          PROVE  \A u \in Threads : Process[u] = q => stack'[u] = stack[u]
        BY <2>1, <1>3
    <2>2. QED
        BY <2>1, <1>1, <1>2 DEF StoredBy
<1>10. QED
    BY <1>4, <1>5, <1>6, <1>7, <1>8, <1>9 DEF LatencyInv

LEMMA UretprobeFinds ==
    ASSUME Latency!LatencyAssumption, LatencyInv, NEW t \in Threads, Latency!uretprobe(t),
           fun_perf_stat_events[Process[t]] # None
    PROVE  LatencyInv'
<1> DEFINE e == fun_perf_stat_events[Process[t]]
<1>1. LatencyTypes /\ Stored /\ Alone /\ OwnRecord /\ OwnElement /\ Latency!ReportsOwnCall
      /\ Latency!ReportsEveryCall /\ StoredBy
    BY DEF LatencyInv
<1>2. /\ latency_step[t] = "running" /\ stack[t] # <<>> /\ stack' = stack
      /\ latency_step' = [latency_step EXCEPT ![t] = "found"] /\ stat' = [stat EXCEPT ![t] = e]
      /\ element' = element /\ fun_perf_stat_events' = fun_perf_stat_events
             /\ latency_events' = latency_events
      /\ latency_calls' = latency_calls /\ disturbed' = disturbed /\ unmeasured' = unmeasured
    BY DEF Latency!uretprobe, Latency!Key
<1>3. /\ latency_step' \in [Threads -> {"running", "found", "ended", "deleted"}]
             /\ latency_step'[t] = "found"
      /\ stat' \in [Threads -> Elements \cup {None}] /\ stat'[t] = e /\ e # None
      /\ \A u \in Threads : u # t => latency_step'[u] = latency_step[u] /\ stat'[u] = stat[u]
      /\ e \in Elements /\ element[e] \in Latency!Record /\ stat[t] = None
    BY <1>1, <1>2, ProcessOf DEF LatencyTypes, Stored
<1>4. LatencyTypes'
    <2>1. \A u \in Threads : (stat'[u] = None <=> latency_step'[u] = "running")
                             /\ (stat'[u] # None =>
                                    stack[u] # <<>> /\ element[stat'[u]] \in Latency!Record)
        BY <1>1, <1>2, <1>3 DEF LatencyTypes
    <2> HIDE DEF e
    <2>2. QED
        BY <2>1, <1>1, <1>2, <1>3 DEF LatencyTypes
<1>5. Stored' /\ Alone' /\ Latency!ReportsOwnCall'
    BY <1>1, <1>2 DEF Stored, Alone, Latency!ReportsOwnCall
<1>6. Latency!ReportsEveryCall'
    BY <1>1, <1>2 DEF Latency!ReportsEveryCall, Latency!Underway
<1>7. OwnRecord'
    <2>1. ASSUME NEW u \in Threads, NEW i \in 1..Len(stack[u]), stack[u][i] \notin disturbed
          PROVE  LET d == stack[u][i]
                     f == fun_perf_stat_events[Process[u]]
                 IN  /\ latency_step'[u] = "running" =>
                         IF f = None THEN d \in unmeasured ELSE element[f].start_time = d
                     /\ latency_step'[u] \in {"found", "ended"} => f = stat'[u]
                     /\ latency_step'[u] # "running" => element[stat'[u]].start_time = d
                     /\ latency_step'[u] \in {"ended", "deleted"} =>
                            element[stat'[u]].end_time = d
        BY <2>1, <1>1, <1>2, <1>3 DEF OwnRecord
    <2>2. QED
        BY <2>1, <1>2 DEF OwnRecord
<1>8. OwnElement'
    <2>1. ASSUME NEW u \in Threads, stack[u] # <<>>, Head(stack[u]) \notin disturbed
          PROVE  /\ \A v \in Threads : v # u /\ stat'[v] # None =>
                      stat'[v] # stat'[u] /\ stat'[v] # fun_perf_stat_events[Process[u]]
                 /\ stat'[u] # None => \A q \in Latency!Processes : q # Process[u] =>
                      fun_perf_stat_events[q] # stat'[u]
        <3>1. /\ \A v \in Threads : v # u /\ stat[v] # None =>
                      stat[v] # stat[u] /\ stat[v] # fun_perf_stat_events[Process[u]]
              /\ stat[u] # None => \A q \in Latency!Processes : q # Process[u] =>
                      fun_perf_stat_events[q] # stat[u]
            BY <2>1, <1>1 DEF OwnElement
        <3>2. CASE u = t
            <4>1. \A q \in Latency!Processes : q # Process[u] => fun_perf_stat_events[q] # e
                BY <3>2, <1>1, <1>3, ProcessOf DEF Stored
            <4>2. QED
                BY <4>1, <3>1, <3>2, <1>3
        <3>3. CASE u # t
            <4>1. 1 \in 1..Len(stack[u]) /\ stack[u][1] \notin disturbed
                BY <2>1, <1>1, StackIs
            <4>2. Process[t] # Process[u]
                BY <4>1, <3>3, <1>1, <1>2, OnlyCall
            <4>3. e # stat[u] /\ e # fun_perf_stat_events[Process[u]]
                BY <4>2, <3>1, <1>1, <1>3, ProcessOf DEF Stored
            <4>4. QED
                BY <4>3, <3>1, <3>3, <1>3
        <3>4. QED
            BY <3>2, <3>3
    <2>2. QED
        BY <2>1, <1>2 DEF OwnElement
<1>9. StoredBy'
    <2>1. \A u \in Threads : latency_step'[u] = "deleted" => latency_step[u] = "deleted"
        BY <1>3
    <2>2. QED
        BY <2>1, <1>1, <1>2 DEF StoredBy
<1>10. QED
    BY <1>4, <1>5, <1>6, <1>7, <1>8, <1>9 DEF LatencyInv

LEMMA SetsEndTime ==
    ASSUME Latency!LatencyAssumption, LatencyInv, NEW t \in Threads, Latency!SetEndTime(t)
    PROVE  LatencyInv'
<1> DEFINE e == stat[t]
           c == Head(stack[t])
<1>1. LatencyTypes /\ Stored /\ Alone /\ OwnRecord /\ OwnElement /\ Latency!ReportsOwnCall
      /\ Latency!ReportsEveryCall /\ StoredBy
    BY DEF LatencyInv
<1>2. /\ latency_step[t] = "found" /\ element' = [element EXCEPT ![e].end_time = c]
      /\ latency_step' = [latency_step EXCEPT ![t] = "ended"] /\ stack' = stack /\ stat' = stat
      /\ fun_perf_stat_events' = fun_perf_stat_events /\ latency_events' = latency_events
      /\ latency_calls' = latency_calls /\ disturbed' = disturbed /\ unmeasured' = unmeasured
    BY DEF Latency!SetEndTime
<1>3. e \in Elements /\ e # None /\ stack[t] # <<>> /\ element[e] \in Latency!Record
    BY <1>1, <1>2 DEF LatencyTypes
<1>4. c \in 0..LatencyCalls
    BY <1>1, <1>3, StackIs DEF LatencyTypes, Latency!LatencyAssumption
<1>5. /\ latency_step' \in [Threads -> {"running", "found", "ended", "deleted"}]
             /\ latency_step'[t] = "ended"
      /\ \A u \in Threads : u # t => latency_step'[u] = latency_step[u]
    BY <1>1, <1>2 DEF LatencyTypes
<1>6. /\ element' \in [Elements -> Latency!Record \cup {None}]
      /\ element'[e] = [element[e] EXCEPT !.end_time = c]
      /\ element'[e] \in Latency!Record /\ element'[e].start_time = element[e].start_time
      /\ element'[e].end_time = c
      /\ \A f \in Elements : f # e => element'[f] = element[f]
    <2>1. element \in [Elements -> Latency!Record \cup {None}]
        BY <1>1 DEF LatencyTypes
    <2> DEFINE r == [element[e] EXCEPT !.end_time = c]
    <2>2. r \in Latency!Record /\ r.start_time = element[e].start_time /\ r.end_time = c
        <3> HIDE DEF c, e
        <3>1. QED
            BY <1>3, <1>4 DEF Latency!Record
    <2>3. element' = [element EXCEPT ![e] = r]
        BY <1>2
    <2> HIDE DEF r, e, c
    <2>4. QED
        BY <2>1, <2>2, <2>3, <1>3 DEF r
<1>7. \A f \in Elements : element[f] \in Latency!Record =>
        element'[f] \in Latency!Record /\ element'[f].start_time = element[f].start_time
    BY <1>6
<1> HIDE DEF e, c
<1>8. LatencyTypes'
    <2>1. \A u \in Threads : (stat[u] = None <=> latency_step'[u] = "running")
                             /\ (stat[u] # None =>
                                    stack[u] # <<>> /\ element'[stat[u]] \in Latency!Record)
        BY <1>1, <1>2, <1>3, <1>5, <1>7 DEF LatencyTypes, e
    <2>2. QED
        BY <2>1, <1>1, <1>2, <1>5, <1>6 DEF LatencyTypes
<1>9. \A q \in Latency!Processes : fun_perf_stat_events[q] # None =>
        /\ element'[fun_perf_stat_events[q]] \in Latency!Record
        /\ element'[fun_perf_stat_events[q]].start_time
               = element[fun_perf_stat_events[q]].start_time
    BY <1>1, <1>7 DEF LatencyTypes, Stored
<1>10. Stored'
    BY <1>1, <1>2, <1>9 DEF Stored
<1>11. Alone' /\ OwnElement' /\ Latency!ReportsOwnCall'
    BY <1>1, <1>2 DEF Alone, OwnElement, Latency!ReportsOwnCall
<1>12. Latency!ReportsEveryCall'
    BY <1>1, <1>2 DEF Latency!ReportsEveryCall, Latency!Underway
<1>13. OwnRecord'
    <2>1. ASSUME NEW u \in Threads, NEW i \in 1..Len(stack[u]), stack[u][i] \notin disturbed
          PROVE  LET d == stack[u][i]
                     f == fun_perf_stat_events[Process[u]]
                 IN  /\ latency_step'[u] = "running" =>
                         IF f = None THEN d \in unmeasured ELSE element'[f].start_time = d
                     /\ latency_step'[u] \in {"found", "ended"} => f = stat[u]
                     /\ latency_step'[u] # "running" => element'[stat[u]].start_time = d
                     /\ latency_step'[u] \in {"ended", "deleted"} =>
                            element'[stat[u]].end_time = d
        <3>1. Head(stack[u]) = stack[u][i] /\ stack[u] # <<>>
            BY <2>1, <1>1, OnlyCall, StackIs
        <3>2. Process[u] \in Latency!Processes
            BY ProcessOf
        <3>3. latency_step[u] # "running" =>
                  stat[u] \in Elements /\ element[stat[u]] \in Latency!Record
            BY <1>1 DEF LatencyTypes
        <3>4. CASE u = t
            BY <3>1, <3>2, <3>4, <2>1, <1>1, <1>2, <1>5, <1>6 DEF OwnRecord, e, c
        <3>5. CASE u # t
            <4>1. latency_step[u] # "running" => element'[stat[u]] = element[stat[u]]
                BY <3>1, <3>3, <3>5, <2>1, <1>1, <1>3, <1>6 DEF OwnElement, e
            <4>2. QED
                BY <4>1, <3>2, <3>5, <2>1, <1>1, <1>5, <1>9 DEF OwnRecord
        <3>6. QED
            BY <3>4, <3>5
    <2>2. QED
        BY <2>1, <1>2 DEF OwnRecord
<1>14. StoredBy'
    <2>1. \A u \in Threads : latency_step'[u] = "deleted" => latency_step[u] = "deleted"
        BY <1>5
    <2>2. QED
        BY <2>1, <1>1, <1>2, <1>9 DEF StoredBy
<1>15. QED
    BY <1>8, <1>10, <1>11, <1>12, <1>13, <1>14 DEF LatencyInv

LEMMA DeletesElem ==
    ASSUME Latency!LatencyAssumption, LatencyInv, NEW t \in Threads, Latency!DeleteElem(t)
    PROVE  LatencyInv'
<1> DEFINE p == Process[t]
<1>1. LatencyTypes /\ Stored /\ Alone /\ OwnRecord /\ OwnElement /\ Latency!ReportsOwnCall
      /\ Latency!ReportsEveryCall /\ StoredBy
    BY DEF LatencyInv
<1>2. /\ latency_step[t] = "ended"
             /\ fun_perf_stat_events' = [fun_perf_stat_events EXCEPT ![p] = None]
      /\ latency_step' = [latency_step EXCEPT ![t] = "deleted"] /\ stack' = stack /\ stat' = stat
      /\ element' = element /\ latency_events' = latency_events
      /\ latency_calls' = latency_calls /\ disturbed' = disturbed /\ unmeasured' = unmeasured
    BY DEF Latency!DeleteElem, Latency!Key
<1>3. stack[t] # <<>> /\ stat[t] # None /\ p \in Latency!Processes
    BY <1>1, <1>2, ProcessOf DEF LatencyTypes
<1>4. /\ latency_step' \in [Threads -> {"running", "found", "ended", "deleted"}]
             /\ latency_step'[t] = "deleted"
      /\ \A u \in Threads : u # t => latency_step'[u] = latency_step[u]
    BY <1>1, <1>2 DEF LatencyTypes
<1>5. /\ fun_perf_stat_events' \in [Latency!Processes -> Elements \cup {None}]
      /\ fun_perf_stat_events'[p] = None
      /\ \A q \in Latency!Processes : q # p => fun_perf_stat_events'[q] = fun_perf_stat_events[q]
    BY <1>1, <1>2, <1>3 DEF LatencyTypes
<1> HIDE DEF p
<1>6. LatencyTypes'
    BY <1>1, <1>2, <1>4, <1>5 DEF LatencyTypes
<1>7. Stored' /\ Alone' /\ Latency!ReportsOwnCall'
    BY <1>1, <1>2, <1>5 DEF Stored, Alone, Latency!ReportsOwnCall
<1>8. Latency!ReportsEveryCall'
    BY <1>1, <1>2 DEF Latency!ReportsEveryCall, Latency!Underway
<1>9. ASSUME NEW u \in Threads, u # t, NEW i \in 1..Len(stack[u]), stack[u][i] \notin disturbed
      PROVE  fun_perf_stat_events'[Process[u]] = fun_perf_stat_events[Process[u]]
    <2>1. Process[u] # p
        BY <1>9, <1>1, <1>3, OnlyCall DEF p
    <2>2. QED
        BY <2>1, <1>5, ProcessOf
<1>10. OwnRecord'
    <2>1. ASSUME NEW u \in Threads, NEW i \in 1..Len(stack[u]), stack[u][i] \notin disturbed
          PROVE  LET d == stack[u][i]
                     f == fun_perf_stat_events'[Process[u]]
                 IN  /\ latency_step'[u] = "running" =>
                         IF f = None THEN d \in unmeasured ELSE element[f].start_time = d
                     /\ latency_step'[u] \in {"found", "ended"} => f = stat[u]
                     /\ latency_step'[u] # "running" => element[stat[u]].start_time = d
                     /\ latency_step'[u] \in {"ended", "deleted"} => element[stat[u]].end_time = d
        <3>1. CASE u = t
            BY <3>1, <2>1, <1>1, <1>2, <1>4 DEF OwnRecord
        <3>2. CASE u # t
            BY <3>2, <2>1, <1>1, <1>4, <1>9 DEF OwnRecord
        <3>3. QED
            BY <3>1, <3>2
    <2>2. QED
        BY <2>1, <1>2 DEF OwnRecord
<1>11. OwnElement'
    <2>1. ASSUME NEW u \in Threads, stack[u] # <<>>, Head(stack[u]) \notin disturbed
          PROVE  /\ \A v \in Threads : v # u /\ stat[v] # None =>
                      stat[v] # stat[u] /\ stat[v] # fun_perf_stat_events'[Process[u]]
                 /\ stat[u] # None => \A q \in Latency!Processes : q # Process[u] =>
                      fun_perf_stat_events'[q] # stat[u]
        <3>1. 1 \in 1..Len(stack[u]) /\ stack[u][1] \notin disturbed
            BY <2>1, <1>1, StackIs
        <3>2. fun_perf_stat_events'[Process[u]] \in {fun_perf_stat_events[Process[u]], None}
            BY <1>5, ProcessOf
        <3>3. QED
            BY <3>2, <2>1, <1>1, <1>5 DEF OwnElement
    <2>2. QED
        BY <2>1, <1>2 DEF OwnElement
<1>12. StoredBy'
    <2>1. ASSUME NEW q \in Latency!Processes, fun_perf_stat_events'[q] # None
          PROVE  /\ fun_perf_stat_events'[q] = fun_perf_stat_events[q]
                 /\ \A u \in Threads : Process[u] = q => latency_step'[u] = latency_step[u]
        BY <2>1, <1>4, <1>5 DEF p
    <2>2. QED
        BY <2>1, <1>1, <1>2 DEF StoredBy
<1>13. QED
    BY <1>6, <1>7, <1>8, <1>10, <1>11, <1>12 DEF LatencyInv

LEMMA Outputs ==
    ASSUME Latency!LatencyAssumption, LatencyInv, NEW t \in Threads, Latency!Output(t)
    PROVE  LatencyInv'
<1> DEFINE c == Head(stack[t])
           ev0 == <<element[stat[t]], c>>
<1>1. LatencyTypes /\ Stored /\ Alone /\ OwnRecord /\ OwnElement /\ Latency!ReportsOwnCall
      /\ Latency!ReportsEveryCall /\ StoredBy
    BY DEF LatencyInv
<1>2. /\ latency_step[t] = "deleted" /\ Latency!Returned(t)
      /\ latency_step' = [latency_step EXCEPT ![t] = "running"]
             /\ stat' = [stat EXCEPT ![t] = None]
      /\ element' = element /\ fun_perf_stat_events' = fun_perf_stat_events
      /\ latency_calls' = latency_calls /\ disturbed' = disturbed
      /\ \/ latency_events' = latency_events \cup {ev0} /\ unmeasured' = unmeasured
         \/ latency_events' = latency_events /\ unmeasured' = unmeasured \cup {c}
    BY DEF Latency!Output
<1>3. stack[t] # <<>> /\ stat[t] \in Elements /\ element[stat[t]] \in Latency!Record
    BY <1>1, <1>2 DEF LatencyTypes
<1>4. /\ stack' \in [Threads -> Seq(Nat)]
      /\ \A u \in Threads : u # t => stack'[u] = stack[u]
      /\ Len(stack'[t]) <= Len(stack[t])
      /\ \A i \in 1..Len(stack'[t]) : i + 1 \in 1..Len(stack[t]) /\ stack'[t][i] = stack[t][i + 1]
      /\ \A i \in 1..Len(stack[t]) : i # 1 =>
            i - 1 \in 1..Len(stack'[t]) /\ stack'[t][i - 1] = stack[t][i]
      /\ \A i \in 1..Len(stack'[t]) : stack'[t][i] \in disturbed
      /\ stack'[t] # <<>> => Head(stack'[t]) \in disturbed
      /\ c = stack[t][1] /\ 1 \in 1..Len(stack[t])
    BY <1>2, <1>3, ReturnedStacks
<1>5. /\ latency_step' \in [Threads -> {"running", "found", "ended", "deleted"}]
             /\ latency_step'[t] = "running"
      /\ stat' \in [Threads -> Elements \cup {None}] /\ stat'[t] = None
      /\ \A u \in Threads : u # t => latency_step'[u] = latency_step[u] /\ stat'[u] = stat[u]
    BY <1>1, <1>2 DEF LatencyTypes
<1>6. c \in 1..LatencyCalls /\ c \in 1..latency_calls
    BY <1>1, <1>4 DEF LatencyTypes, Latency!LatencyAssumption
<1>7. ev0 \in Latency!Record \X (1..LatencyCalls) /\ ev0[2] = c /\ ev0[1] = element[stat[t]]
    BY <1>3, <1>6
<1>8. unmeasured \subseteq unmeasured' /\ latency_events \subseteq latency_events'
          /\ latency_events' \subseteq latency_events \cup {ev0}
      /\ unmeasured' \subseteq 1..LatencyCalls
    BY <1>1, <1>2, <1>6 DEF LatencyTypes
<1>9. c \in unmeasured' \/ \E ev \in latency_events' : ev[2] = c
    BY <1>2, <1>7
<1> HIDE DEF c, ev0
<1>10. LatencyTypes'
    <2>1. Len(stack'[t]) <= latency_calls
              /\ \A i \in 1..Len(stack'[t]) : stack'[t][i] \in 1..latency_calls
        <3>1. Len(stack[t]) <= latency_calls
                  /\ \A i \in 1..Len(stack[t]) : stack[t][i] \in 1..latency_calls
            BY <1>1 DEF LatencyTypes
        <3>2. Len(stack'[t]) \in Nat /\ Len(stack[t]) \in Nat /\ latency_calls \in Nat
            BY <1>1, <1>4, StackIs DEF LatencyTypes
        <3>3. Len(stack'[t]) <= latency_calls
            BY <3>1, <3>2, <1>4
        <3>4. \A i \in 1..Len(stack'[t]) : i + 1 \in 1..Len(stack[t])
                  /\ stack'[t][i] = stack[t][i + 1]
            BY <1>4
        <3>5. QED
            BY <3>1, <3>3, <3>4
    <2>2. latency_events' \subseteq Latency!Record \X (1..LatencyCalls)
        BY <1>1, <1>7, <1>8 DEF LatencyTypes
    <2>3. \A u \in Threads : (stat'[u] = None <=> latency_step'[u] = "running")
                             /\ (stat'[u] # None =>
                                    stack'[u] # <<>> /\ element[stat'[u]] \in Latency!Record)
        BY <1>1, <1>4, <1>5 DEF LatencyTypes
    <2>4. \A u \in Threads : /\ Len(stack'[u]) <= latency_calls
                             /\ \A i \in 1..Len(stack'[u]) : stack'[u][i] \in 1..latency_calls
        BY <2>1, <1>1, <1>4 DEF LatencyTypes
    <2>5. QED
        BY <2>2, <2>3, <2>4, <1>1, <1>2, <1>4, <1>5, <1>8 DEF LatencyTypes
<1>11. Stored'
    BY <1>1, <1>2 DEF Stored
<1>12. ASSUME NEW u \in Threads, NEW i \in 1..Len(stack'[u]), stack'[u][i] \notin disturbed
       PROVE  u # t /\ stack'[u] = stack[u]
    BY <1>12, <1>4
<1>13. Alone'
    <2>1. ASSUME NEW u \in Threads, NEW v \in Threads, NEW i \in 1..Len(stack'[u]),
                 NEW j \in 1..Len(stack'[v]), Process[u] = Process[v],
                     stack'[u][i] \notin disturbed
          PROVE  u = v /\ i = j
        <3>1. u # t /\ i \in 1..Len(stack[u]) /\ stack[u][i] \notin disturbed
            BY <2>1, <1>12
        <3>2. v # t
            BY <3>1, <2>1, <1>1, <1>3, OnlyCall
        <3>3. QED
            BY <3>1, <3>2, <2>1, <1>1, <1>4 DEF Alone
    <2>2. QED
        BY <2>1, <1>2 DEF Alone
<1>14. OwnRecord'
    <2>1. ASSUME NEW u \in Threads, NEW i \in 1..Len(stack'[u]), stack'[u][i] \notin disturbed
          PROVE  /\ i \in 1..Len(stack[u]) /\ stack'[u][i] = stack[u][i]
                        /\ stack[u][i] \notin disturbed
                 /\ latency_step'[u] = latency_step[u] /\ stat'[u] = stat[u]
        BY <2>1, <1>5, <1>12
    <2>2. QED
        BY <2>1, <1>1, <1>2, <1>8 DEF OwnRecord
<1>15. OwnElement'
    <2>1. ASSUME NEW u \in Threads, stack'[u] # <<>>, Head(stack'[u]) \notin disturbed
          PROVE  u # t /\ stack'[u] = stack[u] /\ stat'[u] = stat[u]
        BY <2>1, <1>4, <1>5
    <2>2. \A v \in Threads : stat'[v] # None => stat'[v] = stat[v]
        BY <1>5
    <2>3. QED
        BY <2>1, <2>2, <1>1, <1>2 DEF OwnElement
<1>16. Latency!ReportsOwnCall'
    <2>1. ASSUME c \notin disturbed PROVE ev0[1].start_time = c /\ ev0[1].end_time = c
        <3>1. 1 \in 1..Len(stack[t]) /\ stack[t][1] \notin disturbed
            BY <2>1, <1>4
        <3>2. element[stat[t]].start_time = stack[t][1] /\ element[stat[t]].end_time = stack[t][1]
            BY <3>1, <1>1, <1>2 DEF OwnRecord
        <3>3. QED
            BY <3>2, <1>4, <1>7
    <2>2. ASSUME NEW ev \in latency_events', ev[2] \notin disturbed
          PROVE  ev[1].start_time = ev[2] /\ ev[1].end_time = ev[2]
        BY <2>1, <2>2, <1>1, <1>7, <1>8 DEF Latency!ReportsOwnCall
    <2>3. QED
        BY <2>2, <1>2 DEF Latency!ReportsOwnCall
<1>17. Latency!ReportsEveryCall'
    <2>1. ASSUME NEW d \in 1..latency_calls, d \notin disturbed
                     \cup unmeasured', ~ \E ev \in latency_events' : ev[2] = d
          PROVE  \E q \in Latency!Processes : d \in Latency!Underway(q)'
        <3>1. PICK q \in Latency!Processes : d \in Latency!Underway(q)
            BY <2>1, <1>1, <1>8 DEF Latency!ReportsEveryCall
        <3>2. PICK u \in Threads : Process[u] = q /\ \E i \in 1..Len(stack[u]) : stack[u][i] = d
            BY <3>1, <1>1, UnderwayIs DEF LatencyTypes
        <3>3. PICK i \in 1..Len(stack[u]) : stack[u][i] = d
            BY <3>2
        <3>4. u # t \/ i # 1
            BY <3>3, <2>1, <1>4, <1>9
        <3>5. \E j \in 1..Len(stack'[u]) : stack'[u][j] = d
            BY <3>3, <3>4, <1>4
        <3>6. QED
            BY <3>2, <3>5, <1>4, UnderwayIsNext
    <2>2. QED
        BY <2>1, <1>2 DEF Latency!ReportsEveryCall
<1>18. StoredBy'
    <2>1. ASSUME NEW q \in Latency!Processes, fun_perf_stat_events[q] # None
          PROVE  LET d == element[fun_perf_stat_events[q]].start_time
                 IN  \/ d \in unmeasured'
                     \/ \E u \in Threads : Process[u] = q /\ \E i \in 1..Len(stack'[u]) :
                         stack'[u][i] = d /\ (latency_step'[u] = "deleted" => i # 1)
        <3> DEFINE d == element[fun_perf_stat_events[q]].start_time
        <3>1. \/ d \in unmeasured
              \/ \E u \in Threads : Process[u] = q /\ \E i \in 1..Len(stack[u]) :
                     stack[u][i] = d /\ (latency_step[u] = "deleted" => i # 1)
            BY <2>1, <1>1 DEF StoredBy
        <3> HIDE DEF d
        <3>2. CASE d \in unmeasured
            BY <3>2, <1>8 DEF d
        <3>3. CASE d \notin unmeasured
            <4>1. PICK u \in Threads : Process[u] = q /\ \E i \in 1..Len(stack[u]) :
                     stack[u][i] = d /\ (latency_step[u] = "deleted" => i # 1)
                BY <3>1, <3>3
            <4>2. PICK i \in 1..Len(stack[u]) : stack[u][i] = d /\ (latency_step[u] = "deleted" =>
                      i # 1)
                BY <4>1
            <4>3. \E j \in 1..Len(stack'[u]) : stack'[u][j] = d /\ (latency_step'[u] = "deleted" =>
                      j # 1)
                <5>1. CASE u = t
                    BY <5>1, <4>2, <1>2, <1>4, <1>5
                <5>2. CASE u # t
                    BY <5>2, <4>2, <1>4, <1>5
                <5>3. QED
                    BY <5>1, <5>2
            <4>4. QED
                BY <4>1, <4>3 DEF d
        <3>4. QED
            BY <3>2, <3>3
    <2>2. QED
        BY <2>1, <1>2 DEF StoredBy
<1>19. QED
    BY <1>10, <1>11, <1>13, <1>14, <1>15, <1>16, <1>17, <1>18 DEF LatencyInv

LEMMA ProcessDies ==
    ASSUME Latency!LatencyAssumption, LatencyInv, NEW p \in Latency!Processes, Latency!Dies(p)
    PROVE  LatencyInv'
<1>1. LatencyTypes /\ Stored /\ Alone /\ OwnRecord /\ OwnElement /\ Latency!ReportsOwnCall
      /\ Latency!ReportsEveryCall /\ StoredBy
    BY DEF LatencyInv
<1>2. /\ \A t \in Threads : Process[t] = p => latency_step[t] = "running"
      /\ unmeasured' = unmeasured \cup Latency!Underway(p)
      /\ stack' = [t \in Threads |-> IF Process[t] = p THEN <<>> ELSE stack[t]]
      /\ latency_step' = latency_step /\ stat' = stat /\ element' = element
      /\ fun_perf_stat_events' = fun_perf_stat_events /\ latency_events' = latency_events
      /\ latency_calls' = latency_calls /\ disturbed' = disturbed
    BY DEF Latency!Dies
<1>3. stack \in [Threads -> Seq(Nat)]
    BY <1>1 DEF LatencyTypes
<1>4. Latency!Underway(p) \subseteq 1..LatencyCalls
    <2>1. ASSUME NEW d \in Latency!Underway(p) PROVE d \in 1..LatencyCalls
        <3>1. PICK t \in Threads : Process[t] = p /\ \E i \in 1..Len(stack[t]) : stack[t][i] = d
            BY <2>1, <1>3, UnderwayIs
        <3>2. QED
            BY <3>1, <1>1 DEF LatencyTypes, Latency!LatencyAssumption
    <2>2. QED
        BY <2>1
<1>5. /\ stack' \in [Threads -> Seq(Nat)]
      /\ \A u \in Threads : Process[u] # p => stack'[u] = stack[u]
      /\ \A u \in Threads : Process[u] = p => stack'[u] = <<>> /\ Len(stack'[u]) = 0
    BY <1>2, <1>3
<1>6. LatencyTypes'
    <2>1. \A u \in Threads : /\ Len(stack'[u]) <= latency_calls
                             /\ \A i \in 1..Len(stack'[u]) : stack'[u][i] \in 1..latency_calls
        <3>1. latency_calls \in Nat
            BY <1>1 DEF LatencyTypes
        <3>2. ASSUME NEW u \in Threads, Process[u] = p
              PROVE  Len(stack'[u]) <= latency_calls
                         /\ \A i \in 1..Len(stack'[u]) : stack'[u][i] \in 1..latency_calls
            BY <3>1, <3>2, <1>5
        <3>3. ASSUME NEW u \in Threads, Process[u] # p
              PROVE  Len(stack'[u]) <= latency_calls
                         /\ \A i \in 1..Len(stack'[u]) : stack'[u][i] \in 1..latency_calls
            BY <3>3, <1>1, <1>5 DEF LatencyTypes
        <3>4. QED
            BY <3>2, <3>3
    <2>2. \A u \in Threads : Process[u] = p => stat[u] = None
        BY <1>1, <1>2 DEF LatencyTypes
    <2>3. unmeasured' \subseteq 1..LatencyCalls
        BY <1>1, <1>2, <1>4 DEF LatencyTypes
    <2>4. QED
        BY <2>1, <2>2, <2>3, <1>1, <1>2, <1>5 DEF LatencyTypes
<1>7. Stored' /\ Latency!ReportsOwnCall'
    BY <1>1, <1>2 DEF Stored, Latency!ReportsOwnCall
<1>8. ASSUME NEW u \in Threads, NEW i \in 1..Len(stack'[u])
      PROVE  Process[u] # p /\ stack'[u] = stack[u]
    BY <1>8, <1>5
<1>9. Alone' /\ OwnRecord'
    BY <1>1, <1>2, <1>8 DEF Alone, OwnRecord
<1>10. OwnElement'
    BY <1>1, <1>2, <1>5 DEF OwnElement
<1>11. Latency!ReportsEveryCall'
    <2>1. ASSUME NEW d \in 1..latency_calls, d \notin disturbed
                     \cup unmeasured', ~ \E ev \in latency_events : ev[2] = d
          PROVE  \E q \in Latency!Processes : d \in Latency!Underway(q)'
        <3>1. PICK q \in Latency!Processes : d \in Latency!Underway(q)
            BY <2>1, <1>1, <1>2 DEF Latency!ReportsEveryCall
        <3>2. q # p
            BY <3>1, <2>1, <1>2
        <3>3. PICK u \in Threads : Process[u] = q /\ \E i \in 1..Len(stack[u]) : stack[u][i] = d
            BY <3>1, <1>3, UnderwayIs
        <3>4. QED
            BY <3>2, <3>3, <1>5, UnderwayIsNext
    <2>2. QED
        BY <2>1, <1>2 DEF Latency!ReportsEveryCall
<1>12. StoredBy'
    <2>1. ASSUME NEW q \in Latency!Processes, fun_perf_stat_events[q] # None
          PROVE  LET d == element[fun_perf_stat_events[q]].start_time
                 IN  \/ d \in unmeasured'
                     \/ \E u \in Threads : Process[u] = q /\ \E i \in 1..Len(stack'[u]) :
                         stack'[u][i] = d /\ (latency_step[u] = "deleted" => i # 1)
        <3> DEFINE d == element[fun_perf_stat_events[q]].start_time
        <3>1. \/ d \in unmeasured
              \/ \E u \in Threads : Process[u] = q /\ \E i \in 1..Len(stack[u]) :
                     stack[u][i] = d /\ (latency_step[u] = "deleted" => i # 1)
            BY <2>1, <1>1 DEF StoredBy
        <3> HIDE DEF d
        <3>2. CASE q = p
            <4>1. d \in unmeasured \/ d \in Latency!Underway(p)
                BY <3>1, <3>2, <1>3, UnderwayIs
            <4>2. QED
                BY <4>1, <1>2 DEF d
        <3>3. CASE q # p
            BY <3>1, <3>3, <1>2, <1>5 DEF d
        <3>4. QED
            BY <3>2, <3>3
    <2>2. QED
        BY <2>1, <1>2 DEF StoredBy
<1>13. QED
    BY <1>6, <1>7, <1>9, <1>10, <1>11, <1>12 DEF LatencyInv

LEMMA LatencyStep ==
    ASSUME Latency!LatencyAssumption, LatencyInv, [Latency!Next]_(Latency!lpvars)
    PROVE  LatencyInv'
<1>1. ASSUME NEW t \in Threads, Latency!uretprobe(t) PROVE LatencyInv'
    BY <1>1, UretprobeMisses, UretprobeFinds
<1>2. CASE UNCHANGED Latency!lpvars
    BY <1>2 DEF Latency!lpvars, LatencyInv, LatencyTypes, Stored, Alone, OwnRecord, OwnElement,
        Latency!ReportsOwnCall, Latency!ReportsEveryCall, StoredBy, Latency!Underway
<1>3. QED
    BY <1>1, <1>2, Uprobe, SetsEndTime, DeletesElem, Outputs, ProcessDies DEF Latency!Next

(* With no call under way, whoever stored a record is unmeasured.            *)
LEMMA LatencyLeaves ==
    ASSUME LatencyInv PROVE Latency!NoEntryLeft
<1>1. LatencyTypes /\ StoredBy
    BY DEF LatencyInv
<1>2. ASSUME \A p \in Latency!Processes : Latency!Underway(p) = {}, NEW e \in Latency!Used
      PROVE  element[e].start_time \in unmeasured
    <2>1. PICK q \in Latency!Processes : e = fun_perf_stat_events[q] /\ e # None
        BY <1>2 DEF Latency!Used
    <2> DEFINE d == element[e].start_time
    <2>2. \/ d \in unmeasured
          \/ \E u \in Threads : Process[u] = q /\ \E i \in 1..Len(stack[u]) : stack[u][i] = d
        BY <2>1, <1>1 DEF StoredBy
    <2> HIDE DEF d
    <2>3. d \notin Latency!Underway(q)
        BY <1>2
    <2>4. QED
        BY <2>2, <2>3, <1>1, UnderwayIs DEF LatencyTypes, d
<1>3. QED
    BY <1>2 DEF Latency!NoEntryLeft

-----------------------------------------------------------------------------
(* alloc.h and go_types.h: what BPF programs write into the area of the      *)
(* traced program.                                                           *)

(* The step of a program at which its write is still to come.                *)
Before == {"start", "store", "end", "restart", "restore", "write"}
Programs == [why: {"none", "string", "append"}, sizes: Seq(Nat), buffer: Seq(Nat),
             block: Seq(Nat)]
Blocks == [first: Nat, last: Nat, write: Nat]
Slices == [array: Nat, len: Nat, cap: Nat]

AllocTypes ==
    /\ alloc_start = <<>> \/ alloc_start \in [Alloc!CPUs -> Nat]
    /\ alloc_end = <<>> \/ alloc_end \in [Alloc!CPUs -> Nat]
    /\ alloc_prog \in [Alloc!CPUs -> Programs]
    /\ alloc_at \in [Alloc!CPUs -> Alloc!Steps]
    /\ start \in [Alloc!CPUs -> Nat] /\ end \in [Alloc!CPUs -> Nat]
    /\ memory \in [Alloc!Locations -> Nat]
    /\ writes \in Nat
    /\ blocks \in [Alloc!CPUs -> SUBSET Blocks]
    /\ emptied \in SUBSET Alloc!CPUs
    /\ slice \in Slices
    /\ appended \in Seq(Nat)
    /\ recycled \in BOOLEAN

ProgramOK(c) ==
    /\ alloc_at[c] = "idle" => alloc_prog[c].why = "none"
    /\ alloc_prog[c].why # "append" => alloc_prog[c].buffer = <<>>
    /\ alloc_at[c] \in Before \cup {"update"} => Len(alloc_prog[c].sizes) > 0
    /\ alloc_at[c] \in {"update", "done"} => Len(alloc_prog[c].block) = 2

EndKnown(c) ==
    /\ Alloc!Here(alloc_end, c) \in {0, Alloc!PartEnd(c)}
    /\ Alloc!Here(alloc_end, c) = 0 =>
        /\ alloc_at[c] \in {"idle", "start", "store", "end"}
        /\ Alloc!Here(alloc_start, c) \in {0, Alloc!PartStart(c)}
        /\ alloc_at[c] = "end" => start[c] = Alloc!PartStart(c)
    /\ alloc_at[c] = "restart" => Alloc!Here(alloc_start, c) = 0
    /\ alloc_at[c] \in {"store", "restore"} => start[c] = Alloc!PartStart(c)
    /\ alloc_at[c] \in {"restart", "restore", "write"} => end[c] = Alloc!PartEnd(c)

(* v is a place in c's part, behind what c has written.                      *)
Behind(c, v) ==
    /\ Alloc!PartStart(c) <= v /\ v <= Alloc!PartEnd(c)
    /\ \A b \in blocks[c] : b.last < v

PartOK(c) ==
    /\ \A b \in blocks[c] :
        Alloc!PartStart(c) <= b.first /\ b.first <= b.last /\ b.last < Alloc!PartEnd(c)
    /\ \A b, two \in blocks[c] : b = two \/ b.last < two.first \/ two.last < b.first
    /\ alloc_at[c] \in {"store", "restart", "restore"} => blocks[c] = {}
    /\ alloc_at[c] \in {"end", "write", "update"} => Behind(c, start[c])
    /\ alloc_at[c] # "update" => IF Alloc!Here(alloc_start, c) = 0 THEN blocks[c] = {}
                           ELSE Behind(c, Alloc!Here(alloc_start, c))
    /\ alloc_at[c] = "write" =>
        Head(alloc_prog[c].sizes) <= Alloc!PartEnd(c) - start[c] \/ start[c] = Alloc!PartStart(c)

(* CPU c writes only behind hi until some CPU begins again.                  *)
Safe(c, lo, hi) ==
    /\ Alloc!PartStart(c) <= lo /\ hi < Alloc!PartEnd(c)
    /\ alloc_at[c] \in {"end", "write", "update"} => hi < start[c]
    /\ alloc_at[c] # "update" =>
        /\ alloc_at[c] \notin {"store", "restart", "restore"}
        /\ Alloc!Here(alloc_start, c) # 0 /\ hi < Alloc!Here(alloc_start, c)

SliceOK ==
    /\ slice.len = Len(appended) /\ slice.len <= slice.cap
    /\ slice.array + slice.len \in Alloc!Locations
    /\ IF slice.array = Alloc!GoHeap THEN slice.cap = 1 ELSE slice.len = slice.cap
    /\ \A c, d \in Alloc!CPUs : alloc_prog[c].why = "append" /\ alloc_prog[d].why = "append" =>
           c = d

AppendOK(c) == alloc_prog[c].why = "append" =>
    /\ slice.len = slice.cap
    /\ alloc_at[c] \in Before =>
        /\ alloc_prog[c].sizes = <<slice.len + 1>> /\ Len(alloc_prog[c].buffer) = slice.len
        /\ slice.len + 1 <= MaxBufferSize
    /\ alloc_at[c] = "update" => Len(alloc_prog[c].sizes) = 1
    /\ alloc_at[c] \in {"update", "done"} =>
        Alloc!GoHeap < alloc_prog[c].block[1]
            /\ alloc_prog[c].block[1] + slice.len + 1 \in Alloc!Locations

ArraySafe ==
    /\ slice.array # Alloc!GoHeap =>
        \E c \in Alloc!CPUs : Safe(c, slice.array, slice.array + slice.len - 1)
    /\ \A i \in 1..slice.len : appended[i] \in {0, memory[slice.array + i - 1]}
AppendSafe(c) == alloc_prog[c].why = "append" =>
    /\ alloc_at[c] \in Before =>
           \A i \in 1..slice.len : appended[i] \in {0, alloc_prog[c].buffer[i]}
    /\ alloc_at[c] \in {"update", "done"} =>
        LET new == alloc_prog[c].block[1]
        IN  /\ Safe(c, new, new + slice.len)
            /\ memory[new + slice.len] = alloc_prog[c].block[2]
            /\ \A i \in 1..slice.len : appended[i] \in {0, memory[new + i - 1]}

AllocInv ==
    /\ AllocTypes
    /\ \A c \in Alloc!CPUs : ProgramOK(c) /\ EndKnown(c) /\ AppendOK(c)
    /\ \A c \in Alloc!CPUs \ emptied : PartOK(c)
    /\ SliceOK
    /\ emptied = {} /\ ~recycled => ArraySafe /\ \A c \in Alloc!CPUs : AppendSafe(c)
-----------------------------------------------------------------------------
(* The parts of the area, and where a block goes in one.                     *)

LEMMA CpuTypes ==
    ASSUME Alloc!AllocAssumption
    PROVE  /\ Alloc!partition_size \in Nat \ {0} /\ 0 \in Alloc!CPUs
           /\ \A c \in Alloc!CPUs : c \in Nat /\ c <= total_cpus - 1
<1>1. total_cpus \in Nat \ {0} /\ start_addr \in Nat /\ end_addr \in Nat
      /\ Alloc!partition_size > 0
    BY DEF Alloc!AllocAssumption
<1>2. (end_addr - start_addr) \div total_cpus \in Int
    BY <1>1
<1>3. Alloc!partition_size \in Int
    BY <1>2 DEF Alloc!partition_size
<1>4. QED
    BY <1>1, <1>3 DEF Alloc!CPUs

LEMMA TimesMono ==
    ASSUME NEW m \in Nat, NEW a \in Nat, NEW b \in Nat, a <= b
    PROVE  m * a <= m * b
<1>1. PICK k \in Nat : b = a + k
    BY b - a \in Nat, b = a + (b - a)
<1>2. m * b = m * a + m * k /\ m * k \in Nat /\ m * a \in Nat
    BY <1>1
<1>3. QED
    BY <1>2

(* (alloc.h:35-54)                                                           *)
LEMMA Parts ==
    ASSUME Alloc!AllocAssumption, NEW c \in Alloc!CPUs
    PROVE  /\ Alloc!PartStart(c) \in Nat /\ Alloc!PartEnd(c) \in Nat
           /\ Alloc!GoHeap < Alloc!PartStart(c) /\ start_addr <= Alloc!PartStart(c)
           /\ Alloc!PartStart(c) < Alloc!PartEnd(c) /\ Alloc!PartEnd(c) <= end_addr
           /\ Alloc!PartEnd(c) - Alloc!PartStart(c) = Alloc!partition_size
<1> DEFINE w == Alloc!partition_size
<1>1. w \in Nat \ {0} /\ c \in Nat /\ c <= total_cpus - 1 /\ total_cpus - 1 \in Nat
    BY CpuTypes DEF Alloc!AllocAssumption
<1>2. start_addr \in Nat /\ end_addr \in Nat /\ Alloc!GoHeap < start_addr
      /\ Alloc!PartEnd(total_cpus - 1) <= end_addr
    BY DEF Alloc!AllocAssumption
<1>3. Alloc!PartStart(c) = start_addr + w * c /\ Alloc!PartEnd(c) = start_addr + w * c + w
    BY DEF Alloc!PartStart, Alloc!PartEnd
<1>4. Alloc!PartEnd(total_cpus - 1) = start_addr + w * (total_cpus - 1) + w
    BY DEF Alloc!PartStart, Alloc!PartEnd
<1> HIDE DEF w
<1>5. w * c \in Nat /\ w * (total_cpus - 1) \in Nat
    BY <1>1
<1>6. w * c <= w * (total_cpus - 1)
    BY <1>1, TimesMono
<1>7. Alloc!GoHeap \in Nat
    BY DEF Alloc!GoHeap
<1>8. Alloc!PartEnd(c) - Alloc!PartStart(c) = w
    BY <1>1, <1>2, <1>3, <1>5
<1>9. QED
    BY <1>1, <1>2, <1>3, <1>4, <1>5, <1>6, <1>7, <1>8 DEF w

LEMMA PartsApart ==
    ASSUME Alloc!AllocAssumption, NEW c \in Alloc!CPUs, NEW d \in Alloc!CPUs, c # d
    PROVE  Alloc!PartEnd(c) <= Alloc!PartStart(d) \/ Alloc!PartEnd(d) <= Alloc!PartStart(c)
<1> DEFINE w == Alloc!partition_size
<1>1. w \in Nat \ {0} /\ c \in Nat /\ d \in Nat /\ start_addr \in Nat
    BY CpuTypes DEF Alloc!AllocAssumption
<1>2. /\ Alloc!PartStart(c) = start_addr + w * c /\ Alloc!PartEnd(c) = start_addr + w * c + w
      /\ Alloc!PartStart(d) = start_addr + w * d /\ Alloc!PartEnd(d) = start_addr + w * d + w
    BY DEF Alloc!PartStart, Alloc!PartEnd
<1> HIDE DEF w
<1>3. ASSUME NEW a \in Nat, NEW b \in Nat, a < b PROVE w * a + w <= w * b
    <2>1. w * (a + 1) <= w * b
        BY <1>1, <1>3, TimesMono
    <2>2. w * (a + 1) = w * a + w
        BY <1>1
    <2>3. QED
        BY <2>1, <2>2
<1>4. w * c \in Nat /\ w * d \in Nat
    BY <1>1
<1>5. c < d \/ d < c
    BY <1>1
<1>6. QED
    BY <1>1, <1>2, <1>3, <1>4, <1>5

(* A part begins and ends with a page.                                       *)
LEMMA PartPages ==
    ASSUME Alloc!AllocAssumption, NEW c \in Alloc!CPUs
    PROVE  /\ \E k \in Nat : Alloc!PartStart(c) = PageSize * k
           /\ \E k \in Nat : Alloc!PartEnd(c) = PageSize * k
           /\ Alloc!PartStart(c) + PageSize <= Alloc!PartEnd(c)
<1>1. Alloc!partition_size \in Nat \ {0} /\ c \in Nat /\ start_addr \in Nat
      /\ PageSize \in Nat \ {0}
    BY CpuTypes DEF Alloc!AllocAssumption
<1>2. PICK s \in Nat : start_addr = PageSize * s
    <2>1. \E q \in Nat : start_addr = PageSize * q + (start_addr % PageSize)
        BY <1>1, Ring!ModParts
    <2>2. start_addr % PageSize = 0
        BY DEF Alloc!AllocAssumption
    <2>3. \A q \in Nat : PageSize * q + 0 = PageSize * q
        BY <1>1
    <2>4. QED
        BY <2>1, <2>2, <2>3
<1>3. PICK w \in Nat : Alloc!partition_size = PageSize * w
    <2>1. \E q \in Nat : Alloc!partition_size = PageSize * q + (Alloc!partition_size % PageSize)
        BY <1>1, Ring!ModParts
    <2>2. Alloc!partition_size % PageSize = 0
        BY DEF Alloc!AllocAssumption
    <2>3. \A q \in Nat : PageSize * q + 0 = PageSize * q
        BY <1>1
    <2>4. QED
        BY <2>1, <2>2, <2>3
<1>4. s + w * c \in Nat /\ s + w * c + w \in Nat
    BY <1>1
<1>5. Alloc!PartStart(c) = PageSize * s + (PageSize * w) * c
    BY <1>2, <1>3 DEF Alloc!PartStart
<1>6. Alloc!PartEnd(c) = PageSize * s + (PageSize * w) * c + PageSize * w
    BY <1>3, <1>5 DEF Alloc!PartEnd
<1>7. PageSize * s + (PageSize * w) * c = PageSize * (s + w * c)
    BY <1>1
<1>8. PageSize * s + (PageSize * w) * c + PageSize * w = PageSize * (s + w * c + w)
    BY <1>1
<1>9. Alloc!PartStart(c) + PageSize <= Alloc!PartEnd(c)
    <2>1. w # 0
        BY <1>1, <1>3
    <2>2. PageSize * 1 <= PageSize * w
        BY <1>1, <2>1, TimesMono
    <2>3. Alloc!PartEnd(c) = Alloc!PartStart(c) + PageSize * w /\ Alloc!PartStart(c) \in Nat
        BY <1>3, Parts DEF Alloc!PartEnd
    <2>4. PageSize * w \in Nat
        BY <1>1
    <2>5. QED
        BY <1>1, <2>2, <2>3, <2>4
<1>10. QED
    BY <1>4, <1>5, <1>6, <1>7, <1>8, <1>9

LEMMA RoundWithin ==
    ASSUME NEW a \in Nat \ {0}, NEW e \in Nat, NEW v \in Nat, v <= a * e,
           NEW u, u = IF v % a = 0 THEN v ELSE v + a - (v % a)
    PROVE  u \in Nat /\ v <= u /\ u <= a * e
<1>1. v % a \in 0..(a - 1)
    BY Ring!ModParts
<1>2. PICK q \in Nat : v = a * q + (v % a)
    BY Ring!ModParts
<1>3. CASE v % a = 0
    BY <1>3
<1>4. CASE v % a # 0
    <2>1. u = v + a - (v % a)
        BY <1>4
    <2>2. a * q \in Nat /\ a * e \in Nat
        OBVIOUS
    <2>3. u = a * q + a /\ u \in Nat /\ v <= u
        BY <1>1, <1>2, <2>1, <2>2
    <2>4. a * q < a * e
        BY <1>1, <1>2, <1>4, <2>2
    <2>5. q < e
        <3>1. CASE e <= q
            BY <3>1, <2>2, <2>4, TimesMono
        <3>2. QED
            BY <3>1
    <2>6. a * (q + 1) <= a * e
        BY <2>5, TimesMono
    <2>7. a * (q + 1) = a * q + a
        OBVIOUS
    <2>8. QED
        BY <2>3, <2>6, <2>7
<1>5. QED
    BY <1>3, <1>4

(* (alloc.h:94-99) A block that fits behind addr still fits behind the page  *)
(* it is moved to.                                                           *)
LEMMA PageWithin ==
    ASSUME Alloc!AllocAssumption, NEW c \in Alloc!CPUs, NEW addr \in Nat,
               NEW size \in 1..PageSize,
           Alloc!PartStart(c) <= addr,
           addr + size <= Alloc!PartEnd(c) \/ addr = Alloc!PartStart(c)
    PROVE  /\ Alloc!PageAdjusted(addr, size) \in Nat
           /\ addr <= Alloc!PageAdjusted(addr, size)
           /\ Alloc!PageAdjusted(addr, size) + size <= Alloc!PartEnd(c)
<1> DEFINE r == addr % PageSize
           dist == PageSize - r
           target == Alloc!PageAdjusted(addr, size)
<1>1. PageSize \in Nat \ {0} /\ Alloc!PartEnd(c) \in Nat /\ Alloc!PartStart(c) \in Nat
    BY Parts DEF Alloc!AllocAssumption
<1>2. r \in 0..(PageSize - 1)
    BY <1>1, Ring!ModParts
<1>3. PICK q \in Nat : addr = PageSize * q + r
    BY <1>1, Ring!ModParts
<1>4. PICK e \in Nat : Alloc!PartEnd(c) = PageSize * e
    BY PartPages
<1>5. Alloc!PartStart(c) + PageSize <= Alloc!PartEnd(c)
    BY PartPages
<1>6. addr + size <= Alloc!PartEnd(c)
    BY <1>1, <1>5
<1>7. target = IF dist < size THEN addr + dist ELSE addr
    BY DEF Alloc!PageAdjusted
<1>8. PageSize * q \in Nat /\ PageSize * e \in Nat
    BY <1>1
<1> HIDE DEF r, target
<1>9. CASE dist < size
    <2>1. target = PageSize * q + PageSize
        BY <1>1, <1>2, <1>3, <1>7, <1>8, <1>9
    <2>2. PageSize * (q + 1) < PageSize * e
        <3>1. PageSize * (q + 1) = PageSize * q + PageSize
            BY <1>1
        <3>2. QED
            BY <1>1, <1>2, <1>3, <1>4, <1>6, <1>8, <1>9, <3>1
    <2>3. q + 1 < e
        <3>1. CASE e <= q + 1
            BY <3>1, <2>2, <1>1, <1>8, TimesMono
        <3>2. QED
            BY <3>1
    <2>4. PageSize * (q + 2) <= PageSize * e
        BY <2>3, <1>1, TimesMono
    <2>5. PageSize * (q + 2) = PageSize * q + PageSize + PageSize
        BY <1>1
    <2>6. QED
        BY <1>1, <1>2, <1>3, <1>4, <1>8, <2>1, <2>4, <2>5 DEF target
<1>10. CASE ~(dist < size)
    BY <1>6, <1>7, <1>10 DEF target
<1>11. QED
    BY <1>9, <1>10

(* (alloc.h:112-117) The next place is behind the block, and in the part.    *)
LEMMA NextPlace ==
    ASSUME Alloc!AllocAssumption, NEW c \in Alloc!CPUs, NEW target \in Nat, NEW size \in Nat,
               NEW s,
           target + size <= Alloc!PartEnd(c)
    PROVE  /\ Alloc!UpdatedStart(s, target, size) \in Nat
           /\ target + size <= Alloc!UpdatedStart(s, target, size)
           /\ Alloc!UpdatedStart(s, target, size) <= Alloc!PartEnd(c)
<1>1. PageSize \in Nat \ {0} /\ Align \in Nat \ {0} /\ PageSize % Align = 0
    BY DEF Alloc!AllocAssumption
<1>2. PICK k \in Nat : Alloc!PartEnd(c) = PageSize * k
    BY PartPages
<1>3. PICK j \in Nat : PageSize = Align * j + (PageSize % Align)
    BY <1>1, Ring!ModParts
<1>4. PageSize = Align * j
    BY <1>1, <1>3
<1>5. PICK e \in Nat : Alloc!PartEnd(c) = Align * e
    <2>1. Alloc!PartEnd(c) = Align * (j * k) /\ j * k \in Nat
        BY <1>1, <1>2, <1>4
    <2>2. QED
        BY <2>1
<1>6. Alloc!UpdatedStart(s, target, size) = Alloc!RoundUp(target + size)
    BY DEF Alloc!UpdatedStart
<1>7. target + size \in Nat /\ target + size <= Align * e
    BY <1>5
<1> DEFINE v == target + size
<1>8. Alloc!RoundUp(v) \in Nat /\ v <= Alloc!RoundUp(v) /\ Alloc!RoundUp(v) <= Align * e
    <2>1. Alloc!RoundUp(v) = IF v % Align = 0 THEN v ELSE v + Align - (v % Align)
        BY DEF Alloc!RoundUp
    <2> HIDE DEF v
    <2>2. QED
        BY <1>1, <1>7, <2>1, RoundWithin DEF v
<1>9. QED
    BY <1>5, <1>6, <1>8

-----------------------------------------------------------------------------
(* The entries of the per-CPU map.                                           *)

LEMMA HereType ==
    ASSUME NEW e, e = <<>> \/ e \in [Alloc!CPUs -> Nat], NEW c \in Alloc!CPUs
    PROVE  Alloc!Here(e, c) \in Nat
BY DEF Alloc!Here

LEMMA PutType ==
    ASSUME NEW e, e = <<>> \/ e \in [Alloc!CPUs -> Nat], NEW c \in Alloc!CPUs, NEW v \in Nat
    PROVE  Alloc!Put(e, c, v) \in [Alloc!CPUs -> Nat]
BY HereType DEF Alloc!Put

LEMMA HerePut ==
    ASSUME Alloc!AllocAssumption, NEW e, NEW c \in Alloc!CPUs, NEW v, NEW d \in Alloc!CPUs
    PROVE  Alloc!Here(Alloc!Put(e, c, v), d) = IF d = c THEN v ELSE Alloc!Here(e, d)
<1>1. DOMAIN Alloc!Put(e, c, v) = Alloc!CPUs /\ 0 \in Alloc!CPUs /\ DOMAIN <<>> = 1..0
    BY CpuTypes DEF Alloc!Put
<1>2. Alloc!Put(e, c, v) # <<>>
    BY <1>1
<1>3. Alloc!Put(e, c, v)[d] = IF d = c THEN v ELSE Alloc!Here(e, d)
    BY DEF Alloc!Put
<1>4. QED
    BY <1>2, <1>3 DEF Alloc!Here

LEMMA HereNone == ASSUME NEW c PROVE Alloc!Here(<<>>, c) = 0
BY DEF Alloc!Here
-----------------------------------------------------------------------------
(* A step of one CPU leaves another one as it was, or takes from it the      *)
(* place reached and with it all that it has written.                        *)

LEMMA OtherCpu ==
    ASSUME Alloc!AllocAssumption, NEW d \in Alloc!CPUs,
           alloc_at'[d] = alloc_at[d], start'[d] = start[d], end'[d] = end[d],
               alloc_prog'[d] = alloc_prog[d],
           Alloc!Here(alloc_end', d) = Alloc!Here(alloc_end, d),
           \/ Alloc!Here(alloc_start', d) = Alloc!Here(alloc_start, d) /\ blocks'[d] = blocks[d]
           \/ Alloc!Here(alloc_start', d) = 0 /\ blocks'[d] = {}
    PROVE  /\ ProgramOK(d) => ProgramOK(d)'
           /\ EndKnown(d) => EndKnown(d)'
           /\ PartOK(d) => PartOK(d)'
<1>1. ProgramOK(d) => ProgramOK(d)'
    BY DEF ProgramOK
<1>2. EndKnown(d) => EndKnown(d)'
    BY DEF EndKnown
<1>3. PartOK(d) => PartOK(d)'
    BY DEF PartOK, Behind
<1>4. QED
    BY <1>1, <1>2, <1>3

(* What a CPU leaves alone it keeps safe.                                    *)
LEMMA SafeKept ==
    ASSUME NEW d \in Alloc!CPUs, NEW lo, NEW hi, Safe(d, lo, hi),
           alloc_at'[d] = alloc_at[d], start'[d] = start[d],
           alloc_at[d] = "update" \/ Alloc!Here(alloc_start', d) = Alloc!Here(alloc_start, d)
    PROVE  Safe(d, lo, hi)'
BY DEF Safe

(* Neither the slice nor memory changes, the programs keep what they hold,   *)
(* and what was safe stays so.                                               *)
LEMMA ArraysKept ==
    ASSUME UNCHANGED <<memory, slice, appended>>, AllocTypes,
           \A d \in Alloc!CPUs : alloc_prog'[d].why = "append" =>
                /\ alloc_prog[d].why = "append" /\ alloc_prog'[d].buffer = alloc_prog[d].buffer
                /\ alloc_prog'[d].block = alloc_prog[d].block
                /\ alloc_at'[d] \in Before => alloc_at[d] \in Before
                /\ alloc_at'[d] \in {"update", "done"} => alloc_at[d] \in {"update", "done"},
           \A d \in Alloc!CPUs : \A lo, hi \in Int : Safe(d, lo, hi) => Safe(d, lo, hi)',
           \A d \in Alloc!CPUs : ProgramOK(d),
           ArraySafe, \A d \in Alloc!CPUs : AppendSafe(d)
    PROVE  ArraySafe' /\ \A d \in Alloc!CPUs : AppendSafe(d)'
<1>1. slice.array \in Int /\ slice.array + slice.len - 1 \in Int /\ slice.len \in Nat
    BY DEF AllocTypes, Slices
<1>2. ArraySafe'
    <2>1. slice.array # Alloc!GoHeap =>
            \E d \in Alloc!CPUs : Safe(d, slice.array, slice.array + slice.len - 1)'
        BY <1>1 DEF ArraySafe
    <2>2. QED
        BY <2>1 DEF ArraySafe
<1>3. ASSUME NEW d \in Alloc!CPUs, alloc_prog'[d].why = "append" PROVE AppendSafe(d)'
    <2>1. alloc_prog[d].why = "append" /\ AppendSafe(d)
        BY <1>3
    <2>2. alloc_at'[d] \in Before =>
            \A i \in 1..slice.len : appended[i] \in {0, alloc_prog'[d].buffer[i]}
        BY <1>3, <2>1 DEF AppendSafe
    <2>3. CASE alloc_at'[d] \in {"update", "done"}
        <3>1. alloc_at[d] \in {"update", "done"} /\ alloc_prog'[d].block = alloc_prog[d].block
            BY <1>3, <2>3
        <3>2. PICK n \in Nat : n = alloc_prog[d].block[1]
            BY <3>1 DEF ProgramOK, AllocTypes, Programs
        <3>3. PICK l \in Nat : l = slice.len
            BY <1>1
        <3>4. Safe(d, n, n + l)
            BY <2>1, <3>1, <3>2, <3>3 DEF AppendSafe
        <3>5. Safe(d, n, n + l)'
            BY <3>4
        <3>6. n = alloc_prog'[d].block[1] /\ l = slice'.len
            BY <3>1, <3>2, <3>3
        <3>7. QED
            BY <2>1, <2>2, <3>1, <3>2, <3>3, <3>5, <3>6 DEF AppendSafe
    <2>4. QED
        BY <2>2, <2>3 DEF AppendSafe
<1>4. QED
    BY <1>2, <1>3 DEF AppendSafe
-----------------------------------------------------------------------------
(* The steps of a program, one lemma for each.                               *)

(* (alloc.h:18, before any program ran)                                      *)
LEMMA AllocInit == ASSUME Alloc!AllocAssumption, Alloc!Init PROVE AllocInv
<1>1. AllocTypes
    <2>1. Alloc!NoProgram \in Programs
        BY DEF Alloc!NoProgram, Programs
    <2>2. slice \in Slices
        BY DEF Alloc!Init, Slices, Alloc!GoHeap
    <2>3. alloc_prog \in [Alloc!CPUs -> Programs] /\ alloc_at \in [Alloc!CPUs -> Alloc!Steps]
        BY <2>1 DEF Alloc!Init, Alloc!Steps
    <2>4. memory \in [Alloc!Locations -> Nat] /\ blocks \in [Alloc!CPUs -> SUBSET Blocks]
        BY DEF Alloc!Init
    <2>5. start \in [Alloc!CPUs -> Nat] /\ end \in [Alloc!CPUs -> Nat] /\ appended \in Seq(Nat)
        BY DEF Alloc!Init
    <2>6. QED
        BY <2>2, <2>3, <2>4, <2>5 DEF Alloc!Init, AllocTypes
<1>2. ASSUME NEW c \in Alloc!CPUs PROVE ProgramOK(c) /\ EndKnown(c) /\ AppendOK(c)
    BY DEF Alloc!Init, ProgramOK, EndKnown, AppendOK, Alloc!NoProgram, Before, Alloc!Here
<1>3. ASSUME NEW c \in Alloc!CPUs PROVE PartOK(c)
    BY DEF Alloc!Init, PartOK, Alloc!Here
<1>4. SliceOK
    <2>1. Alloc!GoHeap + 0 \in Alloc!Locations
        BY DEF Alloc!AllocAssumption, Alloc!Locations, Alloc!GoHeap, Alloc!partition_size,
                   Alloc!PartEnd, Alloc!PartStart
    <2>2. QED
        BY <2>1 DEF Alloc!Init, SliceOK, Alloc!NoProgram
<1>5. ArraySafe /\ \A c \in Alloc!CPUs : AppendSafe(c)
    BY DEF Alloc!Init, ArraySafe, AppendSafe, Alloc!NoProgram
<1>6. QED
    BY <1>1, <1>2, <1>3, <1>4, <1>5 DEF AllocInv

(* The fields of a new program.                                              *)
LEMMA NewProgram ==
    ASSUME NEW w, NEW s, NEW b
    PROVE  /\ [Alloc!NoProgram EXCEPT !.why = w, !.sizes = s]
              = [why |-> w, sizes |-> s, buffer |-> <<>>, block |-> <<>>]
           /\ [Alloc!NoProgram EXCEPT !.why = w, !.sizes = s, !.buffer = b]
              = [why |-> w, sizes |-> s, buffer |-> b, block |-> <<>>]
<1> DEFINE one == [Alloc!NoProgram EXCEPT !.why = w]
           two == [one EXCEPT !.sizes = s]
           three == [two EXCEPT !.buffer = b]
<1>1. one = [why |-> w, sizes |-> <<>>, buffer |-> <<>>, block |-> <<>>]
    BY DEF Alloc!NoProgram
<1> HIDE DEF one
<1>2. two = [why |-> w, sizes |-> s, buffer |-> <<>>, block |-> <<>>]
    BY <1>1
<1> HIDE DEF two
<1>3. three = [why |-> w, sizes |-> s, buffer |-> b, block |-> <<>>]
    BY <1>2
<1>4. QED
    BY <1>2, <1>3 DEF one, two, three

(* A program that begins: with a string, or with a slice without room.       *)
LEMMA Begins ==
    ASSUME Alloc!AllocAssumption, AllocInv, NEW c \in Alloc!CPUs,
           Alloc!WriteUserGoString(c) \/ Alloc!AppendGrows(c)
    PROVE  AllocInv'
<1>1. /\ alloc_at[c] = "idle" /\ alloc_at' = [alloc_at EXCEPT ![c] = "start"]
             /\ alloc_prog[c].why = "none"
      /\ UNCHANGED <<alloc_start, alloc_end, start, end, memory, writes, blocks,
                     emptied, slice, appended, recycled>>
    BY DEF Alloc!WriteUserGoString, Alloc!AppendGrows, AllocInv, ProgramOK
<1> DEFINE Begun(why, sizes, buffer) ==
        /\ alloc_prog' = [alloc_prog EXCEPT ![c] =
                [why |-> why, sizes |-> sizes, buffer |-> buffer, block |-> <<>>]]
        /\ Len(sizes) > 0
        /\ why = "string" => buffer = <<>>
        /\ why = "append" =>
            /\ sizes = <<slice.len + 1>> /\ Len(buffer) = slice.len
            /\ slice.len + 1 <= MaxBufferSize /\ slice.len = slice.cap
            /\ \A d \in Alloc!CPUs : alloc_prog[d].why # "append"
            /\ \A i \in 1..slice.len : buffer[i] = memory[slice.array + i - 1]
<1>2. PICK why \in {"string", "append"}, sizes \in Seq(Nat), buffer \in Seq(Nat) :
        Begun(why, sizes, buffer)
    <2>1. CASE Alloc!WriteUserGoString(c)
        <3>1. PICK len \in StringLengths :
                  alloc_prog' = [alloc_prog EXCEPT ![c] = [Alloc!NoProgram EXCEPT
                !.why = "string", !.sizes = <<len, StringSize>>]]
            BY <2>1 DEF Alloc!WriteUserGoString
        <3>2. <<len, StringSize>> \in Seq(Nat) /\ Len(<<len, StringSize>>) = 2
            BY DEF Alloc!AllocAssumption
        <3>3. [Alloc!NoProgram EXCEPT !.why = "string", !.sizes = <<len, StringSize>>]
              = [why |-> "string", sizes |-> <<len, StringSize>>, buffer |-> <<>>,
                 block |-> <<>>]
            BY NewProgram
        <3>4. Begun("string", <<len, StringSize>>, <<>>)
            <4>1. alloc_prog' = [alloc_prog EXCEPT ![c] = [why |-> "string",
                    sizes |-> <<len, StringSize>>, buffer |-> <<>>, block |-> <<>>]]
                BY <3>1, <3>3
            <4>2. Len(<<len, StringSize>>) > 0 /\ "string" # "append"
                BY <3>2
            <4>3. QED
                BY <4>1, <4>2
        <3>5. <<>> \in Seq(Nat)
            OBVIOUS
        <3>6. QED
            BY <3>2, <3>4, <3>5
    <2>2. CASE Alloc!AppendGrows(c)
        <3>1. slice.array \in Nat /\ slice.len \in Nat /\ slice.cap \in Nat
              /\ memory \in [Alloc!Locations -> Nat]
            BY DEF AllocInv, AllocTypes, Slices
        <3>2. ~Alloc!HasRoom /\ slice.len <= slice.cap
                  /\ slice.array + slice.len \in Alloc!Locations
            BY <2>2 DEF Alloc!AppendGrows, AllocInv, SliceOK
        <3>3. slice.len = slice.cap
            BY <3>1, <3>2 DEF Alloc!HasRoom
        <3>4. Alloc!OldItems \in Seq(Nat) /\ Len(Alloc!OldItems) = slice.len
            <4>1. ASSUME NEW i \in 1..slice.len PROVE memory[slice.array + i - 1] \in Nat
                <5>1. end_addr \in Nat /\ PageSize \in Nat
                    BY DEF Alloc!AllocAssumption
                <5>2. slice.array + i - 1 \in Alloc!Locations
                    BY <3>1, <3>2, <5>1 DEF Alloc!Locations
                <5>3. QED
                    BY <3>1, <5>2
            <4>2. QED
                BY <3>1, <4>1 DEF Alloc!OldItems
        <3>5. <<Alloc!Item * slice.len + Alloc!Item>> = <<slice.len + 1>>
            BY <3>1 DEF Alloc!Item
        <3>6. alloc_prog' = [alloc_prog EXCEPT ![c] = [why |-> "append",
                  sizes |-> <<slice.len + 1>>,
                                          buffer |-> Alloc!OldItems, block |-> <<>>]]
            <4>1. alloc_prog' = [alloc_prog EXCEPT ![c] = [Alloc!NoProgram EXCEPT !.why
                      = "append",
                    !.sizes = <<Alloc!Item * slice.len + Alloc!Item>>, !.buffer = Alloc!OldItems]]
                BY <2>2 DEF Alloc!AppendGrows
            <4>2. [Alloc!NoProgram EXCEPT !.why = "append", !.sizes = <<slice.len + 1>>,
                                    !.buffer = Alloc!OldItems]
                  = [why |-> "append", sizes |-> <<slice.len + 1>>, buffer |-> Alloc!OldItems,
                     block |-> <<>>]
                BY NewProgram
            <4>3. QED
                BY <3>5, <4>1, <4>2
        <3>7. slice.len + 1 <= MaxBufferSize /\ \A d \in Alloc!CPUs : alloc_prog[d].why # "append"
            BY <2>2, <3>1, <3>5 DEF Alloc!AppendGrows, Alloc!Item
        <3>8. <<slice.len + 1>> \in Seq(Nat) /\ Len(<<slice.len + 1>>) = 1
            BY <3>1
        <3>9. \A i \in 1..slice.len : Alloc!OldItems[i] = memory[slice.array + i - 1]
            BY DEF Alloc!OldItems
        <3>10. Begun("append", <<slice.len + 1>>, Alloc!OldItems)
            BY <3>3, <3>4, <3>6, <3>7, <3>8, <3>9
        <3>11. QED
            BY <3>4, <3>8, <3>10
    <2>3. QED
        BY <2>1, <2>2
<1> DEFINE p == [why |-> why, sizes |-> sizes, buffer |-> buffer, block |-> <<>>]
<1>3. p \in Programs /\ alloc_prog \in [Alloc!CPUs -> Programs]
          /\ alloc_at \in [Alloc!CPUs -> Alloc!Steps]
    BY DEF Programs, AllocInv, AllocTypes
<1>4. alloc_prog'[c] = p /\ alloc_at'[c] = "start"
    BY <1>1, <1>2, <1>3
<1>5. \A d \in Alloc!CPUs \ {c} : alloc_prog'[d] = alloc_prog[d] /\ alloc_at'[d] = alloc_at[d]
    BY <1>1, <1>2, <1>3
<1>6. AllocTypes'
    <2>1. alloc_prog' \in [Alloc!CPUs -> Programs] /\ alloc_at' \in [Alloc!CPUs -> Alloc!Steps]
        BY <1>1, <1>2, <1>3 DEF Alloc!Steps
    <2>2. QED
        BY <1>1, <2>1 DEF AllocInv, AllocTypes
<1>7. ASSUME NEW d \in Alloc!CPUs PROVE ProgramOK(d)' /\ EndKnown(d)' /\ AppendOK(d)'
    <2>1. ProgramOK(d) /\ EndKnown(d) /\ AppendOK(d)
        BY DEF AllocInv
    <2>2. CASE d # c
        <3>1. ProgramOK(d)' /\ EndKnown(d)'
            BY <1>1, <1>5, <2>1, <2>2, OtherCpu
        <3>2. AppendOK(d)'
            BY <1>1, <1>5, <2>1, <2>2 DEF AppendOK
        <3>3. QED
            BY <3>1, <3>2
    <2>3. CASE d = c
        <3>1. ProgramOK(c)'
            BY <1>2, <1>4 DEF ProgramOK
        <3>2. EndKnown(c)'
            BY <1>1, <1>4, <2>1, <2>3 DEF EndKnown
        <3>3. AppendOK(c)'
            BY <1>1, <1>2, <1>4 DEF AppendOK
        <3>4. QED
            BY <2>3, <3>1, <3>2, <3>3
    <2>4. QED
        BY <2>2, <2>3
<1>8. ASSUME NEW d \in Alloc!CPUs \ emptied PROVE PartOK(d)'
    <2>1. PartOK(d)
        BY DEF AllocInv
    <2>2. CASE d # c
        BY <1>1, <1>5, <2>1, <2>2, OtherCpu
    <2>3. CASE d = c
        BY <1>1, <1>4, <2>1, <2>3 DEF PartOK, Behind
    <2>4. QED
        BY <2>2, <2>3
<1>9. SliceOK'
    <2>1. ASSUME NEW d \in Alloc!CPUs, NEW e \in Alloc!CPUs, alloc_prog'[d].why = "append",
                 alloc_prog'[e].why = "append"
          PROVE  d = e
        BY <1>2, <1>4, <1>5, <2>1 DEF AllocInv, SliceOK
    <2>2. QED
        BY <1>1, <2>1 DEF AllocInv, SliceOK
<1>10. ASSUME emptied = {}, ~recycled PROVE ArraySafe' /\ \A d \in Alloc!CPUs : AppendSafe(d)'
    <2>1. ArraySafe /\ \A d \in Alloc!CPUs : AppendSafe(d)
        BY <1>10 DEF AllocInv
    <2>2. \A d \in Alloc!CPUs : \A lo, hi \in Int : Safe(d, lo, hi) => Safe(d, lo, hi)'
        BY <1>1, <1>4, <1>5, SafeKept DEF Safe
    <2>3. ArraySafe'
        <3>1. slice.array \in Int /\ slice.array + slice.len - 1 \in Int
            BY DEF AllocInv, AllocTypes, Slices
        <3>2. ASSUME slice.array # Alloc!GoHeap
              PROVE  \E d \in Alloc!CPUs : Safe(d, slice.array, slice.array + slice.len - 1)'
            <4>1. PICK d \in Alloc!CPUs : Safe(d, slice.array, slice.array + slice.len - 1)
                BY <2>1, <3>2 DEF ArraySafe
            <4>2. PICK lo \in Int, hi \in Int :
                    lo = slice.array /\ hi = slice.array + slice.len - 1
                BY <3>1
            <4>3. Safe(d, lo, hi)'
                BY <2>2, <4>1, <4>2
            <4>4. lo = slice'.array /\ hi = slice'.array + slice'.len - 1
                BY <1>1, <4>2
            <4>5. QED
                BY <4>3, <4>4
        <3>3. QED
            BY <1>1, <2>1, <3>2 DEF ArraySafe
    <2>4. ASSUME NEW d \in Alloc!CPUs, alloc_prog'[d].why = "append" PROVE AppendSafe(d)'
        <3>1. CASE d = c
            <4>1. why = "append" /\ alloc_prog'[d].buffer = buffer
                BY <1>4, <2>4, <3>1
            <4>2. \A i \in 1..slice.len : appended[i] \in {0, buffer[i]}
                BY <1>2, <2>1, <4>1 DEF ArraySafe
            <4>3. QED
                BY <1>1, <1>4, <3>1, <4>1, <4>2 DEF AppendSafe
        <3>2. CASE d # c
            <4>1. alloc_prog'[d] = alloc_prog[d] /\ alloc_at'[d] = alloc_at[d] /\ AppendSafe(d)
                BY <1>5, <2>1, <3>2
            <4>2. ASSUME alloc_at[d] \in {"update", "done"}
                  PROVE  Safe(d, alloc_prog[d].block[1], alloc_prog[d].block[1] + slice.len)'
                <5>1. PICK n \in Nat : n = alloc_prog[d].block[1]
                    BY <4>2 DEF AllocInv, ProgramOK, AllocTypes, Programs
                <5>2. PICK l \in Nat : l = slice.len
                    BY DEF AllocInv, AllocTypes, Slices
                <5>3. Safe(d, n, n + l)
                    BY <2>4, <4>1, <4>2, <5>1, <5>2 DEF AppendSafe
                <5>4. Safe(d, n, n + l)'
                    BY <2>2, <5>3
                <5>5. n = alloc_prog'[d].block[1] /\ l = slice'.len
                    BY <1>1, <4>1, <5>1, <5>2
                <5>6. QED
                    BY <5>4, <5>5
            <4>3. QED
                BY <1>1, <2>4, <4>1, <4>2 DEF AppendSafe
        <3>3. QED
            BY <3>1, <3>2
    <2>5. QED
        BY <2>3, <2>4 DEF AppendSafe
<1>11. QED
    BY <1>1, <1>6, <1>7, <1>8, <1>9, <1>10 DEF AllocInv
(* (go_types.h:100, the array has room) Only the Go program's own array has. *)
LEMMA AppendsInPlace ==
    ASSUME Alloc!AllocAssumption, AllocInv, NEW c \in Alloc!CPUs, Alloc!AppendInPlace(c)
    PROVE  AllocInv'
<1>1. /\ memory \in [Alloc!Locations -> Nat] /\ slice \in Slices /\ appended \in Seq(Nat)
      /\ writes \in Nat
    BY DEF AllocInv, AllocTypes
<1>2. /\ slice.array \in Nat /\ slice.len \in Nat /\ slice.cap \in Nat
    BY <1>1 DEF Slices
<1>3. slice.array = Alloc!GoHeap /\ slice.len = 0 /\ slice.cap = 1 /\ Len(appended) = 0
    BY <1>2 DEF Alloc!AppendInPlace, Alloc!HasRoom, AllocInv, SliceOK
<1>4. \A d \in Alloc!CPUs : alloc_prog[d].why # "append"
    BY <1>3 DEF AllocInv, AppendOK
<1>5. PICK written \in BOOLEAN, described \in BOOLEAN :
        /\ memory' = IF written THEN [memory EXCEPT ![slice.array + slice.len] = writes']
                     ELSE memory
        /\ slice' = IF described THEN [slice EXCEPT !.len = @ + 1] ELSE slice
        /\ appended' = IF described THEN Append(appended, IF written THEN writes' ELSE 0)
                       ELSE appended
    BY DEF Alloc!AppendInPlace
<1>6. /\ writes' = writes + 1 /\ writes' \in Nat
      /\ UNCHANGED <<alloc_start, alloc_end, alloc_prog, alloc_at, start, end, blocks, emptied,
             recycled>>
    BY <1>1 DEF Alloc!AppendInPlace
<1>7. memory' \in [Alloc!Locations -> Nat] /\ slice' \in Slices /\ appended' \in Seq(Nat)
    <2>1. memory' \in [Alloc!Locations -> Nat]
        BY <1>1, <1>5, <1>6
    <2>2. slice' \in Slices
        <3>1. CASE described
            <4>1. slice' = [slice EXCEPT !.len = slice.len + 1]
                BY <1>5, <3>1
            <4>2. QED
                BY <1>1, <1>2, <4>1 DEF Slices
        <3>2. CASE ~described
            BY <1>1, <1>5, <3>2
        <3>3. QED
            BY <3>1, <3>2
    <2>3. (IF written THEN writes' ELSE 0) \in Nat
        BY <1>6
    <2>4. appended' \in Seq(Nat)
        BY <1>1, <1>5, <2>3
    <2>5. QED
        BY <2>1, <2>2, <2>4
<1>8. AllocTypes'
    BY <1>6, <1>7 DEF AllocInv, AllocTypes
<1>9. ASSUME NEW d \in Alloc!CPUs PROVE ProgramOK(d)' /\ EndKnown(d)' /\ AppendOK(d)'
    BY <1>4, <1>6, OtherCpu DEF AllocInv, AppendOK
<1>10. ASSUME NEW d \in Alloc!CPUs \ emptied PROVE PartOK(d)'
    BY <1>6, OtherCpu DEF AllocInv
<1>11. slice'.array = Alloc!GoHeap /\ slice'.cap = 1 /\ slice'.len = Len(appended')
       /\ slice'.len <= 1
    BY <1>1, <1>2, <1>3, <1>5, <1>6 DEF Slices
<1>12. SliceOK'
    <2>1. slice'.len \in Nat
        BY <1>7 DEF Slices
    <2>2. Alloc!GoHeap + slice'.len \in Alloc!Locations
        BY <1>11, <2>1 DEF Alloc!AllocAssumption, Alloc!Locations, Alloc!GoHeap,
                               Alloc!partition_size, Alloc!PartEnd, Alloc!PartStart
    <2>3. QED
        BY <1>4, <1>6, <1>11, <2>2 DEF SliceOK
<1>13. ArraySafe' /\ \A d \in Alloc!CPUs : AppendSafe(d)'
    <2>1. \A d \in Alloc!CPUs : AppendSafe(d)'
        BY <1>4, <1>6 DEF AppendSafe
    <2>2. ASSUME NEW i \in 1..slice'.len
          PROVE  appended'[i] \in {0, memory'[slice'.array + i - 1]}
        <3>1. i = 1 /\ described
            BY <1>2, <1>3, <1>5, <1>11, <2>2
        <3>2. appended'[1] = IF written THEN writes' ELSE 0
            BY <1>1, <1>3, <1>5, <1>6, <3>1
        <3>3. Alloc!GoHeap \in Alloc!Locations
            BY DEF Alloc!AllocAssumption, Alloc!Locations, Alloc!GoHeap, Alloc!partition_size,
                       Alloc!PartEnd, Alloc!PartStart
        <3>4. slice.array + slice.len = Alloc!GoHeap /\ slice'.array + i - 1 = Alloc!GoHeap
            BY <1>3, <1>11, <3>1 DEF Alloc!GoHeap
        <3>5. written => memory'[Alloc!GoHeap] = writes'
            BY <1>1, <1>5, <3>3, <3>4
        <3>6. QED
            BY <3>1, <3>2, <3>4, <3>5
    <2>3. QED
        BY <1>11, <2>1, <2>2 DEF ArraySafe
<1>14. QED
    BY <1>6, <1>8, <1>9, <1>10, <1>12, <1>13 DEF AllocInv

(* (alloc.h:27-43) The place reached, or the start of the part.              *)
LEMMA LooksUp ==
    ASSUME Alloc!AllocAssumption, AllocInv, NEW c \in Alloc!CPUs, Alloc!GetAreaStart(c)
    PROVE  AllocInv'
<1> DEFINE known == Alloc!Here(alloc_start, c)
           again == alloc_at[c] = "restart"
<1>1. /\ alloc_at[c] \in {"start", "restart"}
      /\ UNCHANGED <<alloc_start, alloc_end, alloc_prog, end, memory, writes, blocks,
                     emptied, slice, appended, recycled>>
    BY DEF Alloc!GetAreaStart
<1>2. /\ start \in [Alloc!CPUs -> Nat] /\ alloc_at \in [Alloc!CPUs -> Alloc!Steps]
      /\ alloc_start = <<>> \/ alloc_start \in [Alloc!CPUs -> Nat]
    BY DEF AllocInv, AllocTypes
<1>3. Alloc!PartStart(c) \in Nat /\ known \in Nat
    BY <1>2, Parts, HereType
<1>4. /\ start' = [start EXCEPT ![c] = IF known = 0 THEN Alloc!PartStart(c) ELSE known]
      /\ alloc_at' = [alloc_at EXCEPT ![c] = IF known = 0 THEN IF again THEN "restore"
             ELSE "store"
                                 ELSE IF again THEN "write" ELSE "end"]
    BY DEF Alloc!GetAreaStart
<1>5. /\ \A d \in Alloc!CPUs \ {c} : start'[d] = start[d] /\ alloc_at'[d] = alloc_at[d]
      /\ start'[c] = IF known = 0 THEN Alloc!PartStart(c) ELSE known
      /\ alloc_at'[c] = IF known = 0 THEN IF again THEN "restore" ELSE "store"
                  ELSE IF again THEN "write" ELSE "end"
    BY <1>2, <1>4
<1>6. AllocTypes'
    <2>1. start' \in [Alloc!CPUs -> Nat]
        BY <1>2, <1>3, <1>4
    <2>2. alloc_at' \in [Alloc!CPUs -> Alloc!Steps]
        BY <1>2, <1>4 DEF Alloc!Steps
    <2>3. QED
        BY <1>1, <2>1, <2>2 DEF AllocInv, AllocTypes
<1>7. again => known = 0
    BY DEF AllocInv, EndKnown
<1> HIDE DEF known, again
<1>8. ASSUME NEW d \in Alloc!CPUs PROVE ProgramOK(d)' /\ EndKnown(d)' /\ AppendOK(d)'
    <2>1. ProgramOK(d) /\ EndKnown(d) /\ AppendOK(d)
        BY DEF AllocInv
    <2>2. CASE d # c
        <3>1. ProgramOK(d)' /\ EndKnown(d)'
            BY <1>1, <1>5, <2>1, <2>2, OtherCpu
        <3>2. AppendOK(d)'
            BY <1>1, <1>5, <2>1, <2>2 DEF AppendOK
        <3>3. QED
            BY <3>1, <3>2
    <2>3. CASE d = c
        <3>1. ProgramOK(c)'
            BY <1>1, <1>5, <2>1, <2>3 DEF ProgramOK, Before
        <3>2. EndKnown(c)'
            BY <1>1, <1>5, <1>7, <2>1, <2>3 DEF EndKnown, known, again
        <3>3. AppendOK(c)'
            BY <1>1, <1>5, <2>1, <2>3 DEF AppendOK, Before
        <3>4. QED
            BY <2>3, <3>1, <3>2, <3>3
    <2>4. QED
        BY <2>2, <2>3
<1>9. ASSUME NEW d \in Alloc!CPUs \ emptied PROVE PartOK(d)'
    <2>1. PartOK(d)
        BY DEF AllocInv
    <2>2. CASE d # c
        BY <1>1, <1>5, <2>1, <2>2, OtherCpu
    <2>3. CASE d = c
        <3>1. known = 0 => blocks[c] = {}
            BY <1>1, <2>1, <2>3 DEF PartOK, known
        <3>2. Alloc!PartStart(c) <= Alloc!PartEnd(c)
            BY Parts
        <3>3. known # 0 => Behind(c, known)
            BY <1>1, <2>1, <2>3 DEF PartOK, known
        <3>4. start'[c] = known => (Behind(c, known) => Behind(c, start[c])')
            BY <1>1, <1>5 DEF Behind
        <3>5. alloc_at'[c] \in {"end", "write", "update"} => Behind(c, start[c])'
            BY <1>1, <1>5, <3>3, <3>4
        <3>6. IF known = 0 THEN blocks'[c] = {} ELSE Behind(c, Alloc!Here(alloc_start, c))'
            BY <1>1, <3>1, <3>3 DEF Behind, known
        <3>7. alloc_at'[c] # "write"
            BY <1>1, <1>5, <1>7
        <3>8. Alloc!Here(alloc_start, c)' = known
            BY <1>1 DEF known
        <3>9. alloc_at'[c] \in {"store", "restart", "restore"} => blocks'[c] = {}
            BY <1>1, <1>5, <3>1
        <3>10. QED
            BY <1>1, <2>1, <2>3, <3>5, <3>6, <3>7, <3>8, <3>9 DEF PartOK
    <2>4. QED
        BY <2>2, <2>3
<1>10. SliceOK'
    BY <1>1 DEF AllocInv, SliceOK
<1>11. ASSUME emptied = {}, ~recycled PROVE ArraySafe' /\ \A d \in Alloc!CPUs : AppendSafe(d)'
    <2>1. ArraySafe /\ \A d \in Alloc!CPUs : AppendSafe(d) /\ ProgramOK(d)
        BY <1>11 DEF AllocInv
    <2>2. ASSUME NEW d \in Alloc!CPUs, NEW lo \in Int, NEW hi \in Int, Safe(d, lo, hi)
          PROVE  Safe(d, lo, hi)'
        <3>1. CASE d # c
            BY <1>1, <1>5, <2>2, <3>1, SafeKept
        <3>2. CASE d = c
            BY <1>1, <1>5, <2>2, <3>2 DEF Safe, known
        <3>3. QED
            BY <3>1, <3>2
    <2>3. \A d \in Alloc!CPUs : alloc_prog'[d].why = "append" =>
            /\ alloc_prog[d].why = "append" /\ alloc_prog'[d].buffer = alloc_prog[d].buffer
            /\ alloc_prog'[d].block = alloc_prog[d].block
            /\ alloc_at'[d] \in Before => alloc_at[d] \in Before
            /\ alloc_at'[d] \in {"update", "done"} => alloc_at[d] \in {"update", "done"}
        BY <1>1, <1>5 DEF Before
    <2>4. QED
        BY <1>1, <2>1, <2>2, <2>3, ArraysKept DEF AllocInv
<1>12. QED
    BY <1>1, <1>6, <1>8, <1>9, <1>10, <1>11 DEF AllocInv
(* (alloc.h:36) The start of the part is stored.                             *)
LEMMA Stores ==
    ASSUME Alloc!AllocAssumption, AllocInv, NEW c \in Alloc!CPUs, Alloc!StoreAreaStart(c)
    PROVE  AllocInv'
<1>1. /\ alloc_at[c] \in {"store", "restore"}
      /\ alloc_start' = Alloc!Put(alloc_start, c, start[c])
      /\ UNCHANGED <<alloc_end, alloc_prog, start, end, memory, writes, blocks, emptied,
                     slice, appended, recycled>>
    BY DEF Alloc!StoreAreaStart
<1>2. /\ start \in [Alloc!CPUs -> Nat] /\ alloc_at \in [Alloc!CPUs -> Alloc!Steps]
      /\ alloc_start = <<>> \/ alloc_start \in [Alloc!CPUs -> Nat]
    BY DEF AllocInv, AllocTypes
<1>3. start[c] = Alloc!PartStart(c) /\ Alloc!PartStart(c) \in Nat \ {0}
          /\ Alloc!PartStart(c) <= Alloc!PartEnd(c)
    <2>1. start[c] = Alloc!PartStart(c)
        BY <1>1 DEF AllocInv, EndKnown
    <2>2. QED
        BY <2>1, Parts DEF Alloc!GoHeap
<1>4. alloc_at' = [alloc_at EXCEPT ![c] = IF alloc_at[c] = "restore" THEN "write" ELSE "end"]
    BY DEF Alloc!StoreAreaStart
<1>5. /\ \A d \in Alloc!CPUs \ {c} : alloc_at'[d] = alloc_at[d]
      /\ alloc_at'[c] = IF alloc_at[c] = "restore" THEN "write" ELSE "end"
    BY <1>2, <1>4
<1>6. \A d \in Alloc!CPUs :
          Alloc!Here(alloc_start', d) = IF d = c THEN start[c] ELSE Alloc!Here(alloc_start, d)
    BY <1>1, HerePut
<1>7. AllocTypes'
    <2>1. alloc_at' \in [Alloc!CPUs -> Alloc!Steps]
        BY <1>2, <1>4 DEF Alloc!Steps
    <2>2. alloc_start' \in [Alloc!CPUs -> Nat]
        BY <1>1, <1>2, PutType
    <2>3. QED
        BY <1>1, <2>1, <2>2 DEF AllocInv, AllocTypes
<1>8. ASSUME NEW d \in Alloc!CPUs PROVE ProgramOK(d)' /\ EndKnown(d)' /\ AppendOK(d)'
    <2>1. ProgramOK(d) /\ EndKnown(d) /\ AppendOK(d)
        BY DEF AllocInv
    <2>2. CASE d # c
        <3>1. ProgramOK(d)' /\ EndKnown(d)'
            BY <1>1, <1>5, <1>6, <2>1, <2>2, OtherCpu
        <3>2. AppendOK(d)'
            BY <1>1, <1>5, <2>1, <2>2 DEF AppendOK
        <3>3. QED
            BY <3>1, <3>2
    <2>3. CASE d = c
        <3>1. ProgramOK(c)'
            BY <1>1, <1>5, <2>1, <2>3 DEF ProgramOK, Before
        <3>2. Alloc!Here(alloc_start, c)' = start[c]
                  /\ Alloc!Here(alloc_end, c)' = Alloc!Here(alloc_end, c)
            BY <1>1, <1>6
        <3>3. EndKnown(c)'
            BY <1>1, <1>3, <1>5, <2>1, <2>3, <3>2 DEF EndKnown
        <3>4. AppendOK(c)'
            BY <1>1, <1>5, <2>1, <2>3 DEF AppendOK, Before
        <3>5. QED
            BY <2>3, <3>1, <3>3, <3>4
    <2>4. QED
        BY <2>2, <2>3
<1>9. ASSUME NEW d \in Alloc!CPUs \ emptied PROVE PartOK(d)'
    <2>1. PartOK(d)
        BY DEF AllocInv
    <2>2. CASE d # c
        BY <1>1, <1>5, <1>6, <2>1, <2>2, OtherCpu
    <2>3. CASE d = c
        <3>1. blocks'[c] = {}
            BY <1>1, <2>1, <2>3 DEF PartOK
        <3>2. Alloc!Here(alloc_start, c)' = start[c] /\ start'[c] = Alloc!PartStart(c)
            BY <1>1, <1>3, <1>6
        <3>3. Behind(c, start[c])' /\ Behind(c, Alloc!Here(alloc_start, c))'
            BY <1>1, <1>3, <3>1, <3>2 DEF Behind
        <3>4. QED
            BY <1>1, <1>5, <2>3, <3>1, <3>2, <3>3 DEF PartOK
    <2>4. QED
        BY <2>2, <2>3
<1>10. SliceOK'
    BY <1>1 DEF AllocInv, SliceOK
<1>11. ASSUME emptied = {}, ~recycled PROVE ArraySafe' /\ \A d \in Alloc!CPUs : AppendSafe(d)'
    <2>1. ArraySafe /\ \A d \in Alloc!CPUs : AppendSafe(d) /\ ProgramOK(d)
        BY <1>11 DEF AllocInv
    <2>2. ASSUME NEW d \in Alloc!CPUs, NEW lo \in Int, NEW hi \in Int, Safe(d, lo, hi)
          PROVE  Safe(d, lo, hi)'
        <3>1. CASE d # c
            BY <1>1, <1>5, <1>6, <2>2, <3>1, SafeKept
        <3>2. CASE d = c
            BY <1>1, <2>2, <3>2 DEF Safe
        <3>3. QED
            BY <3>1, <3>2
    <2>3. \A d \in Alloc!CPUs : alloc_prog'[d].why = "append" =>
            /\ alloc_prog[d].why = "append" /\ alloc_prog'[d].buffer = alloc_prog[d].buffer
            /\ alloc_prog'[d].block = alloc_prog[d].block
            /\ alloc_at'[d] \in Before => alloc_at[d] \in Before
            /\ alloc_at'[d] \in {"update", "done"} => alloc_at[d] \in {"update", "done"}
        BY <1>1, <1>5 DEF Before
    <2>4. QED
        BY <1>1, <2>1, <2>2, <2>3, ArraysKept DEF AllocInv
<1>12. QED
    BY <1>1, <1>7, <1>8, <1>9, <1>10, <1>11 DEF AllocInv

(* The room left is that between the place reached and the end of the part.  *)
LEMMA RoomLeft ==
    ASSUME Alloc!AllocAssumption, AllocInv, NEW c \in Alloc!CPUs, alloc_at[c] = "end"
    PROVE  /\ Alloc!AreaEnd(c) = Alloc!PartEnd(c)
           /\ c \notin emptied /\ ~Alloc!TooFull(c, Head(alloc_prog[c].sizes)) =>
                Head(alloc_prog[c].sizes) <= Alloc!PartEnd(c) - start[c]
<1>1. Alloc!Here(alloc_end, c) \in {0, Alloc!PartEnd(c)}
      /\ (Alloc!Here(alloc_end, c) = 0 => start[c] = Alloc!PartStart(c))
    BY DEF AllocInv, EndKnown
<1>2. Alloc!AreaEnd(c) = Alloc!PartEnd(c)
    BY <1>1, Parts DEF Alloc!AreaEnd, Alloc!PartEnd
<1>3. ASSUME c \notin emptied, ~Alloc!TooFull(c, Head(alloc_prog[c].sizes))
      PROVE  Head(alloc_prog[c].sizes) <= Alloc!PartEnd(c) - start[c]
    <2>1. Alloc!PartStart(c) <= start[c] /\ start[c] <= Alloc!PartEnd(c) /\ start[c] \in Nat
        BY <1>3 DEF AllocInv, PartOK, Behind, AllocTypes
    <2>2. /\ Alloc!partition_size \in Nat /\ AllocWidth \in Nat
                 /\ Alloc!partition_size < AllocWidth
          /\ Alloc!PartEnd(c) - Alloc!PartStart(c) = Alloc!partition_size
          /\ Alloc!PartStart(c) \in Nat /\ Alloc!PartEnd(c) \in Nat
        BY Parts, CpuTypes DEF Alloc!AllocAssumption
    <2> DEFINE room == Alloc!PartEnd(c) - start[c]
    <2>3. room \in 0..(AllocWidth - 1)
        BY <2>1, <2>2
    <2>4. Head(alloc_prog[c].sizes) \in Nat
        BY DEF AllocInv, ProgramOK, Before, AllocTypes, Programs
    <2>5. ~(room % AllocWidth < Head(alloc_prog[c].sizes))
        BY <1>2, <1>3 DEF Alloc!TooFull
    <2> HIDE DEF room
    <2>6. room % AllocWidth = room
        BY <2>2, <2>3
    <2>7. QED
        BY <2>3, <2>4, <2>5, <2>6 DEF room
<1>4. QED
    BY <1>2, <1>3

(* (alloc.h:84-90) The test for room, which may give the parts of all away.  *)
LEMMA Checks ==
    ASSUME Alloc!AllocAssumption, AllocInv, NEW c \in Alloc!CPUs, Alloc!Check(c)
    PROVE  AllocInv'
<1> DEFINE full == Alloc!TooFull(c, Head(alloc_prog[c].sizes))
<1>1. /\ alloc_at[c] = "end" /\ end' = [end EXCEPT ![c] = Alloc!PartEnd(c)]
      /\ alloc_end' = Alloc!Put(alloc_end, c, Alloc!PartEnd(c))
      /\ UNCHANGED <<alloc_prog, start, memory, writes, emptied, slice, appended>>
    BY RoomLeft DEF Alloc!Check
<1>2. IF full THEN /\ alloc_start' = <<>> /\ blocks' = [d \in Alloc!CPUs |-> {}]
                   /\ recycled' = (recycled \/ Alloc!GivesArrayAway)
                   /\ alloc_at' = [alloc_at EXCEPT ![c] = "restart"]
              ELSE /\ alloc_at' = [alloc_at EXCEPT ![c] = "write"]
                   /\ UNCHANGED <<alloc_start, blocks, recycled>>
    BY DEF Alloc!Check
<1>3. /\ start \in [Alloc!CPUs -> Nat] /\ end \in [Alloc!CPUs -> Nat]
             /\ alloc_at \in [Alloc!CPUs -> Alloc!Steps]
      /\ alloc_end = <<>> \/ alloc_end \in [Alloc!CPUs -> Nat]
      /\ alloc_start = <<>> \/ alloc_start \in [Alloc!CPUs -> Nat]
      /\ blocks \in [Alloc!CPUs -> SUBSET Blocks] /\ recycled \in BOOLEAN
    BY DEF AllocInv, AllocTypes
<1>4. Alloc!PartEnd(c) \in Nat /\ Alloc!PartEnd(c) # 0 /\ Alloc!PartStart(c) <= Alloc!PartEnd(c)
    BY Parts
<1> HIDE DEF full
<1>5. /\ \A d \in Alloc!CPUs \ {c} : alloc_at'[d] = alloc_at[d] /\ end'[d] = end[d]
      /\ alloc_at'[c] = (IF full THEN "restart" ELSE "write") /\ end'[c] = Alloc!PartEnd(c)
    BY <1>1, <1>2, <1>3
<1>6. \A d \in Alloc!CPUs :
          Alloc!Here(alloc_end', d) = IF d = c THEN Alloc!PartEnd(c) ELSE Alloc!Here(alloc_end, d)
    BY <1>1, HerePut
<1>7. IF full THEN \A d \in Alloc!CPUs : Alloc!Here(alloc_start', d) = 0 /\ blocks'[d] = {}
              ELSE UNCHANGED <<alloc_start, blocks>>
    BY <1>2, HereNone
<1>8. AllocTypes'
    <2>1. alloc_at' \in [Alloc!CPUs -> Alloc!Steps] /\ end' \in [Alloc!CPUs -> Nat]
        BY <1>1, <1>2, <1>3, <1>4 DEF Alloc!Steps
    <2>2. alloc_end' \in [Alloc!CPUs -> Nat]
        BY <1>1, <1>3, <1>4, PutType
    <2>3. blocks' \in [Alloc!CPUs -> SUBSET Blocks] /\ recycled' \in BOOLEAN
          /\ (alloc_start' = <<>> \/ alloc_start' \in [Alloc!CPUs -> Nat])
        BY <1>2, <1>3 DEF Alloc!GivesArrayAway
    <2>4. QED
        BY <1>1, <2>1, <2>2, <2>3 DEF AllocInv, AllocTypes
<1>9. \A d \in Alloc!CPUs \ {c} :
        \/ Alloc!Here(alloc_start', d) = Alloc!Here(alloc_start, d) /\ blocks'[d] = blocks[d]
        \/ Alloc!Here(alloc_start', d) = 0 /\ blocks'[d] = {}
    BY <1>7
<1>10. ASSUME NEW d \in Alloc!CPUs PROVE ProgramOK(d)' /\ EndKnown(d)' /\ AppendOK(d)'
    <2>1. ProgramOK(d) /\ EndKnown(d) /\ AppendOK(d)
        BY DEF AllocInv
    <2>2. CASE d # c
        <3>1. ProgramOK(d)' /\ EndKnown(d)'
            BY <1>1, <1>5, <1>6, <1>9, <2>1, <2>2, OtherCpu
        <3>2. AppendOK(d)'
            BY <1>1, <1>5, <2>1, <2>2 DEF AppendOK
        <3>3. QED
            BY <3>1, <3>2
    <2>3. CASE d = c
        <3>1. ProgramOK(c)'
            BY <1>1, <1>5, <2>1, <2>3 DEF ProgramOK, Before
        <3>2. Alloc!Here(alloc_end, c)' = Alloc!PartEnd(c)
            BY <1>6
        <3>3. full => Alloc!Here(alloc_start, c)' = 0
            BY <1>7
        <3>4. EndKnown(c)'
            BY <1>4, <1>5, <2>3, <3>2, <3>3 DEF EndKnown
        <3>5. AppendOK(c)'
            BY <1>1, <1>5, <2>1, <2>3 DEF AppendOK, Before
        <3>6. QED
            BY <2>3, <3>1, <3>4, <3>5
    <2>4. QED
        BY <2>2, <2>3
<1>11. ASSUME NEW d \in Alloc!CPUs \ emptied PROVE PartOK(d)'
    <2>1. PartOK(d)
        BY DEF AllocInv
    <2>2. CASE d # c
        BY <1>1, <1>5, <1>6, <1>9, <2>1, <2>2, OtherCpu
    <2>3. CASE d = c /\ full
        <3>1. blocks'[c] = {} /\ Alloc!Here(alloc_start, c)' = 0
            BY <1>7, <2>3
        <3>2. QED
            BY <1>5, <2>3, <3>1 DEF PartOK
    <2>4. CASE d = c /\ ~full
        <3>1. Alloc!Here(alloc_start, c)' = Alloc!Here(alloc_start, c) /\ blocks'[c] = blocks[c]
            BY <1>7, <2>4
        <3>2. Head(alloc_prog[c].sizes) <= Alloc!PartEnd(c) - start[c]
            BY <1>1, <2>4, RoomLeft DEF full
        <3>3. Behind(c, start[c])' /\ (Behind(c, Alloc!Here(alloc_start, c))
                => Behind(c, Alloc!Here(alloc_start, c))')
            BY <1>1, <2>1, <2>4, <3>1 DEF PartOK, Behind
        <3>4. QED
            BY <1>1, <1>5, <2>1, <2>4, <3>1, <3>2, <3>3 DEF PartOK
    <2>5. QED
        BY <2>2, <2>3, <2>4
<1>12. SliceOK'
    BY <1>1 DEF AllocInv, SliceOK
<1>13. ASSUME emptied = {}, ~recycled' PROVE ArraySafe' /\ \A d \in Alloc!CPUs : AppendSafe(d)'
    <2>1. ~recycled
        BY <1>2, <1>13
    <2>2. ArraySafe /\ \A d \in Alloc!CPUs : AppendSafe(d) /\ ProgramOK(d)
        BY <1>13, <2>1 DEF AllocInv
    <2>3. \A d \in Alloc!CPUs : alloc_prog'[d].why = "append" =>
            /\ alloc_prog[d].why = "append" /\ alloc_prog'[d].buffer = alloc_prog[d].buffer
            /\ alloc_prog'[d].block = alloc_prog[d].block
            /\ alloc_at'[d] \in Before => alloc_at[d] \in Before
            /\ alloc_at'[d] \in {"update", "done"} => alloc_at[d] \in {"update", "done"}
        BY <1>1, <1>5 DEF Before
    <2>4. CASE ~full
        <3>1. ASSUME NEW d \in Alloc!CPUs, NEW lo \in Int, NEW hi \in Int, Safe(d, lo, hi)
              PROVE  Safe(d, lo, hi)'
            <4>1. CASE d # c
                BY <1>1, <1>5, <1>7, <2>4, <3>1, <4>1, SafeKept
            <4>2. CASE d = c
                BY <1>1, <1>5, <1>7, <2>4, <3>1, <4>2 DEF Safe
            <4>3. QED
                BY <4>1, <4>2
        <3>2. QED
            BY <1>1, <2>2, <2>3, <3>1, ArraysKept DEF AllocInv
    <2>5. CASE full
        <3>1. slice.array = Alloc!GoHeap
              /\ \A d \in Alloc!CPUs : alloc_prog[d].why = "append" => alloc_at[d] # "done"
            BY <1>2, <1>13, <2>5 DEF Alloc!GivesArrayAway
        <3>2. ArraySafe'
            BY <1>1, <2>2, <3>1 DEF ArraySafe
        <3>3. ASSUME NEW d \in Alloc!CPUs, alloc_prog'[d].why = "append" PROVE AppendSafe(d)'
            <4>1. alloc_prog'[d] = alloc_prog[d] /\ alloc_prog[d].why = "append" /\ AppendSafe(d)
                BY <1>1, <2>2, <3>3
            <4>2. alloc_at'[d] \in Before => alloc_at[d] \in Before
                BY <2>3, <3>3
            <4>3. CASE alloc_at'[d] \in {"update", "done"}
                <5>1. alloc_at[d] = "update" /\ alloc_at'[d] = "update" /\ d # c
                          /\ start'[d] = start[d]
                    BY <1>1, <1>5, <3>1, <4>1, <4>3
                <5>2. PICK n \in Nat : n = alloc_prog[d].block[1]
                    BY <2>2, <5>1 DEF ProgramOK, AllocInv, AllocTypes, Programs
                <5>3. PICK l \in Nat : l = slice.len
                    BY DEF AllocInv, AllocTypes, Slices
                <5>4. Safe(d, n, n + l)
                    BY <4>1, <5>1, <5>2, <5>3 DEF AppendSafe
                <5>5. Safe(d, n, n + l)'
                    BY <5>1, <5>4, SafeKept
                <5>6. n = alloc_prog'[d].block[1] /\ l = slice'.len
                    BY <1>1, <5>2, <5>3
                <5>7. alloc_at'[d] \notin Before
                    BY <5>1 DEF Before
                <5>8. QED
                    BY <1>1, <4>1, <5>1, <5>2, <5>3, <5>5, <5>6, <5>7 DEF AppendSafe
            <4>4. CASE alloc_at'[d] \notin {"update", "done"}
                BY <1>1, <4>1, <4>2, <4>4 DEF AppendSafe
            <4>5. QED
                BY <4>3, <4>4
        <3>4. QED
            BY <3>2, <3>3 DEF AppendSafe
    <2>6. QED
        BY <2>4, <2>5
<1>14. QED
    BY <1>1, <1>8, <1>10, <1>11, <1>12, <1>13 DEF AllocInv
(* A program that ends: without a block, or with the block it wrote, which   *)
(* may become the array of the slice.                                        *)
LEMMA Ended ==
    ASSUME AllocInv, NEW c \in Alloc!CPUs,
           alloc_at' = [alloc_at EXCEPT ![c] = "idle"],
               alloc_prog' = [alloc_prog EXCEPT ![c] = Alloc!NoProgram],
           start' = [start EXCEPT ![c] = 0], end' = [end EXCEPT ![c] = 0]
    PROVE  /\ alloc_at' \in [Alloc!CPUs -> Alloc!Steps]
                  /\ alloc_prog' \in [Alloc!CPUs -> Programs]
           /\ start' \in [Alloc!CPUs -> Nat] /\ end' \in [Alloc!CPUs -> Nat]
           /\ alloc_at'[c] = "idle" /\ alloc_prog'[c] = Alloc!NoProgram
           /\ \A d \in Alloc!CPUs \ {c} : /\ alloc_at'[d] = alloc_at[d]
                  /\ alloc_prog'[d] = alloc_prog[d]
                                    /\ start'[d] = start[d] /\ end'[d] = end[d]
<1>1. Alloc!NoProgram \in Programs
    BY DEF Alloc!NoProgram, Programs
<1>2. alloc_at \in [Alloc!CPUs -> Alloc!Steps] /\ alloc_prog \in [Alloc!CPUs -> Programs]
      /\ start \in [Alloc!CPUs -> Nat] /\ end \in [Alloc!CPUs -> Nat]
    BY DEF AllocInv, AllocTypes
<1>3. alloc_at' \in [Alloc!CPUs -> Alloc!Steps]
    BY <1>2 DEF Alloc!Steps
<1>4. alloc_prog' \in [Alloc!CPUs -> Programs]
    BY <1>1, <1>2
<1>5. QED
    BY <1>2, <1>3, <1>4

(* (alloc.h:101-106) The block is out of bounds, or the write fails.         *)
LEMMA GaveUp ==
    ASSUME Alloc!AllocAssumption, AllocInv, NEW c \in Alloc!CPUs, alloc_at[c] = "write",
               Alloc!GivesUp(c),
           UNCHANGED <<alloc_start, alloc_end, slice, appended, recycled>>
    PROVE  AllocInv'
<1>1. /\ alloc_at' = [alloc_at EXCEPT ![c] = "idle"]
             /\ alloc_prog' = [alloc_prog EXCEPT ![c] = Alloc!NoProgram]
      /\ start' = [start EXCEPT ![c] = 0] /\ end' = [end EXCEPT ![c] = 0]
      /\ UNCHANGED <<memory, writes, blocks, emptied>>
    BY DEF Alloc!GivesUp
<1>2. /\ alloc_at' \in [Alloc!CPUs -> Alloc!Steps] /\ alloc_prog' \in [Alloc!CPUs -> Programs]
      /\ start' \in [Alloc!CPUs -> Nat] /\ end' \in [Alloc!CPUs -> Nat]
      /\ alloc_at'[c] = "idle" /\ alloc_prog'[c] = Alloc!NoProgram
      /\ \A d \in Alloc!CPUs \ {c} : /\ alloc_at'[d] = alloc_at[d]
             /\ alloc_prog'[d] = alloc_prog[d]
                               /\ start'[d] = start[d] /\ end'[d] = end[d]
    BY <1>1, Ended
<1>3. AllocTypes'
    BY <1>1, <1>2 DEF AllocInv, AllocTypes
<1>4. alloc_prog'[c].why = "none" /\ alloc_prog'[c].buffer = <<>>
    BY <1>2 DEF Alloc!NoProgram
<1>5. ASSUME NEW d \in Alloc!CPUs PROVE ProgramOK(d)' /\ EndKnown(d)' /\ AppendOK(d)'
    <2>1. ProgramOK(d) /\ EndKnown(d) /\ AppendOK(d)
        BY DEF AllocInv
    <2>2. CASE d # c
        <3>1. ProgramOK(d)' /\ EndKnown(d)'
            BY <1>1, <1>2, <2>1, <2>2, OtherCpu
        <3>2. AppendOK(d)'
            BY <1>1, <1>2, <2>1, <2>2 DEF AppendOK
        <3>3. QED
            BY <3>1, <3>2
    <2>3. CASE d = c
        <3>1. ProgramOK(c)'
            BY <1>2, <1>4 DEF ProgramOK, Before
        <3>2. EndKnown(c)'
            BY <1>2, <2>1, <2>3 DEF EndKnown
        <3>3. AppendOK(c)'
            BY <1>4 DEF AppendOK
        <3>4. QED
            BY <2>3, <3>1, <3>2, <3>3
    <2>4. QED
        BY <2>2, <2>3
<1>6. ASSUME NEW d \in Alloc!CPUs \ emptied PROVE PartOK(d)'
    <2>1. PartOK(d)
        BY DEF AllocInv
    <2>2. CASE d # c
        BY <1>1, <1>2, <2>1, <2>2, OtherCpu
    <2>3. CASE d = c
        BY <1>1, <1>2, <2>1, <2>3 DEF PartOK, Behind
    <2>4. QED
        BY <2>2, <2>3
<1>7. SliceOK'
    <2>1. ASSUME NEW d \in Alloc!CPUs, NEW e \in Alloc!CPUs, alloc_prog'[d].why = "append",
                 alloc_prog'[e].why = "append"
          PROVE  d = e
        BY <1>2, <1>4, <2>1 DEF AllocInv, SliceOK
    <2>2. QED
        BY <2>1 DEF AllocInv, SliceOK
<1>8. ASSUME emptied = {}, ~recycled PROVE ArraySafe' /\ \A d \in Alloc!CPUs : AppendSafe(d)'
    <2>1. ArraySafe /\ \A d \in Alloc!CPUs : AppendSafe(d) /\ ProgramOK(d)
        BY <1>8 DEF AllocInv
    <2>2. ASSUME NEW d \in Alloc!CPUs, NEW lo \in Int, NEW hi \in Int, Safe(d, lo, hi)
          PROVE  Safe(d, lo, hi)'
        <3>1. CASE d # c
            BY <1>2, <2>2, <3>1, SafeKept
        <3>2. CASE d = c
            BY <1>2, <2>2, <3>2 DEF Safe
        <3>3. QED
            BY <3>1, <3>2
    <2>3. \A d \in Alloc!CPUs : alloc_prog'[d].why = "append" =>
            /\ alloc_prog[d].why = "append" /\ alloc_prog'[d].buffer = alloc_prog[d].buffer
            /\ alloc_prog'[d].block = alloc_prog[d].block
            /\ alloc_at'[d] \in Before => alloc_at[d] \in Before
            /\ alloc_at'[d] \in {"update", "done"} => alloc_at[d] \in {"update", "done"}
        BY <1>2, <1>4
    <2>4. QED
        BY <1>1, <2>1, <2>2, <2>3, ArraysKept DEF AllocInv
<1>9. QED
    BY <1>1, <1>3, <1>5, <1>6, <1>7, <1>8 DEF AllocInv

LEMMA SetSizes ==
    ASSUME NEW p \in Programs, NEW s \in Seq(Nat), NEW q, q = [p EXCEPT !.sizes = s]
    PROVE  /\ q \in Programs /\ q.sizes = s /\ q.why = p.why
           /\ q.buffer = p.buffer /\ q.block = p.block
BY DEF Programs

(* (alloc.h:109-119) The place reached is stored, unless a later program     *)
(* begins again: what was written is safe.                                   *)
LEMMA Updates ==
    ASSUME Alloc!AllocAssumption, AllocInv, NEW c \in Alloc!CPUs, Alloc!UpdateStart(c)
    PROVE  AllocInv'
<1>1. /\ alloc_at[c] = "update" /\ alloc_start' = Alloc!Put(alloc_start, c, start[c])
      /\ UNCHANGED <<alloc_end, start, end, memory, writes, blocks, emptied, slice,
                     appended, recycled>>
    BY DEF Alloc!UpdateStart
<1>2. /\ start \in [Alloc!CPUs -> Nat] /\ alloc_at \in [Alloc!CPUs -> Alloc!Steps]
             /\ alloc_prog \in [Alloc!CPUs -> Programs]
      /\ alloc_start = <<>> \/ alloc_start \in [Alloc!CPUs -> Nat]
    BY DEF AllocInv, AllocTypes
<1>3. /\ alloc_prog[c].sizes \in Seq(Nat) /\ Len(alloc_prog[c].sizes) > 0
             /\ Len(alloc_prog[c].block) = 2
      /\ Tail(alloc_prog[c].sizes) \in Seq(Nat)
      /\ Len(Tail(alloc_prog[c].sizes)) = Len(alloc_prog[c].sizes) - 1
    <2>1. alloc_prog[c].sizes \in Seq(Nat) /\ Len(alloc_prog[c].sizes) > 0
              /\ Len(alloc_prog[c].block) = 2
        BY <1>1, <1>2 DEF AllocInv, ProgramOK, Programs
    <2>2. alloc_prog[c].sizes # <<>>
        BY <2>1
    <2>3. QED
        BY <2>1, <2>2
<1>4. /\ alloc_at' = [alloc_at EXCEPT ![c] = IF Len(alloc_prog[c].sizes) > 1 THEN "start"
             ELSE "done"]
      /\ alloc_prog' = [alloc_prog EXCEPT ![c] = [alloc_prog[c] EXCEPT !.sizes
             = Tail(alloc_prog[c].sizes)]]
    BY <1>2 DEF Alloc!UpdateStart, Programs
<1>5. /\ \A d \in Alloc!CPUs \ {c} : alloc_at'[d] = alloc_at[d] /\ alloc_prog'[d] = alloc_prog[d]
      /\ alloc_at'[c] = IF Len(alloc_prog[c].sizes) > 1 THEN "start" ELSE "done"
    BY <1>2, <1>4
<1>6. /\ alloc_prog'[c] \in Programs /\ alloc_prog'[c].sizes = Tail(alloc_prog[c].sizes)
      /\ alloc_prog'[c].why = alloc_prog[c].why /\ alloc_prog'[c].buffer = alloc_prog[c].buffer
      /\ alloc_prog'[c].block = alloc_prog[c].block
    <2>1. PICK p \in Programs, s \in Seq(Nat) : p = alloc_prog[c] /\ s = Tail(alloc_prog[c].sizes)
        BY <1>2, <1>3
    <2>2. alloc_prog'[c] = [p EXCEPT !.sizes = s]
        BY <1>2, <1>4, <2>1
    <2>3. /\ alloc_prog'[c] \in Programs /\ alloc_prog'[c].sizes = s /\ alloc_prog'[c].why = p.why
          /\ alloc_prog'[c].buffer = p.buffer /\ alloc_prog'[c].block = p.block
        <3>1. PICK q : q = alloc_prog'[c]
            OBVIOUS
        <3>2. q = [p EXCEPT !.sizes = s]
            BY <2>2, <3>1
        <3>3. /\ q \in Programs /\ q.sizes = s /\ q.why = p.why
              /\ q.buffer = p.buffer /\ q.block = p.block
            BY <3>2, SetSizes
        <3>4. QED
            BY <3>1, <3>3
    <2>4. QED
        BY <2>1, <2>3
<1>7. \A d \in Alloc!CPUs :
          Alloc!Here(alloc_start', d) = IF d = c THEN start[c] ELSE Alloc!Here(alloc_start, d)
    BY <1>1, HerePut
<1>8. AllocTypes'
    <2>1. alloc_at' \in [Alloc!CPUs -> Alloc!Steps]
        BY <1>2, <1>4 DEF Alloc!Steps
    <2>2. alloc_prog' \in [Alloc!CPUs -> Programs]
        BY <1>2, <1>4, <1>6
    <2>3. alloc_start' \in [Alloc!CPUs -> Nat]
        BY <1>1, <1>2, PutType
    <2>4. QED
        BY <1>1, <2>1, <2>2, <2>3 DEF AllocInv, AllocTypes
<1>9. alloc_prog[c].why = "append" => Len(alloc_prog[c].sizes) = 1 /\ alloc_at'[c] = "done"
    <2>1. alloc_prog[c].why = "append" => Len(alloc_prog[c].sizes) = 1
        BY <1>1 DEF AllocInv, AppendOK
    <2>2. Len(alloc_prog[c].sizes) = 1 => alloc_at'[c] = "done"
        BY <1>5
    <2>3. QED
        BY <2>1, <2>2
<1>10. ASSUME NEW d \in Alloc!CPUs PROVE ProgramOK(d)' /\ EndKnown(d)' /\ AppendOK(d)'
    <2>1. ProgramOK(d) /\ EndKnown(d) /\ AppendOK(d)
        BY DEF AllocInv
    <2>2. CASE d # c
        <3>1. ProgramOK(d)' /\ EndKnown(d)'
            BY <1>1, <1>5, <1>7, <2>1, <2>2, OtherCpu
        <3>2. AppendOK(d)'
            BY <1>1, <1>5, <2>1, <2>2 DEF AppendOK
        <3>3. QED
            BY <3>1, <3>2
    <2>3. CASE d = c
        <3>1. ProgramOK(c)'
            <4>1. alloc_at'[c] = "start" => Len(alloc_prog'[c].sizes) > 0
                BY <1>3, <1>5, <1>6
            <4>2. QED
                BY <1>3, <1>5, <1>6, <2>1, <2>3, <4>1 DEF ProgramOK, Before
        <3>2. Alloc!Here(alloc_end, c)' = Alloc!Here(alloc_end, c) /\ Alloc!Here(alloc_end, c) # 0
            BY <1>1, <2>1, <2>3 DEF EndKnown
        <3>3. EndKnown(c)'
            BY <1>1, <1>5, <2>1, <2>3, <3>2 DEF EndKnown
        <3>4. AppendOK(c)'
            BY <1>1, <1>5, <1>6, <1>9, <2>1, <2>3 DEF AppendOK, Before
        <3>5. QED
            BY <2>3, <3>1, <3>3, <3>4
    <2>4. QED
        BY <2>2, <2>3
<1>11. ASSUME NEW d \in Alloc!CPUs \ emptied PROVE PartOK(d)'
    <2>1. PartOK(d)
        BY DEF AllocInv
    <2>2. CASE d # c
        BY <1>1, <1>5, <1>7, <2>1, <2>2, OtherCpu
    <2>3. CASE d = c
        <3>1. Alloc!Here(alloc_start, c)' = start[c] /\ start[c] # 0
            <4>1. Alloc!PartStart(c) <= start[c] /\ Alloc!PartStart(c) \in Nat
                      /\ Alloc!GoHeap < Alloc!PartStart(c)
                BY <1>1, <2>1, <2>3, Parts DEF PartOK, Behind
            <4>2. QED
                BY <1>2, <1>7, <4>1 DEF Alloc!GoHeap
        <3>2. Behind(c, start[c])' /\ Behind(c, Alloc!Here(alloc_start, c))'
            BY <1>1, <2>1, <2>3, <3>1 DEF PartOK, Behind
        <3>3. QED
            BY <1>1, <1>5, <2>1, <2>3, <3>1, <3>2 DEF PartOK
    <2>4. QED
        BY <2>2, <2>3
<1>12. SliceOK'
    <2>1. \A d \in Alloc!CPUs : alloc_prog'[d].why = alloc_prog[d].why
        BY <1>5, <1>6
    <2>2. QED
        BY <1>1, <2>1 DEF AllocInv, SliceOK
<1>13. ASSUME emptied = {}, ~recycled PROVE ArraySafe' /\ \A d \in Alloc!CPUs : AppendSafe(d)'
    <2>1. ArraySafe /\ \A d \in Alloc!CPUs : AppendSafe(d) /\ ProgramOK(d) /\ PartOK(d)
        BY <1>13 DEF AllocInv
    <2>2. ASSUME NEW d \in Alloc!CPUs, NEW lo \in Int, NEW hi \in Int, Safe(d, lo, hi)
          PROVE  Safe(d, lo, hi)'
        <3>1. CASE d # c
            BY <1>1, <1>5, <1>7, <2>2, <3>1, SafeKept
        <3>2. CASE d = c
            <4>1. Alloc!Here(alloc_start, c)' = start[c] /\ start[c] # 0
                <5>1. Alloc!PartStart(c) <= start[c] /\ Alloc!PartStart(c) \in Nat
                          /\ Alloc!GoHeap < Alloc!PartStart(c)
                    BY <1>1, <2>1, Parts DEF PartOK, Behind
                <5>2. QED
                    BY <1>2, <1>7, <5>1 DEF Alloc!GoHeap
            <4>2. QED
                BY <1>1, <1>5, <2>2, <3>2, <4>1 DEF Safe
        <3>3. QED
            BY <3>1, <3>2
    <2>3. \A d \in Alloc!CPUs : alloc_prog'[d].why = "append" =>
            /\ alloc_prog[d].why = "append" /\ alloc_prog'[d].buffer = alloc_prog[d].buffer
            /\ alloc_prog'[d].block = alloc_prog[d].block
            /\ alloc_at'[d] \in Before => alloc_at[d] \in Before
            /\ alloc_at'[d] \in {"update", "done"} => alloc_at[d] \in {"update", "done"}
        BY <1>1, <1>5, <1>6, <1>9 DEF Before
    <2>4. QED
        BY <1>1, <2>1, <2>2, <2>3, ArraysKept DEF AllocInv
<1>14. QED
    BY <1>1, <1>8, <1>10, <1>11, <1>12, <1>13 DEF AllocInv

(* (go_types.h:147) The end of a program: the block that was written may     *)
(* become the array of the slice.                                            *)
LEMMA Finishes ==
    ASSUME Alloc!AllocAssumption, AllocInv, NEW c \in Alloc!CPUs, Alloc!Finish(c)
    PROVE  AllocInv'
<1>1. /\ alloc_at[c] = "done"
      /\ alloc_at' = [alloc_at EXCEPT ![c] = "idle"]
             /\ alloc_prog' = [alloc_prog EXCEPT ![c] = Alloc!NoProgram]
      /\ start' = [start EXCEPT ![c] = 0] /\ end' = [end EXCEPT ![c] = 0]
      /\ UNCHANGED <<alloc_start, alloc_end, memory, writes, blocks, emptied, recycled>>
    BY DEF Alloc!Finish
<1>2. /\ alloc_at' \in [Alloc!CPUs -> Alloc!Steps] /\ alloc_prog' \in [Alloc!CPUs -> Programs]
      /\ start' \in [Alloc!CPUs -> Nat] /\ end' \in [Alloc!CPUs -> Nat]
      /\ alloc_at'[c] = "idle" /\ alloc_prog'[c] = Alloc!NoProgram
      /\ \A d \in Alloc!CPUs \ {c} : /\ alloc_at'[d] = alloc_at[d]
             /\ alloc_prog'[d] = alloc_prog[d]
                               /\ start'[d] = start[d] /\ end'[d] = end[d]
    BY <1>1, Ended
<1>3. alloc_prog'[c].why = "none" /\ alloc_prog'[c].buffer = <<>>
    BY <1>2 DEF Alloc!NoProgram
<1> DEFINE Moved ==
        /\ alloc_prog[c].why = "append"
        /\ slice' = [array |-> alloc_prog[c].block[1], len |-> slice.len + 1,
               cap |-> slice.cap + 1]
        /\ appended' = Append(appended, alloc_prog[c].block[2])
<1>4. UNCHANGED <<slice, appended>> \/ Moved
    BY DEF Alloc!Finish
<1>5. /\ slice \in Slices /\ appended \in Seq(Nat) /\ alloc_prog[c] \in Programs
      /\ slice.len \in Nat /\ slice.cap \in Nat /\ slice.array \in Nat
    BY DEF AllocInv, AllocTypes, Slices
<1>6. alloc_prog[c].block[1] \in Nat /\ alloc_prog[c].block[2] \in Nat
    BY <1>1, <1>5 DEF AllocInv, ProgramOK, Programs
<1>7. slice.len = Len(appended) /\ slice.len <= slice.cap
    BY DEF AllocInv, SliceOK
<1>8. Moved => /\ slice'.array = alloc_prog[c].block[1] /\ slice'.len = slice.len + 1
               /\ slice'.cap = slice.cap + 1 /\ slice.len = slice.cap
               /\ Len(appended') = Len(appended) + 1
               /\ appended' \in Seq(Nat) /\ slice' \in Slices
               /\ alloc_prog[c].block[1] + slice.len + 1 \in Alloc!Locations
    BY <1>1, <1>5, <1>6 DEF AllocInv, AppendOK, Slices
<1>9. AllocTypes'
    <2>1. slice' \in Slices /\ appended' \in Seq(Nat)
        BY <1>4, <1>5, <1>8
    <2>2. QED
        BY <1>1, <1>2, <2>1 DEF AllocInv, AllocTypes
<1>10. Moved => \A d \in Alloc!CPUs : alloc_prog'[d].why # "append"
    BY <1>2, <1>3 DEF AllocInv, SliceOK
<1> HIDE DEF Moved
<1>11. ASSUME NEW d \in Alloc!CPUs PROVE ProgramOK(d)' /\ EndKnown(d)' /\ AppendOK(d)'
    <2>1. ProgramOK(d) /\ EndKnown(d) /\ AppendOK(d)
        BY DEF AllocInv
    <2>2. CASE d # c
        <3>1. ProgramOK(d)' /\ EndKnown(d)'
            BY <1>1, <1>2, <2>1, <2>2, OtherCpu
        <3>2. AppendOK(d)'
            <4>1. CASE Moved
                BY <1>10, <4>1 DEF AppendOK
            <4>2. CASE UNCHANGED <<slice, appended>>
                BY <1>1, <1>2, <2>1, <2>2, <4>2 DEF AppendOK
            <4>3. QED
                BY <1>4, <4>1, <4>2
        <3>3. QED
            BY <3>1, <3>2
    <2>3. CASE d = c
        <3>1. ProgramOK(c)'
            BY <1>2, <1>3 DEF ProgramOK, Before
        <3>2. EndKnown(c)'
            BY <1>1, <1>2, <2>1, <2>3 DEF EndKnown
        <3>3. AppendOK(c)'
            BY <1>3 DEF AppendOK
        <3>4. QED
            BY <2>3, <3>1, <3>2, <3>3
    <2>4. QED
        BY <2>2, <2>3
<1>12. ASSUME NEW d \in Alloc!CPUs \ emptied PROVE PartOK(d)'
    <2>1. PartOK(d)
        BY DEF AllocInv
    <2>2. CASE d # c
        BY <1>1, <1>2, <2>1, <2>2, OtherCpu
    <2>3. CASE d = c
        BY <1>1, <1>2, <2>1, <2>3 DEF PartOK, Behind
    <2>4. QED
        BY <2>2, <2>3
<1>13. SliceOK'
    <2>1. ASSUME NEW d \in Alloc!CPUs, NEW e \in Alloc!CPUs, alloc_prog'[d].why = "append",
                 alloc_prog'[e].why = "append"
          PROVE  d = e
        BY <1>2, <1>3, <2>1 DEF AllocInv, SliceOK
    <2>2. CASE UNCHANGED <<slice, appended>>
        BY <2>1, <2>2 DEF AllocInv, SliceOK
    <2>3. CASE Moved
        <3>1. Alloc!GoHeap < alloc_prog[c].block[1] /\ Alloc!GoHeap \in Nat
            BY <1>1, <2>3 DEF AllocInv, AppendOK, Moved, Alloc!GoHeap
        <3>2. slice'.array # Alloc!GoHeap
            BY <1>6, <1>8, <2>3, <3>1
        <3>3. slice'.array + slice'.len \in Alloc!Locations
            <4>1. alloc_prog[c].block[1] + slice.len + 1
                      = alloc_prog[c].block[1] + (slice.len + 1)
                BY <1>5, <1>6
            <4>2. QED
                BY <1>8, <2>3, <4>1
        <3>4. slice'.len = Len(appended') /\ slice'.len = slice'.cap /\ slice'.len <= slice'.cap
            BY <1>5, <1>7, <1>8, <2>3
        <3>5. QED
            BY <2>1, <3>2, <3>3, <3>4 DEF SliceOK
    <2>4. QED
        BY <1>4, <2>2, <2>3 DEF Moved
<1>14. ASSUME emptied = {}, ~recycled PROVE ArraySafe' /\ \A d \in Alloc!CPUs : AppendSafe(d)'
    <2>1. ArraySafe /\ \A d \in Alloc!CPUs : AppendSafe(d) /\ ProgramOK(d)
        BY <1>14 DEF AllocInv
    <2>2. ASSUME NEW d \in Alloc!CPUs, NEW lo \in Int, NEW hi \in Int, Safe(d, lo, hi)
          PROVE  Safe(d, lo, hi)'
        <3>1. CASE d # c
            BY <1>1, <1>2, <2>2, <3>1, SafeKept
        <3>2. CASE d = c
            BY <1>1, <1>2, <2>2, <3>2 DEF Safe
        <3>3. QED
            BY <3>1, <3>2
    <2>3. CASE UNCHANGED <<slice, appended>>
        <3>1. \A d \in Alloc!CPUs : alloc_prog'[d].why = "append" =>
                /\ alloc_prog[d].why = "append" /\ alloc_prog'[d].buffer = alloc_prog[d].buffer
                /\ alloc_prog'[d].block = alloc_prog[d].block
                /\ alloc_at'[d] \in Before => alloc_at[d] \in Before
                /\ alloc_at'[d] \in {"update", "done"} => alloc_at[d] \in {"update", "done"}
            BY <1>2, <1>3
        <3>2. QED
            BY <1>1, <2>1, <2>2, <2>3, <3>1, ArraysKept DEF AllocInv
    <2>4. CASE Moved
        <3>1. \A d \in Alloc!CPUs : AppendSafe(d)'
            BY <1>10, <2>4 DEF AppendSafe
        <3>2. PICK n \in Nat, l \in Nat : n = alloc_prog[c].block[1] /\ l = slice.len
            BY <1>5, <1>6
        <3>3. /\ Safe(c, n, n + l)
              /\ memory[n + l] = alloc_prog[c].block[2]
              /\ \A i \in 1..l : appended[i] \in {0, memory[n + i - 1]}
            BY <1>1, <2>1, <2>4, <3>2 DEF AppendSafe, Moved
        <3>4. slice'.array = n /\ slice'.len = l + 1 /\ n + l = slice'.array + slice'.len - 1
            BY <1>8, <2>4, <3>2
        <3>5. Safe(c, n, n + l)'
            BY <2>2, <3>3
        <3>6. \E d \in Alloc!CPUs : Safe(d, slice.array, slice.array + slice.len - 1)'
            BY <3>4, <3>5
        <3>7. ASSUME NEW i \in 1..slice'.len
              PROVE  appended'[i] \in {0, memory'[slice'.array + i - 1]}
            <4>1. CASE i = l + 1
                <5>1. appended'[l + 1] = alloc_prog[c].block[2]
                    BY <1>5, <1>6, <1>7, <2>4, <3>2 DEF Moved
                <5>2. slice'.array + i - 1 = n + l
                    BY <3>2, <3>4, <4>1
                <5>3. QED
                    BY <1>1, <3>3, <4>1, <5>1, <5>2
            <4>2. CASE i \in 1..l
                <5>1. appended'[i] = appended[i]
                    BY <1>5, <1>6, <1>7, <2>4, <3>2, <4>2 DEF Moved
                <5>2. QED
                    BY <1>1, <3>3, <3>4, <4>2, <5>1
            <4>3. QED
                BY <3>2, <3>4, <4>1, <4>2
        <3>8. QED
            BY <3>1, <3>6, <3>7 DEF ArraySafe
    <2>5. QED
        BY <1>4, <2>3, <2>4 DEF Moved
<1>15. QED
    BY <1>1, <1>9, <1>11, <1>12, <1>13, <1>14 DEF AllocInv
LEMMA ConcatNat ==
    ASSUME NEW b \in Seq(Nat), NEW t \in Seq(Nat)
    PROVE  /\ b \o t \in Seq(Nat) /\ Len(b \o t) = Len(b) + Len(t)
           /\ \A i \in 1..Len(b) : (b \o t)[i] = b[i]
           /\ \A i \in 1..Len(t) : (b \o t)[Len(b) + i] = t[i]
OBVIOUS

Asked(c) == Head(alloc_prog[c].sizes)
SizeOf(c) == Alloc!bound_number(Asked(c), 1, MaxBufferSize)
ContentOf(c, size, w) ==
    alloc_prog[c].buffer \o [i \in 1..(size - Len(alloc_prog[c].buffer)) |-> w]

(* What a program that writes asks for, and what it writes: the old items    *)
(* and the new one, or the characters of a string.  (alloc.h:93)             *)
LEMMA Content ==
    ASSUME Alloc!AllocAssumption, AllocInv, NEW c \in Alloc!CPUs, alloc_at[c] = "write",
               NEW w \in Nat
    PROVE  /\ Asked(c) \in Nat /\ SizeOf(c) \in 1..PageSize
           /\ SizeOf(c) \in 1..MaxBufferSize
           /\ Asked(c) # 0 => SizeOf(c) <= Asked(c)
           /\ Asked(c) = 0 => SizeOf(c) = 1
           /\ ContentOf(c, SizeOf(c), w) \in Seq(Nat)
                  /\ Len(ContentOf(c, SizeOf(c), w)) = SizeOf(c)
           /\ alloc_prog[c].why = "append" =>
                /\ SizeOf(c) = slice.len + 1 /\ ContentOf(c, SizeOf(c), w)[slice.len + 1] = w
                /\ \A i \in 1..slice.len : ContentOf(c, SizeOf(c), w)[i] = alloc_prog[c].buffer[i]
<1> DEFINE asked == Asked(c)
           size == SizeOf(c)
           content == ContentOf(c, SizeOf(c), w)
<1>1. /\ alloc_prog[c].sizes \in Seq(Nat) /\ Len(alloc_prog[c].sizes) > 0
             /\ alloc_prog[c].buffer \in Seq(Nat)
      /\ alloc_prog[c].why # "append" => alloc_prog[c].buffer = <<>>
    BY DEF AllocInv, ProgramOK, AllocTypes, Programs, Before
<1>2. asked = Head(alloc_prog[c].sizes) /\ asked \in Nat
    BY <1>1 DEF Asked
<1>3. MaxBufferSize \in 1..PageSize /\ PageSize \in Nat
    BY DEF Alloc!AllocAssumption
<1>4. /\ size \in 1..PageSize /\ size \in 1..MaxBufferSize
      /\ (asked # 0 => size <= asked) /\ (asked = 0 => size = 1)
    BY <1>2, <1>3 DEF Alloc!bound_number, SizeOf
<1>5. ASSUME alloc_prog[c].why = "append"
      PROVE  size = slice.len + 1 /\ Len(alloc_prog[c].buffer) = slice.len /\ slice.len \in Nat
    <2>1. alloc_prog[c].sizes = <<slice.len + 1>> /\ Len(alloc_prog[c].buffer) = slice.len
          /\ slice.len + 1 <= MaxBufferSize
        BY <1>5 DEF AllocInv, AppendOK, Before
    <2>2. slice.len \in Nat
        BY DEF AllocInv, AllocTypes, Slices
    <2>3. asked = slice.len + 1
        BY <1>2, <2>1
    <2>4. QED
        BY <1>3, <2>1, <2>2, <2>3 DEF Alloc!bound_number, SizeOf
<1> HIDE DEF asked, size, content
<1>6. PICK b \in Seq(Nat) : b = alloc_prog[c].buffer
    BY <1>1
<1>7. Len(b) <= size /\ Len(b) \in Nat
    BY <1>1, <1>4, <1>5, <1>6
<1>8. PICK n \in Nat : n = size - Len(b)
    BY <1>4, <1>7
<1>9. PICK t : t = [i \in 1..n |-> w]
    OBVIOUS
<1>10. t \in Seq(Nat) /\ Len(t) = n /\ \A i \in 1..n : t[i] = w
    BY <1>9
<1>11. content = b \o t
    BY <1>6, <1>8, <1>9 DEF ContentOf, size, content
<1>12. /\ content \in Seq(Nat) /\ Len(content) = size
       /\ \A i \in 1..Len(b) : content[i] = b[i]
       /\ \A i \in 1..n : content[Len(b) + i] = t[i]
    <2>1. /\ content \in Seq(Nat) /\ Len(content) = Len(b) + Len(t)
          /\ \A i \in 1..Len(b) : content[i] = b[i]
          /\ \A i \in 1..Len(t) : content[Len(b) + i] = t[i]
        <3>1. /\ b \o t \in Seq(Nat) /\ Len(b \o t) = Len(b) + Len(t)
              /\ \A i \in 1..Len(b) : (b \o t)[i] = b[i]
              /\ \A i \in 1..Len(t) : (b \o t)[Len(b) + i] = t[i]
            BY <1>10, ConcatNat
        <3>2. QED
            BY <1>11, <3>1, Zenon
    <2>2. Len(b) + n = size
        BY <1>4, <1>7, <1>8
    <2>3. QED
        BY <1>10, <2>1, <2>2
<1>13. ASSUME alloc_prog[c].why = "append"
       PROVE  /\ size = slice.len + 1 /\ content[slice.len + 1] = w
              /\ \A i \in 1..slice.len : content[i] = alloc_prog[c].buffer[i]
    <2>1. size = slice.len + 1 /\ Len(b) = slice.len /\ slice.len \in Nat
        BY <1>5, <1>6, <1>13
    <2>2. n = 1 /\ 1 \in 1..n
        BY <1>8, <2>1
    <2>3. content[slice.len + 1] = t[1] /\ t[1] = w
        BY <1>10, <1>12, <2>1, <2>2
    <2>4. QED
        BY <1>6, <1>12, <2>1, <2>3
<1>14. QED
    BY <1>2, <1>4, <1>12, <1>13 DEF asked, size, content

(* (alloc.h:82-106) The block lies in the CPU's part, behind all that it has *)
(* written, unless it is an empty string in a full part.                     *)
LEMMA BlockFits ==
    ASSUME Alloc!AllocAssumption, AllocInv, NEW c \in Alloc!CPUs \ emptied, alloc_at[c] = "write",
           NEW asked \in Nat, asked = Head(alloc_prog[c].sizes), NEW size \in 1..PageSize,
           asked # 0 => size <= asked, asked = 0 => size = 1 /\ start[c] # end[c],
           NEW target, target = Alloc!PageAdjusted(start[c], size)
    PROVE  /\ target \in Nat /\ Alloc!PartStart(c) <= target /\ start[c] <= target
           /\ target + size <= Alloc!PartEnd(c)
           /\ \A b \in blocks[c] : b.last < target
           /\ Alloc!UpdatedStart(start[c], target, size) \in Nat
           /\ target + size <= Alloc!UpdatedStart(start[c], target, size)
           /\ Alloc!UpdatedStart(start[c], target, size) <= Alloc!PartEnd(c)
<1>1. /\ Alloc!PartStart(c) <= start[c] /\ start[c] <= Alloc!PartEnd(c)
      /\ \A b \in blocks[c] : b.last < start[c]
      /\ asked <= Alloc!PartEnd(c) - start[c] \/ start[c] = Alloc!PartStart(c)
    BY DEF AllocInv, PartOK, Behind
<1>2. start[c] \in Nat /\ blocks[c] \in SUBSET Blocks /\ end[c] = Alloc!PartEnd(c)
    BY DEF AllocInv, AllocTypes, EndKnown
<1>3. Alloc!PartStart(c) \in Nat /\ Alloc!PartEnd(c) \in Nat /\ PageSize \in Nat
    BY Parts DEF Alloc!AllocAssumption
<1>4. start[c] + size <= Alloc!PartEnd(c) \/ start[c] = Alloc!PartStart(c)
    BY <1>1, <1>2, <1>3
<1>5. target \in Nat /\ start[c] <= target /\ target + size <= Alloc!PartEnd(c)
    BY <1>1, <1>2, <1>4, PageWithin
<1>6. Alloc!PartStart(c) <= target
    BY <1>1, <1>2, <1>3, <1>5
<1>7. ASSUME NEW b \in blocks[c] PROVE b.last < target
    <2>1. b.last \in Nat
        BY <1>2 DEF Blocks
    <2>2. QED
        BY <1>1, <1>2, <1>5, <2>1
<1>8. size \in Nat
    BY <1>3
<1>9. /\ Alloc!UpdatedStart(start[c], target, size) \in Nat
      /\ target + size <= Alloc!UpdatedStart(start[c], target, size)
      /\ Alloc!UpdatedStart(start[c], target, size) <= Alloc!PartEnd(c)
    BY <1>5, <1>8, NextPlace
<1>10. QED
    BY <1>5, <1>6, <1>7, <1>9

LEMMA SetBlock ==
    ASSUME NEW p \in Programs, NEW s \in Seq(Nat), NEW q, q = [p EXCEPT !.block = s]
    PROVE  /\ q \in Programs /\ q.sizes = p.sizes /\ q.why = p.why
           /\ q.buffer = p.buffer /\ q.block = s
BY DEF Programs

LEMMA NextPlaceNat ==
    ASSUME Alloc!AllocAssumption, NEW target \in Nat, NEW size \in Nat, NEW s
    PROVE  Alloc!UpdatedStart(s, target, size) \in Nat
<1>1. PICK v \in Nat : v = target + size
    OBVIOUS
<1>2. Align \in Nat \ {0}
    BY DEF Alloc!AllocAssumption
<1>3. v % Align \in 0..(Align - 1)
    BY <1>2, Ring!ModParts
<1>4. Alloc!UpdatedStart(s, target, size)
        = IF v % Align = 0 THEN v ELSE v + Align - (v % Align)
    BY <1>1 DEF Alloc!UpdatedStart, Alloc!RoundUp
<1>5. QED
    BY <1>2, <1>3, <1>4

(* (alloc.h:106-107) The write.                                              *)
LEMMA Writes ==
    ASSUME Alloc!AllocAssumption, AllocInv, NEW c \in Alloc!CPUs, Alloc!WriteTarget(c)
    PROVE  AllocInv'
<1>1. PICK asked, size : /\ asked = Head(alloc_prog[c].sizes)
                         /\ size = Alloc!bound_number(asked, 1, MaxBufferSize)
                         /\ asked = Asked(c) /\ size = SizeOf(c)
    BY DEF Asked, SizeOf
<1>2. PICK target : target = Alloc!PageAdjusted(start[c], size)
    OBVIOUS
<1>3. alloc_at[c] = "write" /\ UNCHANGED <<alloc_start, alloc_end, slice, appended, recycled>>
    BY DEF Alloc!WriteTarget
<1>4. CASE Alloc!GivesUp(c)
    BY <1>3, <1>4, GaveUp
<1>5. CASE ~Alloc!GivesUp(c)
    <2>1. PICK w : w = writes + 1
        OBVIOUS
    <2>2. w \in Nat
        BY <2>1 DEF AllocInv, AllocTypes
    <2>3. PICK content : content = ContentOf(c, size, w)
        OBVIOUS
    <2>4. /\ asked \in Nat /\ size \in 1..PageSize /\ size \in 1..MaxBufferSize
          /\ asked # 0 => size <= asked
          /\ asked = 0 => size = 1
          /\ content \in Seq(Nat) /\ Len(content) = size
          /\ alloc_prog[c].why = "append" =>
               /\ size = slice.len + 1 /\ content[slice.len + 1] = w
               /\ \A i \in 1..slice.len : content[i] = alloc_prog[c].buffer[i]
        <3>1. content = ContentOf(c, SizeOf(c), w)
            BY <1>1, <2>3
        <3>2. /\ Asked(c) \in Nat /\ SizeOf(c) \in 1..PageSize
              /\ SizeOf(c) \in 1..MaxBufferSize
              /\ Asked(c) # 0 => SizeOf(c) <= Asked(c)
              /\ Asked(c) = 0 => SizeOf(c) = 1
              /\ ContentOf(c, SizeOf(c), w) \in Seq(Nat)
              /\ Len(ContentOf(c, SizeOf(c), w)) = SizeOf(c)
              /\ alloc_prog[c].why = "append" =>
                   /\ SizeOf(c) = slice.len + 1
                   /\ ContentOf(c, SizeOf(c), w)[slice.len + 1] = w
                   /\ \A i \in 1..slice.len :
                        ContentOf(c, SizeOf(c), w)[i] = alloc_prog[c].buffer[i]
            BY <1>3, <2>2, Content
        <3>3. QED
            BY <1>1, <3>1, <3>2
    <2> DEFINE block == [first |-> target, last |-> target + size - 1, write |-> w]
    <2>5. /\ target \in start_addr..end_addr /\ writes' = w
          /\ memory' = [a \in Alloc!Locations |->
                IF a \in target..(target + size - 1) THEN content[a - target + 1]
                ELSE memory[a]]
          /\ blocks' = [blocks EXCEPT ![c] = blocks[c] \cup {block}]
          /\ emptied' = IF asked = 0 /\ start[c] = end[c] THEN emptied \cup {c}
                        ELSE emptied
          /\ start' = [start EXCEPT ![c] = Alloc!UpdatedStart(start[c], target, size)]
          /\ alloc_at' = [alloc_at EXCEPT ![c] = "update"]
          /\ alloc_prog' = [alloc_prog EXCEPT ![c].block = <<target, w>>]
          /\ UNCHANGED end
        BY <1>1, <1>2, <1>5, <2>1, <2>3 DEF Alloc!WriteTarget, ContentOf
    <2>6. /\ start \in [Alloc!CPUs -> Nat] /\ alloc_at \in [Alloc!CPUs -> Alloc!Steps]
                 /\ alloc_prog \in [Alloc!CPUs -> Programs]
          /\ memory \in [Alloc!Locations -> Nat] /\ blocks \in [Alloc!CPUs -> SUBSET Blocks]
          /\ slice \in Slices /\ slice.len \in Nat /\ slice.array \in Nat
          /\ emptied \in SUBSET Alloc!CPUs
        BY DEF AllocInv, AllocTypes, Slices
    <2>7. /\ start_addr \in Nat /\ end_addr \in Nat /\ PageSize \in Nat
          /\ Alloc!GoHeap \in Nat /\ Alloc!GoHeap < start_addr
          /\ target \in Nat /\ size \in Nat /\ Alloc!GoHeap < target /\ target <= end_addr
        BY <2>4, <2>5 DEF Alloc!AllocAssumption, Alloc!GoHeap
    <2>8. PICK next \in Nat : next = Alloc!UpdatedStart(start[c], target, size)
        BY <2>7, NextPlaceNat
    <2>9. PICK p \in Programs : p = alloc_prog[c]
        BY <2>6
    <2>10. PICK q : q = alloc_prog'[c]
        OBVIOUS
    <2>11. /\ q \in Programs /\ q.sizes = p.sizes /\ q.why = p.why
           /\ q.buffer = p.buffer /\ q.block = <<target, w>>
        <3>1. q = [p EXCEPT !.block = <<target, w>>]
            BY <2>5, <2>6, <2>9, <2>10
        <3>2. PICK s \in Seq(Nat) : s = <<target, w>>
            <4>1. <<target, w>> \in Seq(Nat)
                BY <2>2, <2>7
            <4>2. QED
                BY <4>1
        <3>3. q = [p EXCEPT !.block = s]
            BY <3>1, <3>2
        <3>4. /\ q \in Programs /\ q.sizes = p.sizes /\ q.why = p.why
              /\ q.buffer = p.buffer /\ q.block = s
            BY <3>3, SetBlock
        <3>5. QED
            BY <3>2, <3>4
    <2>12. /\ alloc_at'[c] = "update" /\ start'[c] = next
           /\ \A d \in Alloc!CPUs \ {c} : /\ alloc_at'[d] = alloc_at[d] /\ start'[d] = start[d]
                                    /\ alloc_prog'[d] = alloc_prog[d] /\ blocks'[d] = blocks[d]
           /\ blocks'[c] = blocks[c] \cup {block}
        <3>1. alloc_at'[c] = "update" /\ \A d \in Alloc!CPUs \ {c} : alloc_at'[d] = alloc_at[d]
            BY <2>5, <2>6
        <3>2. start'[c] = next /\ \A d \in Alloc!CPUs \ {c} : start'[d] = start[d]
            BY <2>5, <2>6, <2>8
        <3>3. \A d \in Alloc!CPUs \ {c} : alloc_prog'[d] = alloc_prog[d]
            BY <2>5, <2>6
        <3>4. blocks'[c] = blocks[c] \cup {block}
              /\ \A d \in Alloc!CPUs \ {c} : blocks'[d] = blocks[d]
            BY <2>5, <2>6
        <3>5. QED
            BY <3>1, <3>2, <3>3, <3>4
    <2>13. AllocTypes'
        <3>1. alloc_prog' \in [Alloc!CPUs -> Programs]
            <4>1. \A d \in Alloc!CPUs : alloc_prog'[d] \in Programs
                BY <2>6, <2>10, <2>11, <2>12
            <4>2. alloc_prog' = [d \in Alloc!CPUs |-> alloc_prog'[d]]
                BY <2>5, <2>6
            <4>3. QED
                BY <4>1, <4>2
        <3>2. alloc_at' \in [Alloc!CPUs -> Alloc!Steps]
            BY <2>5, <2>6 DEF Alloc!Steps
        <3>3. start' \in [Alloc!CPUs -> Nat]
            BY <2>5, <2>6, <2>8
        <3>4. memory' \in [Alloc!Locations -> Nat]
            <4>1. ASSUME NEW a \in Alloc!Locations, a \in target..(target + size - 1)
                  PROVE  content[a - target + 1] \in Nat
                <5>1. a - target + 1 \in 1..size
                    BY <2>7, <4>1
                <5>2. QED
                    BY <2>4, <5>1
            <4>2. QED
                BY <2>5, <2>6, <4>1
        <3>5. block \in Blocks
            BY <2>2, <2>4, <2>7 DEF Blocks
        <3>6. blocks' \in [Alloc!CPUs -> SUBSET Blocks]
            BY <2>5, <2>6, <3>5
        <3>7. emptied' \in SUBSET Alloc!CPUs
            BY <2>5, <2>6
        <3>8. QED
            BY <1>3, <2>2, <2>5, <3>1, <3>2, <3>3, <3>4, <3>6, <3>7 DEF AllocInv, AllocTypes
    <2>14. ASSUME NEW d \in Alloc!CPUs PROVE ProgramOK(d)' /\ EndKnown(d)' /\ AppendOK(d)'
        <3>1. ProgramOK(d) /\ EndKnown(d) /\ AppendOK(d)
            BY DEF AllocInv
        <3>2. CASE d # c
            <4>1. ProgramOK(d)' /\ EndKnown(d)'
                BY <1>3, <2>5, <2>12, <3>1, <3>2, OtherCpu
            <4>2. AppendOK(d)'
                BY <1>3, <2>12, <3>1, <3>2 DEF AppendOK
            <4>3. QED
                BY <4>1, <4>2
        <3>3. CASE d = c
            <4>1. ProgramOK(c)'
                <5>1. Len(<<target, w>>) = 2
                    OBVIOUS
                <5>2. QED
                    BY <1>3, <2>9, <2>10, <2>11, <2>12, <3>1, <3>3, <5>1 DEF ProgramOK, Before
            <4>2. EndKnown(c)'
                BY <1>3, <2>12, <3>1, <3>3 DEF EndKnown
            <4>3. ASSUME q.why = "append"
                  PROVE  /\ slice.len = slice.cap /\ Len(q.sizes) = 1
                         /\ Alloc!GoHeap < q.block[1]
                                /\ q.block[1] + slice.len + 1 \in Alloc!Locations
                <5>1. slice.len = slice.cap /\ q.sizes = <<slice.len + 1>>
                    BY <1>3, <2>9, <2>11, <3>1, <3>3, <4>3 DEF AppendOK, Before
                <5>2. slice.len + 1 = size
                    BY <2>4, <2>9, <2>11, <4>3
                <5>3. q.block[1] = target
                    BY <2>11
                <5>4. target + slice.len + 1 \in Alloc!Locations
                    <6>1. size <= PageSize
                        BY <2>4, <2>7
                    <6>2. target + slice.len + 1 = target + size
                        BY <2>6, <2>7, <5>2
                    <6>3. QED
                        BY <2>7, <6>1, <6>2 DEF Alloc!Locations
                <5>5. QED
                    BY <2>7, <5>1, <5>3, <5>4
            <4>4. AppendOK(c)'
                BY <1>3, <2>10, <2>12, <4>3 DEF AppendOK, Before
            <4>5. QED
                BY <3>3, <4>1, <4>2, <4>4
        <3>4. QED
            BY <3>2, <3>3
    <2>15. ASSUME c \notin emptied'
           PROVE  /\ c \notin emptied /\ Alloc!PartStart(c) <= target /\ start[c] <= target
                  /\ target + size <= Alloc!PartEnd(c) /\ \A b \in blocks[c] : b.last < target
                  /\ target + size <= next /\ next <= Alloc!PartEnd(c)
        <3>1. c \notin emptied /\ (asked = 0 => size = 1 /\ start[c] # end[c])
            BY <2>4, <2>5, <2>15
        <3>2. QED
            BY <1>1, <1>2, <1>3, <2>4, <2>8, <3>1, BlockFits
    <2>16. ASSUME NEW d \in Alloc!CPUs \ emptied' PROVE PartOK(d)'
        <3>1. d \notin emptied /\ PartOK(d)
            BY <2>5, <2>16 DEF AllocInv
        <3>2. CASE d # c
            BY <1>3, <2>5, <2>12, <3>1, <3>2, OtherCpu
        <3>3. CASE d = c
            <4>1. /\ Alloc!PartStart(c) <= target /\ target + size <= Alloc!PartEnd(c)
                  /\ \A b \in blocks[c] : b.last < target
                  /\ target + size <= next /\ next <= Alloc!PartEnd(c)
                BY <2>15, <2>16, <3>3
            <4>2. Alloc!PartStart(c) \in Nat /\ Alloc!PartEnd(c) \in Nat
                BY Parts
            <4>3. /\ block.first = target /\ block.last = target + size - 1
                  /\ \A b \in blocks[c] : b.last \in Nat /\ b.first \in Nat
                BY <2>6 DEF Blocks
            <4> HIDE DEF block
            <4>4. ASSUME NEW b \in blocks'[c]
                  PROVE  /\ Alloc!PartStart(c) <= b.first /\ b.first <= b.last
                         /\ b.last < Alloc!PartEnd(c) /\ b.last < next
                <5>1. CASE b = block
                    BY <2>4, <2>7, <2>8, <4>1, <4>2, <4>3, <5>1
                <5>2. CASE b \in blocks[c]
                    <6>1. Alloc!PartStart(c) <= b.first /\ b.first <= b.last
                              /\ b.last < Alloc!PartEnd(c)
                        BY <3>1, <3>3, <5>2 DEF PartOK
                    <6>2. b.last < next
                        BY <2>7, <2>8, <4>1, <4>3, <5>2
                    <6>3. QED
                        BY <6>1, <6>2
                <5>3. QED
                    BY <2>12, <5>1, <5>2
            <4>5. ASSUME NEW b \in blocks'[c], NEW two \in blocks'[c]
                  PROVE  b = two \/ b.last < two.first \/ two.last < b.first
                <5>1. CASE b \in blocks[c] /\ two \in blocks[c]
                    BY <3>1, <3>3, <5>1 DEF PartOK
                <5>2. CASE b = block \/ two = block
                    BY <2>12, <4>1, <4>3, <5>2
                <5>3. QED
                    BY <2>12, <5>1, <5>2
            <4>6. Alloc!PartStart(c) <= next
                BY <2>7, <2>8, <4>1, <4>2
            <4>7. Behind(c, start[c])'
                BY <2>12, <4>1, <4>4, <4>6 DEF Behind
            <4>8. QED
                BY <2>12, <3>3, <4>4, <4>5, <4>7 DEF PartOK
        <3>4. QED
            BY <3>2, <3>3
    <2>17. SliceOK'
        <3>1. \A d \in Alloc!CPUs : alloc_prog'[d].why = alloc_prog[d].why
            BY <2>9, <2>10, <2>11, <2>12
        <3>2. QED
            BY <1>3, <3>1 DEF AllocInv, SliceOK
    <2>18. ASSUME emptied' = {}, ~recycled
           PROVE  ArraySafe' /\ \A d \in Alloc!CPUs : AppendSafe(d)'
        <3>1. emptied = {} /\ c \notin emptied'
            BY <2>5, <2>18
        <3>2. /\ Alloc!PartStart(c) <= target /\ start[c] <= target
              /\ target + size <= Alloc!PartEnd(c)
              /\ target + size <= next /\ next <= Alloc!PartEnd(c)
            BY <2>15, <3>1
        <3>3. ArraySafe /\ \A d \in Alloc!CPUs : AppendSafe(d) /\ ProgramOK(d)
            BY <2>18, <3>1 DEF AllocInv
        <3>4. ASSUME NEW d \in Alloc!CPUs, NEW lo \in Int, NEW hi \in Int, Safe(d, lo, hi)
              PROVE  /\ Safe(d, lo, hi)'
                     /\ \A a \in lo..hi : a \notin target..(target + size - 1)
            <4>1. /\ Alloc!PartStart(c) \in Nat /\ Alloc!PartEnd(c) \in Nat
                  /\ Alloc!PartStart(d) \in Nat /\ Alloc!PartEnd(d) \in Nat
                BY Parts
            <4>2. Alloc!PartStart(d) <= lo /\ hi < Alloc!PartEnd(d)
                BY <3>4 DEF Safe
            <4>3. CASE d # c
                <5>1. Safe(d, lo, hi)'
                    BY <1>3, <2>12, <3>4, <4>3, SafeKept
                <5>2. Alloc!PartEnd(c) <= Alloc!PartStart(d)
                          \/ Alloc!PartEnd(d) <= Alloc!PartStart(c)
                    BY <4>3, PartsApart
                <5>3. QED
                    BY <2>7, <3>2, <4>1, <4>2, <5>1, <5>2
            <4>4. CASE d = c
                <5>1. hi < start[c] /\ start[c] \in Nat
                    BY <1>3, <2>6, <3>4, <4>4 DEF Safe
                <5>2. hi < next
                    BY <2>4, <2>7, <2>8, <3>2, <5>1
                <5>3. Safe(c, lo, hi)'
                    BY <2>12, <4>2, <4>4, <5>2 DEF Safe
                <5>4. QED
                    BY <2>7, <3>2, <4>4, <5>1, <5>3
            <4>5. QED
                BY <4>3, <4>4
        <3>5. \A a \in Alloc!Locations : a \notin target..(target + size - 1) =>
                  memory'[a] = memory[a]
            BY <2>5
        <3>6. ArraySafe'
            <4>1. PICK lo \in Nat, l \in Nat : lo = slice.array /\ l = slice.len
                BY <2>6
            <4>2. lo = slice'.array /\ l = slice'.len /\ appended' = appended
                BY <1>3, <4>1
            <4>3. lo # Alloc!GoHeap => \E d \in Alloc!CPUs : Safe(d, lo, lo + l - 1)
                BY <3>3, <4>1 DEF ArraySafe
            <4>4. lo # Alloc!GoHeap => \E d \in Alloc!CPUs : Safe(d, lo, lo + l - 1)'
                BY <3>4, <4>1, <4>3
            <4>5. ASSUME NEW i \in 1..l PROVE memory'[lo + i - 1] = memory[lo + i - 1]
                <5>1. lo + i - 1 \notin target..(target + size - 1)
                    <6>1. CASE lo # Alloc!GoHeap
                        BY <3>4, <4>1, <4>3, <6>1
                    <6>2. CASE lo = Alloc!GoHeap
                        <7>1. l <= 1
                            BY <4>1, <6>2 DEF AllocInv, SliceOK
                        <7>2. QED
                            BY <2>7, <4>1, <6>2, <7>1
                    <6>3. QED
                        BY <6>1, <6>2
                <5>2. lo + i - 1 \in Alloc!Locations
                    <6>1. lo + l \in Alloc!Locations
                        BY <4>1 DEF AllocInv, SliceOK
                    <6>2. QED
                        BY <2>7, <4>1, <6>1 DEF Alloc!Locations
                <5>3. QED
                    BY <3>5, <5>1, <5>2
            <4>6. \A i \in 1..l : appended[i] \in {0, memory[lo + i - 1]}
                BY <3>3, <4>1 DEF ArraySafe
            <4>7. QED
                BY <4>2, <4>4, <4>5, <4>6 DEF ArraySafe
        <3>7. ASSUME NEW d \in Alloc!CPUs, alloc_prog'[d].why = "append" PROVE AppendSafe(d)'
            <4>1. CASE d # c
                <5>1. alloc_prog'[d] = alloc_prog[d] /\ alloc_prog[d].why = "append"
                          /\ AppendSafe(d)
                      /\ alloc_at'[d] = alloc_at[d]
                    BY <2>12, <3>3, <3>7, <4>1
                <5>2. CASE alloc_at[d] \in {"update", "done"}
                    <6>1. PICK n \in Nat : n = alloc_prog[d].block[1]
                        BY <2>6, <3>3, <5>2 DEF ProgramOK, Programs
                    <6>2. PICK l \in Nat : l = slice.len
                        BY <2>6
                    <6>3. /\ Safe(d, n, n + l) /\ memory[n + l] = alloc_prog[d].block[2]
                          /\ \A i \in 1..l : appended[i] \in {0, memory[n + i - 1]}
                        BY <5>1, <5>2, <6>1, <6>2 DEF AppendSafe
                    <6>4. n + l + 1 \in Alloc!Locations
                        BY <5>1, <5>2, <6>1, <6>2 DEF AllocInv, AppendOK
                    <6>5. \A a \in n..(n + l) : memory'[a] = memory[a]
                        <7>1. \A a \in n..(n + l) : a \in Alloc!Locations
                            BY <2>7, <6>1, <6>2, <6>4 DEF Alloc!Locations
                        <7>2. \A a \in n..(n + l) : a \notin target..(target + size - 1)
                            BY <3>4, <6>1, <6>2, <6>3
                        <7>3. QED
                            BY <3>5, <7>1, <7>2
                    <6>6. memory'[n + l] = alloc_prog[d].block[2]
                        BY <6>1, <6>2, <6>3, <6>5
                    <6>7. \A i \in 1..l : appended[i] \in {0, memory'[n + i - 1]}
                        BY <6>1, <6>2, <6>3, <6>5
                    <6>8. Safe(d, n, n + l)'
                        BY <3>4, <6>1, <6>2, <6>3
                    <6>9. n = alloc_prog'[d].block[1] /\ l = slice'.len
                        BY <1>3, <5>1, <6>1, <6>2
                    <6>10. alloc_at'[d] \notin Before
                        BY <5>1, <5>2 DEF Before
                    <6>11. QED
                        BY <1>3, <5>1, <6>1, <6>2, <6>6, <6>7, <6>8, <6>9, <6>10 DEF AppendSafe
                <5>3. CASE alloc_at[d] \notin {"update", "done"}
                    BY <1>3, <5>1, <5>3 DEF AppendSafe
                <5>4. QED
                    BY <5>2, <5>3
            <4>2. CASE d = c
                <5>1. q.why = "append" /\ alloc_prog[c].why = "append"
                    BY <2>9, <2>10, <2>11, <3>7, <4>2
                <5>2. PICK l \in Nat : l = slice.len
                    BY <2>6
                <5>3. /\ size = l + 1 /\ content[l + 1] = w
                      /\ \A i \in 1..l : content[i] = alloc_prog[c].buffer[i]
                    BY <2>4, <5>1, <5>2
                <5>4. \A i \in 1..l : appended[i] \in {0, alloc_prog[c].buffer[i]}
                    BY <1>3, <3>3, <5>1, <5>2 DEF AppendSafe, Before
                <5>5. \A i \in 1..size : memory'[target + i - 1] = content[i]
                    <6>1. ASSUME NEW i \in 1..size PROVE memory'[target + i - 1] = content[i]
                        <7>1. PICK a \in Alloc!Locations : a = target + i - 1
                            BY <2>4, <2>7 DEF Alloc!Locations
                        <7>2. a \in target..(target + size - 1) /\ a - target + 1 = i
                            BY <2>7, <7>1
                        <7>3. memory'[a] = content[a - target + 1]
                            BY <2>5, <7>2
                        <7>4. QED
                            BY <7>1, <7>2, <7>3
                    <6>2. QED
                        BY <6>1
                <5>6. memory'[target + l] = w
                    <6>1. l + 1 \in 1..size /\ target + (l + 1) - 1 = target + l
                        BY <2>7, <5>2, <5>3
                    <6>2. QED
                        BY <5>3, <5>5, <6>1
                <5>7. \A i \in 1..l : appended[i] \in {0, memory'[target + i - 1]}
                    BY <5>2, <5>3, <5>4, <5>5
                <5>8. Safe(c, target, target + l)'
                    <6>1. Alloc!PartStart(c) \in Nat /\ Alloc!PartEnd(c) \in Nat
                        BY Parts
                    <6>2. target + l < Alloc!PartEnd(c) /\ target + l < next
                        BY <2>7, <2>8, <3>2, <5>2, <5>3, <6>1
                    <6>3. QED
                        BY <2>12, <3>2, <6>2 DEF Safe
                <5>9. alloc_prog'[c].block[1] = target /\ alloc_prog'[c].block[2] = w
                          /\ slice'.len = l
                    BY <1>3, <2>10, <2>11, <5>2
                <5>10. "update" \notin Before
                    BY DEF Before
                <5>11. QED
                    BY <1>3, <2>12, <4>2, <5>6, <5>7, <5>8, <5>9, <5>10 DEF AppendSafe
            <4>3. QED
                BY <4>1, <4>2
        <3>8. QED
            BY <3>6, <3>7 DEF AppendSafe
    <2>19. QED
        BY <1>3, <2>13, <2>14, <2>16, <2>17, <2>18 DEF AllocInv
<1>6. QED
    BY <1>4, <1>5
-----------------------------------------------------------------------------
(* Every step keeps the parts and the slice as they should be.               *)
LEMMA AllocStep ==
    ASSUME Alloc!AllocAssumption, AllocInv, [Alloc!Next]_(Alloc!tavars)
    PROVE  AllocInv'
<1>1. CASE UNCHANGED Alloc!tavars
    <2>1. AllocTypes' /\ SliceOK'
        BY <1>1 DEF Alloc!tavars, AllocInv, AllocTypes, SliceOK
    <2>2. ASSUME NEW c \in Alloc!CPUs PROVE ProgramOK(c)' /\ EndKnown(c)' /\ AppendOK(c)'
        BY <1>1, OtherCpu DEF Alloc!tavars, AllocInv, AppendOK
    <2>3. ASSUME NEW c \in Alloc!CPUs \ emptied PROVE PartOK(c)'
        BY <1>1, OtherCpu DEF Alloc!tavars, AllocInv
    <2>4. ASSUME emptied = {}, ~recycled PROVE ArraySafe' /\ \A d \in Alloc!CPUs : AppendSafe(d)'
        <3>1. ArraySafe /\ \A d \in Alloc!CPUs : AppendSafe(d) /\ ProgramOK(d)
            BY <2>4 DEF AllocInv
        <3>2. ASSUME NEW d \in Alloc!CPUs, NEW lo \in Int, NEW hi \in Int, Safe(d, lo, hi)
              PROVE  Safe(d, lo, hi)'
            BY <1>1, <3>2, SafeKept DEF Alloc!tavars
        <3>3. \A d \in Alloc!CPUs : alloc_prog'[d].why = "append" =>
                /\ alloc_prog[d].why = "append" /\ alloc_prog'[d].buffer = alloc_prog[d].buffer
                /\ alloc_prog'[d].block = alloc_prog[d].block
                /\ alloc_at'[d] \in Before => alloc_at[d] \in Before
                /\ alloc_at'[d] \in {"update", "done"} => alloc_at[d] \in {"update", "done"}
            BY <1>1 DEF Alloc!tavars
        <3>4. UNCHANGED <<memory, slice, appended>> /\ AllocTypes
            BY <1>1 DEF Alloc!tavars, AllocInv
        <3>5. QED
            BY <3>1, <3>2, <3>3, <3>4, ArraysKept
    <2>5. emptied' = emptied /\ recycled' = recycled
        BY <1>1 DEF Alloc!tavars
    <2>6. QED
        BY <2>1, <2>2, <2>3, <2>4, <2>5 DEF AllocInv
<1>2. CASE Alloc!Next
    <2>1. PICK c \in Alloc!CPUs :
            \/ Alloc!WriteUserGoString(c) \/ Alloc!AppendInPlace(c) \/ Alloc!AppendGrows(c)
            \/ Alloc!GetAreaStart(c) \/ Alloc!StoreAreaStart(c) \/ Alloc!Check(c)
            \/ Alloc!WriteTarget(c) \/ Alloc!UpdateStart(c) \/ Alloc!Finish(c)
        BY <1>2 DEF Alloc!Next
    <2>2. CASE Alloc!WriteUserGoString(c) \/ Alloc!AppendGrows(c)
        BY <2>2, Begins
    <2>3. CASE Alloc!AppendInPlace(c)
        BY <2>3, AppendsInPlace
    <2>4. CASE Alloc!GetAreaStart(c)
        BY <2>4, LooksUp
    <2>5. CASE Alloc!StoreAreaStart(c)
        BY <2>5, Stores
    <2>6. CASE Alloc!Check(c)
        BY <2>6, Checks
    <2>7. CASE Alloc!WriteTarget(c)
        BY <2>7, Writes
    <2>8. CASE Alloc!UpdateStart(c)
        BY <2>8, Updates
    <2>9. CASE Alloc!Finish(c)
        BY <2>9, Finishes
    <2>10. QED
        BY <2>1, <2>2, <2>3, <2>4, <2>5, <2>6, <2>7, <2>8, <2>9
<1>3. QED
    BY <1>1, <1>2

LEMMA AllocSafe ==
    ASSUME AllocInv
    PROVE  Alloc!WithinPart /\ Alloc!NoOverlap /\ Alloc!SliceIntact
<1>1. Alloc!WithinPart
    BY DEF Alloc!WithinPart, AllocInv, PartOK
<1>2. Alloc!NoOverlap
    <2>1. ASSUME emptied = {}, NEW c \in Alloc!CPUs, NEW one \in blocks[c], NEW two \in blocks[c]
          PROVE  one = two \/ one.last < two.first \/ two.last < one.first
        BY <2>1 DEF AllocInv, PartOK
    <2>2. QED
        BY <2>1 DEF Alloc!NoOverlap
<1>3. Alloc!SliceIntact
    BY DEF Alloc!SliceIntact, AllocInv, ArraySafe
<1>4. QED
    BY <1>1, <1>2, <1>3

-----------------------------------------------------------------------------
(* go_context.h, uprobe.h and sampling.h: the spans of the tracing probes.   *)

Scs == {s.sc : s \in spans}
SpanEvents == [sc : Span!AnySpan, psc : Span!AnySpan \cup {None}]
Registers == [cur : Contexts \cup {None}, steps : Nat, sc : Span!AnySpan \cup {None},
              psc : Span!AnySpan \cup {None}, parent_ctx : Contexts \cup {None}]

Entering == {"event", "track", "index"}
Leaving == {"stop", "parent", "context", "untrack", "forget"}

SpanTypes ==
    /\ sampler \in Samplers
    /\ go_context_to_sc \in [Contexts -> Span!AnySpan \cup {None}]
    /\ tracked_spans_by_sc \in [DOMAIN tracked_spans_by_sc -> Contexts]
    /\ uprobe_context \in [Probes \X Span!Keys -> SpanEvents \cup {None}]
    /\ span_calls \in [Goroutines -> Seq([probe : Probes, ctx : Contexts])]
    /\ span_at \in [Goroutines -> {"code", "walk", "read"} \cup Entering \cup Leaving]
    /\ reg \in [Goroutines -> Registers]
    /\ leaving \subseteq Scs /\ leftover \subseteq Contexts

(* A new span has an identity that no other has, and is sampled as its trace *)
(* is.                                                                       *)
SpansNumbered ==
    /\ Span!IsFiniteSet(spans)
    /\ \A s \in spans :
        /\ s.sc \in Span!AnySpan /\ s.sc.id <= Span!Cardinality(spans)
        /\ sampler.type # "PARENT_BASED" =>
               s.sc.sampled = Span!decides(sampler, s.sc.trace)

(* A span context is in use only for spans that were started.                *)
OnlySpans ==
    /\ \A c \in Contexts : go_context_to_sc[c] \in Scs \cup {None}
    /\ DOMAIN tracked_spans_by_sc \subseteq Scs
    /\ \A pk \in Probes \X Span!Keys :
        uprobe_context[pk] # None => uprobe_context[pk].sc \in Scs
    /\ \A g \in Goroutines : reg[g].sc \in Scs \cup {None}

(* Where a probe is, and what it has done.                                   *)
ProbeOK(g) ==
    /\ span_at[g] # "code" => span_calls[g] # <<>>
    /\ \A i, j \in 1..Len(span_calls[g]) :
        span_calls[g][i].probe = span_calls[g][j].probe => i = j
    /\ span_at[g] \in {"code", "walk", "read"} => reg[g].sc = None
    /\ span_at[g] = "read" => reg[g].cur # None
    /\ span_at[g] \in Entering =>
        reg[g].sc # None /\ reg[g].sc \notin leaving \cup DOMAIN tracked_spans_by_sc
    /\ span_at[g] \in {"walk", "read", "event"} => uprobe_context[Span!PlaceOf(g)] = None
    /\ span_at[g] \in (Entering \cup Leaving) \ {"event"} =>
        uprobe_context[Span!PlaceOf(g)] = [sc |-> reg[g].sc, psc |-> reg[g].psc]
    /\ span_at[g] \in Leaving => reg[g].sc \in leaving
    /\ span_at[g] \in {"parent", "context", "untrack"} =>
        reg[g].sc \in DOMAIN tracked_spans_by_sc
    /\ span_at[g] = "forget" => reg[g].sc \notin DOMAIN tracked_spans_by_sc
    /\ (span_at[g] = "context" /\ reg[g].parent_ctx # None /\ reg[g].psc \notin leaving) =>
        /\ reg[g].psc \in DOMAIN tracked_spans_by_sc
        /\ tracked_spans_by_sc[reg[g].psc] = reg[g].parent_ctx

(* An event belongs to a call of its goroutine, and no two share a span.     *)
OneEvent ==
    /\ \A p \in Probes, k \in Span!Keys : uprobe_context[<<p, k>>] # None =>
        k \in Goroutines /\ \E i \in 1..Len(span_calls[k]) : span_calls[k][i].probe = p
    /\ \A pk, qk \in Probes \X Span!Keys :
        (uprobe_context[pk] # None /\ uprobe_context[qk] # None
            /\ uprobe_context[pk].sc = uprobe_context[qk].sc) => pk = qk
    /\ \A g \in Goroutines : span_at[g] = "event" => \A pk \in Probes \X Span!Keys :
        uprobe_context[pk] # None => uprobe_context[pk].sc # reg[g].sc
    /\ \A g, h \in Goroutines : reg[g].sc = reg[h].sc => g = h \/ reg[g].sc = None

(* A tracked span has its event, and one that is ending is in the hands of   *)
(* its return probe.                                                         *)
Held ==
    \A sc \in DOMAIN tracked_spans_by_sc :
        /\ \E pk \in Probes \X Span!Keys :
            uprobe_context[pk] # None /\ uprobe_context[pk].sc = sc
        /\ sc \in leaving => \E g \in Goroutines : reg[g].sc = sc

(* The span registered for a context is tracked, or about to be, and has not *)
(* given the context back; otherwise the context is known to be left behind. *)
ContextExplained(c) ==
    LET sc == go_context_to_sc[c]
    IN  \/ sc = None \/ c \in leftover
        \/ \E g \in Goroutines : span_at[g] = "index" /\ reg[g].sc = sc /\ Span!CtxOf(g) = c
        \/ /\ sc \in DOMAIN tracked_spans_by_sc /\ tracked_spans_by_sc[sc] = c
           /\ \A g \in Goroutines : span_at[g] = "untrack" => reg[g].sc # sc

SpanInv ==
    /\ SpanTypes /\ SpansNumbered /\ OnlySpans
    /\ \A g \in Goroutines : ProbeOK(g)
    /\ OneEvent /\ Held
    /\ \A c \in Contexts : ContextExplained(c)
    /\ Span!NoDeadParent /\ Span!TraceIsWhole

LEMMA PlaceIs ==
    ASSUME NEW g
    PROVE  /\ Span!PlaceOf(g) = <<Head(span_calls[g]).probe, g>>
           /\ Span!PlaceOf(g)' = <<Head(span_calls'[g]).probe, g>>
           /\ Span!CtxOf(g) = Head(span_calls[g]).ctx
           /\ Span!CtxOf(g)' = Head(span_calls'[g]).ctx
BY DEF Span!PlaceOf, Span!get_consistent_key, Span!CtxOf

Calls == [probe : Probes, ctx : Contexts]
LEMMA PushCall ==
    ASSUME NEW s \in Seq(Calls), NEW c \in Calls
    PROVE  /\ <<c>> \o s \in Seq(Calls) /\ Len(<<c>> \o s) = Len(s) + 1 /\ Len(s) \in Nat
           /\ (<<c>> \o s)[1] = c /\ <<c>> \o s # <<>> /\ Head(<<c>> \o s) = c
           /\ \A i \in 1..Len(s) : i + 1 \in 1..(Len(s) + 1) /\ (<<c>> \o s)[i + 1] = s[i]
           /\ \A i \in 1..(Len(s) + 1) : i # 1 =>
                i - 1 \in 1..Len(s) /\ (<<c>> \o s)[i] = s[i - 1]
OBVIOUS

LEMMA PopCall ==
    ASSUME NEW s \in Seq(Calls), s # <<>>
    PROVE  /\ Tail(s) \in Seq(Calls) /\ Len(Tail(s)) = Len(s) - 1 /\ Len(s) \in Nat
           /\ 1 \in 1..Len(s) /\ Head(s) = s[1] /\ Head(s) \in Calls
           /\ \A i \in 1..Len(Tail(s)) : i + 1 \in 1..Len(s) /\ Tail(s)[i] = s[i + 1]
           /\ \A i \in 1..Len(s) : i # 1 =>
                i - 1 \in 1..Len(Tail(s)) /\ Tail(s)[i - 1] = s[i]
OBVIOUS

LEMMA SpanInit == ASSUME Span!SpanAssumption, Span!Init PROVE SpanInv
<1>1. /\ spans = {} /\ leaving = {} /\ leftover = {} /\ tracked_spans_by_sc = <<>>
      /\ go_context_to_sc = [c \in Contexts |-> None]
      /\ uprobe_context = [pk \in Probes \X Span!Keys |-> None]
      /\ span_calls = [g \in Goroutines |-> <<>>]
      /\ span_at = [g \in Goroutines |-> "code"] /\ reg = [g \in Goroutines |-> Span!Clear]
      /\ sampler \in Samplers
    BY DEF Span!Init
<1>2. \A g \in Goroutines : span_calls[g] = <<>> /\ Len(span_calls[g]) = 0 /\ span_at[g] = "code"
          /\ reg[g] = Span!Clear /\ reg[g].sc = None
    BY <1>1 DEF Span!Clear
<1>3. DOMAIN tracked_spans_by_sc = {}
    BY <1>1
<1>4. SpanTypes
    <2>1. Span!Clear \in Registers
        BY DEF Registers, Span!Clear
    <2>2. <<>> \in Seq(Calls)
        OBVIOUS
    <2>3. tracked_spans_by_sc \in [{} -> Contexts]
        BY <1>1
    <2>4. tracked_spans_by_sc \in [DOMAIN tracked_spans_by_sc -> Contexts]
        BY <1>3, <2>3
    <2>5. /\ go_context_to_sc \in [Contexts -> Span!AnySpan \cup {None}]
          /\ uprobe_context \in [Probes \X Span!Keys -> SpanEvents \cup {None}]
        BY <1>1
    <2>6. span_calls \in [Goroutines -> Seq(Calls)]
        BY <1>1, <2>2
    <2>9. span_at \in [Goroutines -> {"code", "walk", "read"} \cup Entering \cup Leaving]
        BY <1>1
    <2>7. reg \in [Goroutines -> Registers]
        BY <1>1, <2>1
    <2>8. QED
        BY <1>1, <2>4, <2>5, <2>6, <2>7, <2>9 DEF SpanTypes, Calls
<1>5. SpansNumbered
    <2>1. Span!IsFiniteSet({})
        BY FS_EmptySet DEF Span!IsFiniteSet, IsFiniteSet
    <2>2. QED
        BY <1>1, <2>1 DEF SpansNumbered
<1>6. OnlySpans
    BY <1>1, <1>2, <1>3 DEF OnlySpans
<1>7. ASSUME NEW g \in Goroutines PROVE ProbeOK(g)
    BY <1>2 DEF ProbeOK, Entering, Leaving
<1>8. OneEvent
    <2>1. \A p \in Probes, k \in Span!Keys : uprobe_context[<<p, k>>] = None
        BY <1>1
    <2>2. \A pk \in Probes \X Span!Keys : uprobe_context[pk] = None
        BY <1>1
    <2>3. QED
        BY <1>2, <2>1, <2>2 DEF OneEvent
<1>9. Held
    BY <1>3 DEF Held
<1>10. ASSUME NEW c \in Contexts PROVE ContextExplained(c)
    BY <1>1 DEF ContextExplained
<1>11. Span!NoDeadParent /\ Span!TraceIsWhole
    BY <1>1 DEF Span!NoDeadParent, Span!TraceIsWhole
<1>12. QED
    BY <1>4, <1>5, <1>6, <1>7, <1>8, <1>9, <1>10, <1>11 DEF SpanInv

(* What a quiet state says.                                                  *)
LEMMA SpanLeaves ==
    ASSUME Span!SpanAssumption, SpanInv
    PROVE  /\ Span!NoSpanLeft /\ Span!ContextsLeftExplained
           /\ Span!NoDeadParent /\ Span!TraceIsWhole
<1>1. SpanTypes /\ OneEvent /\ Held /\ \A c \in Contexts : ContextExplained(c)
    BY DEF SpanInv
<1>2. ASSUME Span!Quiet, NEW pk \in Probes \X Span!Keys PROVE uprobe_context[pk] = None
    <2>1. PICK p \in Probes, k \in Span!Keys : pk = <<p, k>>
        OBVIOUS
    <2>2. SUFFICES ASSUME uprobe_context[pk] # None PROVE FALSE
        OBVIOUS
    <2>3. k \in Goroutines /\ \E i \in 1..Len(span_calls[k]) : span_calls[k][i].probe = p
        BY <1>1, <2>1, <2>2 DEF OneEvent
    <2>4. span_calls[k] = <<>>
        BY <1>2, <2>3 DEF Span!Quiet
    <2>5. Len(span_calls[k]) = 0
        BY <2>4
    <2>6. QED
        BY <2>3, <2>5
<1>3. ASSUME Span!Quiet PROVE DOMAIN tracked_spans_by_sc = {}
    BY <1>1, <1>2, <1>3 DEF Held
<1>4. Span!NoSpanLeft
    <2>1. ASSUME Span!Quiet PROVE tracked_spans_by_sc = <<>>
        <3>1. tracked_spans_by_sc \in [{} -> Contexts]
            BY <2>1, <1>1, <1>3 DEF SpanTypes
        <3>2. QED
            BY <3>1
    <2>2. QED
        BY <2>1, <1>2 DEF Span!NoSpanLeft
<1>5. Span!ContextsLeftExplained
    <2>1. ASSUME Span!Quiet, NEW c \in Contexts, go_context_to_sc[c] # None PROVE c \in leftover
        <3>1. ASSUME NEW g \in Goroutines PROVE span_at[g] # "index"
            BY <2>1, <3>1 DEF Span!Quiet, SpanInv, ProbeOK
        <3>2. QED
            BY <1>1, <1>3, <2>1, <3>1 DEF ContextExplained
    <2>2. QED
        BY <2>1 DEF Span!ContextsLeftExplained, Span!ContextsIn
<1>6. QED
    BY <1>4, <1>5 DEF SpanInv

(* Spans that were started stay as they are.                                 *)
LEMMA SameSpans ==
    ASSUME SpanInv, spans' = spans, sampler' = sampler, leftover \subseteq leftover'
    PROVE  SpansNumbered' /\ Span!NoDeadParent' /\ Span!TraceIsWhole' /\ Scs' = Scs
<1>1. SpansNumbered /\ Span!NoDeadParent /\ Span!TraceIsWhole
    BY DEF SpanInv
<1>2. SpansNumbered'
    BY <1>1 DEF SpansNumbered, Span!decides
<1>3. Span!NoDeadParent' /\ Span!TraceIsWhole' /\ Scs' = Scs
    BY <1>1 DEF Span!NoDeadParent, Span!TraceIsWhole, Scs
<1>4. QED
    BY <1>2, <1>3

(* A probe's own place, and its registers.                                   *)
LEMMA OwnProbe ==
    ASSUME Span!SpanAssumption, SpanInv, NEW g \in Goroutines
    PROVE  /\ span_calls[g] \in Seq(Calls) /\ reg[g] \in Registers /\ g \in Span!Keys
           /\ span_calls[g] # <<>> =>
                /\ Span!PlaceOf(g) = <<Head(span_calls[g]).probe, g>>
                /\ Span!PlaceOf(g) \in Probes \X Span!Keys
                /\ Head(span_calls[g]) \in Calls /\ Span!CtxOf(g) \in Contexts
           /\ None \notin leaving /\ None \notin DOMAIN tracked_spans_by_sc /\ None \notin Scs
           /\ reg[g].sc # None => reg[g].sc \in Scs /\ reg[g].sc \in Span!AnySpan
<1>1. SpanTypes /\ OnlySpans /\ SpansNumbered
    BY DEF SpanInv
<1>2. span_calls[g] \in Seq(Calls) /\ reg[g] \in Registers /\ g \in Span!Keys
    BY <1>1 DEF SpanTypes, Calls, Span!Keys
<1>3. Scs \subseteq Span!AnySpan /\ None \notin Span!AnySpan
    BY <1>1 DEF SpansNumbered, Scs, Span!SpanAssumption
<1>4. span_calls[g] # <<>> => Head(span_calls[g]) \in Calls
    BY <1>2, PopCall
<1>5. span_calls[g] # <<>> => /\ Span!PlaceOf(g) = <<Head(span_calls[g]).probe, g>>
                              /\ Span!PlaceOf(g) \in Probes \X Span!Keys
                              /\ Span!CtxOf(g) \in Contexts
    BY <1>2, <1>4, PlaceIs DEF Calls
<1>6. QED
    BY <1>1, <1>2, <1>3, <1>4, <1>5 DEF SpanTypes, OnlySpans

(* What one probe does leaves the others where they are.                     *)
LEMMA OtherProbes ==
    ASSUME Span!SpanAssumption, SpanInv, NEW g \in Goroutines, NEW h \in Goroutines, h # g,
           span_at'[h] = span_at[h], span_calls'[h] = span_calls[h], reg'[h] = reg[h],
           \A p \in Probes : uprobe_context'[<<p, h>>] = uprobe_context[<<p, h>>],
           leaving \subseteq leaving',
           \A sc \in leaving' : \/ sc \in leaving
               \/ \E p \in Probes : uprobe_context[<<p, g>>] # None
                      /\ uprobe_context[<<p, g>>].sc = sc,
           \A sc : (sc # reg[g].sc \/ sc = None) =>
               /\ sc \in DOMAIN tracked_spans_by_sc' <=> sc \in DOMAIN tracked_spans_by_sc
               /\ tracked_spans_by_sc'[sc] = tracked_spans_by_sc[sc]
    PROVE  ProbeOK(h)'
<1>1. SpanTypes /\ OnlySpans /\ OneEvent /\ SpansNumbered
    BY DEF SpanInv
<1>2. ProbeOK(h) /\ ProbeOK(g)
    BY DEF SpanInv
<1>3. Span!PlaceOf(h)' = Span!PlaceOf(h)
    BY PlaceIs
<1>4. span_at[h] # "code" =>
          /\ Head(span_calls[h]).probe \in Probes
          /\ Span!PlaceOf(h) \in Probes \X Span!Keys
          /\ uprobe_context'[Span!PlaceOf(h)] = uprobe_context[Span!PlaceOf(h)]
    <2>1. span_at[h] # "code" => span_calls[h] # <<>>
        BY <1>2 DEF ProbeOK
    <2>2. span_calls[h] \in Seq(Calls)
        BY <1>1 DEF SpanTypes, Calls
    <2>3. span_at[h] # "code" => Head(span_calls[h]).probe \in Probes
        BY <2>1, <2>2, PopCall DEF Calls
    <2>4. h \in Span!Keys
        BY DEF Span!Keys
    <2>5. QED
        BY <2>3, <2>4, PlaceIs
\* A span that another probe is about to track is not the one that g gives up.
<1>5. span_at[h] \in Entering => reg[h].sc \notin leaving'
    <2>1. SUFFICES ASSUME span_at[h] \in Entering, reg[h].sc \in leaving' PROVE FALSE
        OBVIOUS
    <2>2. reg[h].sc \notin leaving
        BY <1>2, <2>1 DEF ProbeOK
    <2>3. PICK p \in Probes : uprobe_context[<<p, g>>] # None
              /\ uprobe_context[<<p, g>>].sc = reg[h].sc
        BY <2>1, <2>2
    <2>4. <<p, g>> \in Probes \X Span!Keys /\ h \in Span!Keys
        BY DEF Span!Keys
    <2>5. CASE span_at[h] = "event"
        BY <1>1, <2>3, <2>4, <2>5 DEF OneEvent
    <2>6. CASE span_at[h] # "event"
        <3>1. uprobe_context[Span!PlaceOf(h)] = [sc |-> reg[h].sc, psc |-> reg[h].psc]
            BY <1>2, <2>1, <2>6 DEF ProbeOK
        <3>2. Span!PlaceOf(h) \in Probes \X Span!Keys
            BY <1>4, <2>1 DEF Entering
        <3>3. reg[h] \in Registers /\ reg[h].sc \in Span!AnySpan
            BY <1>1, <1>2, <2>1 DEF SpanTypes, ProbeOK, Registers
        <3>4. uprobe_context[Span!PlaceOf(h)] # None
            BY <3>1, <3>3 DEF Span!SpanAssumption, Registers
        <3>5. Span!PlaceOf(h) = <<p, g>>
            BY <1>1, <2>3, <2>4, <3>1, <3>2, <3>4 DEF OneEvent
        <3>6. QED
            BY <3>5, PlaceIs
    <2>7. QED
        BY <2>5, <2>6
<1>6. /\ reg[h].sc \in DOMAIN tracked_spans_by_sc' <=> reg[h].sc \in DOMAIN tracked_spans_by_sc
      /\ tracked_spans_by_sc'[reg[h].sc] = tracked_spans_by_sc[reg[h].sc]
    <2>1. reg[h].sc # reg[g].sc \/ reg[h].sc = None
        BY <1>1 DEF OneEvent
    <2>2. QED
        BY <2>1
<1>7. (span_at[h] = "context" /\ reg[h].parent_ctx # None /\ reg[h].psc \notin leaving') =>
        /\ reg[h].psc \in DOMAIN tracked_spans_by_sc'
        /\ tracked_spans_by_sc'[reg[h].psc] = reg[h].parent_ctx
    <2>1. SUFFICES ASSUME span_at[h] = "context", reg[h].parent_ctx # None,
                          reg[h].psc \notin leaving'
                   PROVE  /\ reg[h].psc \in DOMAIN tracked_spans_by_sc'
                          /\ tracked_spans_by_sc'[reg[h].psc] = reg[h].parent_ctx
        OBVIOUS
    <2>2. /\ reg[h].psc \in DOMAIN tracked_spans_by_sc
          /\ tracked_spans_by_sc[reg[h].psc] = reg[h].parent_ctx
        BY <1>2, <2>1 DEF ProbeOK
    <2>3. CASE reg[h].psc # reg[g].sc
        BY <2>2, <2>3
    <2>4. CASE reg[h].psc = reg[g].sc
        <3>1. reg[g].sc \notin leaving /\ reg[g].sc # None
            BY <2>1, <2>2, <2>4, OwnProbe
        <3>2. span_at[g] \in {"code", "walk", "read"} \cup Entering \cup Leaving
            BY <1>1 DEF SpanTypes
        <3>3. QED
            BY <1>2, <2>2, <2>4, <3>1, <3>2 DEF ProbeOK
    <2>5. QED
        BY <2>3, <2>4
<1>8. QED
    <2>1. /\ span_at'[h] = "context" /\ reg'[h].parent_ctx # None /\ reg'[h].psc \notin leaving'
          => /\ reg'[h].psc \in DOMAIN tracked_spans_by_sc'
             /\ tracked_spans_by_sc'[reg'[h].psc] = reg'[h].parent_ctx
        BY <1>7
    <2>2. /\ span_at'[h] \in {"walk", "read", "event"} => uprobe_context'[Span!PlaceOf(h)'] = None
          /\ span_at'[h] \in (Entering \cup Leaving) \ {"event"} =>
                uprobe_context'[Span!PlaceOf(h)'] = [sc |-> reg'[h].sc, psc |-> reg'[h].psc]
        BY <1>2, <1>3, <1>4 DEF ProbeOK, Entering, Leaving
    <2>3. /\ span_at'[h] \in Entering =>
                reg'[h].sc # None /\ reg'[h].sc \notin leaving' \cup DOMAIN tracked_spans_by_sc'
          /\ span_at'[h] \in Leaving => reg'[h].sc \in leaving'
          /\ span_at'[h] \in {"parent", "context", "untrack"} =>
                reg'[h].sc \in DOMAIN tracked_spans_by_sc'
          /\ span_at'[h] = "forget" => reg'[h].sc \notin DOMAIN tracked_spans_by_sc'
        BY <1>2, <1>5, <1>6 DEF ProbeOK, Entering, Leaving
    <2>4. QED
        BY <1>2, <2>1, <2>2, <2>3 DEF ProbeOK, Entering, Leaving

(* What is said of events, of tracked spans and of contexts where a step     *)
(* does not change them.                                                     *)
LEMMA EventsStay ==
    ASSUME OneEvent, uprobe_context' = uprobe_context,
           \A h \in Goroutines :
               /\ span_at'[h] = "event" => span_at[h] = "event"
               /\ reg'[h].sc \in {reg[h].sc, None},
           \A h \in Goroutines : \A i \in 1..Len(span_calls[h]) :
               \/ \E j \in 1..Len(span_calls'[h]) :
                      span_calls'[h][j].probe = span_calls[h][i].probe
               \/ uprobe_context[<<span_calls[h][i].probe, h>>] = None,
           \A h \in Goroutines : span_at'[h] = "event" => reg'[h].sc = reg[h].sc
    PROVE  OneEvent'
<1>1. ASSUME NEW p \in Probes, NEW k \in Span!Keys, uprobe_context'[<<p, k>>] # None
      PROVE  k \in Goroutines /\ \E i \in 1..Len(span_calls'[k]) : span_calls'[k][i].probe = p
    BY <1>1 DEF OneEvent
<1>2. QED
    BY <1>1 DEF OneEvent

LEMMA HeldStays ==
    ASSUME Held, leaving' = leaving,
           DOMAIN tracked_spans_by_sc' \subseteq DOMAIN tracked_spans_by_sc,
           \A sc \in DOMAIN tracked_spans_by_sc', pk \in Probes \X Span!Keys :
               uprobe_context[pk] # None /\ uprobe_context[pk].sc = sc =>
               uprobe_context'[pk] = uprobe_context[pk],
           \A sc \in DOMAIN tracked_spans_by_sc', h \in Goroutines :
               reg[h].sc = sc => reg'[h].sc = sc \/ sc \notin leaving
    PROVE  Held'
<1>1. ASSUME NEW sc \in DOMAIN tracked_spans_by_sc'
      PROVE  /\ \E pk \in Probes \X Span!Keys :
                    uprobe_context'[pk] # None /\ uprobe_context'[pk].sc = sc
             /\ sc \in leaving' => \E h \in Goroutines : reg'[h].sc = sc
    <2>1. PICK pk \in Probes \X Span!Keys :
              uprobe_context[pk] # None /\ uprobe_context[pk].sc = sc
        BY DEF Held
    <2>2. sc \in leaving' => \E h \in Goroutines : reg'[h].sc = sc
        BY DEF Held
    <2>3. QED
        BY <2>1, <2>2
<1>2. QED
    BY <1>1 DEF Held

LEMMA ContextStays ==
    ASSUME NEW c \in Contexts, ContextExplained(c), go_context_to_sc'[c] = go_context_to_sc[c],
           leftover \subseteq leftover',
           \A h \in Goroutines : span_at[h] = "index" =>
               \/ span_at'[h] = "index" /\ reg'[h] = reg[h] /\ span_calls'[h] = span_calls[h]
               \/ reg[h].sc # go_context_to_sc[c],
           go_context_to_sc[c] \in DOMAIN tracked_spans_by_sc =>
               \/ /\ go_context_to_sc[c] \in DOMAIN tracked_spans_by_sc'
                  /\ tracked_spans_by_sc'[go_context_to_sc[c]] =
                         tracked_spans_by_sc[go_context_to_sc[c]]
               \/ \E h \in Goroutines : span_at[h] = "untrack" /\ reg[h].sc = go_context_to_sc[c],
           \A h \in Goroutines : span_at'[h] = "untrack" =>
               \/ span_at[h] = "untrack" /\ reg'[h].sc = reg[h].sc
               \/ reg'[h].sc # go_context_to_sc[c]
    PROVE  ContextExplained(c)'
<1> DEFINE sc == go_context_to_sc[c]
<1>1. CASE sc = None \/ c \in leftover
    BY <1>1 DEF ContextExplained
<1>2. ASSUME NEW h \in Goroutines, span_at[h] = "index", reg[h].sc = sc, Span!CtxOf(h) = c
      PROVE  ContextExplained(c)'
    <2>1. span_at'[h] = "index" /\ reg'[h].sc = sc /\ Span!CtxOf(h)' = c
        BY <1>2, PlaceIs
    <2>2. QED
        BY <2>1 DEF ContextExplained
<1>3. CASE /\ sc \in DOMAIN tracked_spans_by_sc /\ tracked_spans_by_sc[sc] = c
           /\ \A h \in Goroutines : span_at[h] = "untrack" => reg[h].sc # sc
    <2>1. sc \in DOMAIN tracked_spans_by_sc' /\ tracked_spans_by_sc'[sc] = c
        BY <1>3
    <2>2. \A h \in Goroutines : span_at'[h] = "untrack" => reg'[h].sc # sc
        BY <1>3
    <2>3. QED
        BY <2>1, <2>2 DEF ContextExplained
<1>4. QED
    BY <1>1, <1>2, <1>3 DEF ContextExplained

(* The parts of the invariant together.                                      *)
LEMMA SpanParts ==
    ASSUME SpanTypes', SpansNumbered', OnlySpans', \A g \in Goroutines : ProbeOK(g)',
           OneEvent', Held', \A c \in Contexts : ContextExplained(c)',
           Span!NoDeadParent', Span!TraceIsWhole'
    PROVE  SpanInv'
BY DEF SpanInv

LEMMA SpanCall ==
    ASSUME Span!SpanAssumption, SpanInv, NEW g \in Goroutines, Span!Call(g)
    PROVE  SpanInv'
<1>1. SpanTypes /\ SpansNumbered /\ OnlySpans /\ ProbeOK(g) /\ OneEvent /\ Held
    BY DEF SpanInv
<1>2. PICK p \in Probes, c \in Contexts :
          /\ \A i \in 1..Len(span_calls[g]) : span_calls[g][i].probe # p
          /\ span_calls' = [span_calls EXCEPT ![g] = <<[probe |-> p, ctx |-> c]>> \o @]
          /\ reg' = [reg EXCEPT ![g] = [Span!Clear EXCEPT !.cur = c]]
    BY DEF Span!Call
<1> DEFINE call == [probe |-> p, ctx |-> c]
<1>3. /\ span_at[g] = "code" /\ span_at' = [span_at EXCEPT ![g] = "walk"]
      /\ UNCHANGED <<sampler, go_context_to_sc, tracked_spans_by_sc, uprobe_context,
                     spans, leaving, leftover>>
    BY DEF Span!Call, Span!Goto
<1>4. call \in Calls /\ span_calls[g] \in Seq(Calls) /\ call.probe = p
    BY OwnProbe DEF Calls
<1> HIDE DEF call
<1>5. /\ <<call>> \o span_calls[g] \in Seq(Calls)
      /\ Len(<<call>> \o span_calls[g]) = Len(span_calls[g]) + 1 /\ Len(span_calls[g]) \in Nat
      /\ (<<call>> \o span_calls[g])[1] = call /\ <<call>> \o span_calls[g] # <<>>
      /\ Head(<<call>> \o span_calls[g]) = call
      /\ \A i \in 1..Len(span_calls[g]) : i + 1 \in 1..(Len(span_calls[g]) + 1)
             /\ (<<call>> \o span_calls[g])[i + 1] = span_calls[g][i]
      /\ \A i \in 1..(Len(span_calls[g]) + 1) : i # 1 => i - 1 \in 1..Len(span_calls[g])
             /\ (<<call>> \o span_calls[g])[i] = span_calls[g][i - 1]
    BY <1>4, PushCall
<1>6. /\ span_calls'[g] = <<call>> \o span_calls[g]
      /\ span_calls' \in [Goroutines -> Seq(Calls)]
      /\ \A h \in Goroutines : h # g => span_calls'[h] = span_calls[h]
    BY <1>1, <1>2, <1>5 DEF SpanTypes, Calls, call
<1>7. /\ reg'[g] \in Registers /\ reg'[g].sc = None /\ reg[g].sc = None
      /\ reg' \in [Goroutines -> Registers] /\ span_at'[g] = "walk"
      /\ \A h \in Goroutines : h # g => reg'[h] = reg[h] /\ span_at'[h] = span_at[h]
    BY <1>1, <1>2, <1>3 DEF SpanTypes, Registers, Span!Clear, ProbeOK
<1>8. SpansNumbered' /\ Span!NoDeadParent' /\ Span!TraceIsWhole' /\ Scs' = Scs
    BY <1>3, SameSpans
<1>9. SpanTypes'
    BY <1>1, <1>3, <1>6, <1>7, <1>8 DEF SpanTypes, Calls, Entering
<1>10. OnlySpans'
    BY <1>1, <1>3, <1>7, <1>8 DEF OnlySpans
<1>11. ASSUME NEW h \in Goroutines PROVE ProbeOK(h)'
    <2>1. CASE h # g
        BY <1>3, <1>6, <1>7, <2>1, OtherProbes
    <2>2. CASE h = g
        <3>1. uprobe_context[<<p, g>>] = None
            BY <1>1, <1>2, OwnProbe DEF OneEvent
        <3>2. Span!PlaceOf(g)' = <<p, g>>
            BY <1>4, <1>5, <1>6, PlaceIs
        <3>3. ASSUME NEW i \in 1..Len(span_calls'[g]), NEW j \in 1..Len(span_calls'[g]),
                     span_calls'[g][i].probe = span_calls'[g][j].probe
              PROVE  i = j
            <4>1. \A k \in 1..Len(span_calls'[g]) : k # 1 => k - 1 \in 1..Len(span_calls[g])
                      /\ span_calls'[g][k] = span_calls[g][k - 1]
                      /\ span_calls'[g][k].probe # p
                BY <1>2, <1>5, <1>6
            <4>2. span_calls'[g][1].probe = p
                BY <1>4, <1>5, <1>6
            <4>3. CASE i # 1 /\ j # 1
                <5>1. i - 1 = j - 1
                    BY <1>1, <3>3, <4>1, <4>3 DEF ProbeOK
                <5>2. QED
                    BY <5>1
            <4>4. QED
                BY <3>3, <4>1, <4>2, <4>3
        <3>4. QED
            BY <1>3, <1>5, <1>6, <1>7, <2>2, <3>1, <3>2, <3>3 DEF ProbeOK, Entering, Leaving
    <2>3. QED
        BY <2>1, <2>2
<1>12. OneEvent'
    <2>1. ASSUME NEW h \in Goroutines, NEW i \in 1..Len(span_calls[h])
          PROVE  \E j \in 1..Len(span_calls'[h]) :
                     span_calls'[h][j].probe = span_calls[h][i].probe
        <3>1. CASE h = g
            <4>1. i + 1 \in 1..Len(span_calls'[h])
                      /\ span_calls'[h][i + 1] = span_calls[h][i]
                BY <1>5, <1>6, <3>1
            <4>2. QED
                BY <4>1
        <3>2. QED
            BY <1>6, <3>1
    <2>2. \A h \in Goroutines : /\ span_at'[h] = "event" => span_at[h] = "event"
                                /\ reg'[h].sc \in {reg[h].sc, None}
                                /\ span_at'[h] = "event" => reg'[h].sc = reg[h].sc
        BY <1>7
    <2>3. QED
        BY <1>1, <1>3, <2>1, <2>2, EventsStay
<1>13. Held'
    BY <1>1, <1>3, <1>7, HeldStays
<1>14. ASSUME NEW d \in Contexts PROVE ContextExplained(d)'
    <2>1. ContextExplained(d)
        BY DEF SpanInv
    <2>2. QED
        BY <1>3, <1>6, <1>7, <2>1, ContextStays
<1>15. QED
    BY <1>8, <1>9, <1>10, <1>11, <1>12, <1>13, <1>14, SpanParts

(* The search for a parent goes on, or has come to its second lookup.        *)
LEMMA SpanWalks ==
    ASSUME Span!SpanAssumption, SpanInv, NEW g \in Goroutines, span_at[g] = "walk",
           UNCHANGED <<sampler, go_context_to_sc, tracked_spans_by_sc, uprobe_context,
                       span_calls, spans, leaving, leftover>>,
           \/ /\ span_at' = [span_at EXCEPT ![g] = "read"] /\ reg' = reg /\ reg[g].cur # None
           \/ /\ span_at' = span_at
              /\ reg' = [reg EXCEPT ![g].cur = Parent[reg[g].cur], ![g].steps = @ + 1]
              /\ reg[g].cur # None
    PROVE  SpanInv'
<1>1. SpanTypes /\ SpansNumbered /\ OnlySpans /\ ProbeOK(g) /\ OneEvent /\ Held
    BY DEF SpanInv
<1>2. /\ reg'[g] \in Registers /\ reg'[g].sc = None /\ reg[g].sc = None
      /\ reg' \in [Goroutines -> Registers] /\ span_at'[g] \in {"walk", "read"}
      /\ span_at'[g] = "read" => reg'[g].cur # None
      /\ span_at' \in [Goroutines -> {"code", "walk", "read"} \cup Entering \cup Leaving]
      /\ \A h \in Goroutines : h # g => reg'[h] = reg[h] /\ span_at'[h] = span_at[h]
    <2>1. reg[g] \in Registers /\ reg[g].sc = None
        BY <1>1 DEF SpanTypes, ProbeOK
    <2>2. reg[g].cur \in Contexts
        BY <2>1 DEF Registers
    <2>3. Parent[reg[g].cur] \in Contexts \cup {None}
        BY <2>2 DEF Span!SpanAssumption
    <2>4. ASSUME NEW r \in Registers, NEW x \in Contexts \cup {None}
          PROVE  /\ [r EXCEPT !.cur = x, !.steps = @ + 1] \in Registers
                 /\ [r EXCEPT !.cur = x, !.steps = @ + 1].sc = r.sc
        <3>1. r.steps + 1 \in Nat
            BY DEF Registers
        <3>2. ASSUME NEW n \in Nat
              PROVE  /\ [r EXCEPT !.cur = x, !.steps = n] \in Registers
                     /\ [r EXCEPT !.cur = x, !.steps = n].sc = r.sc
            BY DEF Registers
        <3>3. QED
            BY <3>1, <3>2
    <2>5. CASE span_at' = [span_at EXCEPT ![g] = "read"] /\ reg' = reg /\ reg[g].cur # None
        BY <1>1, <2>1, <2>5 DEF SpanTypes
    <2>6. CASE span_at' = span_at /\
               reg' = [reg EXCEPT ![g].cur = Parent[reg[g].cur], ![g].steps = @ + 1]
        <3>1. reg' = [reg EXCEPT ![g] = [reg[g] EXCEPT !.cur = Parent[reg[g].cur], !.steps = @ + 1]]
            BY <2>6
        <3>2. [reg[g] EXCEPT !.cur = Parent[reg[g].cur], !.steps = @ + 1] \in Registers
              /\ [reg[g] EXCEPT !.cur = Parent[reg[g].cur], !.steps = @ + 1].sc = None
            BY <2>1, <2>3, <2>4
        <3>3. QED
            BY <1>1, <2>1, <2>6, <3>1, <3>2 DEF SpanTypes
    <2>7. QED
        BY <2>5, <2>6
<1>8. SpansNumbered' /\ Span!NoDeadParent' /\ Span!TraceIsWhole' /\ Scs' = Scs
    BY SameSpans
<1>9. SpanTypes'
    BY <1>1, <1>2, <1>8 DEF SpanTypes
<1>10. OnlySpans'
    BY <1>1, <1>2, <1>8 DEF OnlySpans
<1>11. ASSUME NEW h \in Goroutines PROVE ProbeOK(h)'
    <2>1. CASE h # g
        BY <1>2, <2>1, OtherProbes
    <2>2. CASE h = g
        <3>1. Span!PlaceOf(g)' = Span!PlaceOf(g)
            BY PlaceIs
        <3>2. QED
            BY <1>1, <1>2, <2>2, <3>1 DEF ProbeOK, Entering, Leaving
    <2>3. QED
        BY <2>1, <2>2
<1>12. OneEvent'
    <2>1. \A h \in Goroutines : /\ span_at'[h] = "event" => span_at[h] = "event"
                                /\ reg'[h].sc \in {reg[h].sc, None}
                                /\ span_at'[h] = "event" => reg'[h].sc = reg[h].sc
        BY <1>2
    <2>2. QED
        BY <1>1, <2>1, EventsStay
<1>13. Held'
    BY <1>1, <1>2, HeldStays
<1>14. ASSUME NEW d \in Contexts PROVE ContextExplained(d)'
    <2>1. ContextExplained(d)
        BY DEF SpanInv
    <2>2. QED
        BY <1>2, <2>1, ContextStays
<1>15. QED
    BY <1>8, <1>9, <1>10, <1>11, <1>12, <1>13, <1>14, SpanParts

(* A sampler that follows the parent decides as it did for the parent.       *)
LEMMA SamplesAlike ==
    ASSUME Span!SpanAssumption, sampler \in Samplers, NEW psc \in Span!AnySpan,
           sampler.type # "PARENT_BASED" =>
               psc.sampled = Span!decides(sampler, psc.trace)
    PROVE  Span!should_sample(psc, psc.trace) = psc.sampled
<1>1. psc # None /\ psc.sampled \in BOOLEAN
    BY DEF Span!SpanAssumption, Span!AnySpan
<1>2. CASE sampler.type # "PARENT_BASED"
    BY <1>2 DEF Span!should_sample
<1>3. CASE sampler.type = "PARENT_BASED"
    <2>1. sampler.local_parent_sampled.type = "ALWAYS_ON"
          /\ sampler.local_parent_not_sampled.type = "ALWAYS_OFF"
        BY <1>3 DEF Span!SpanAssumption
    <2>2. CASE psc.sampled
        BY <1>1, <1>3, <2>1, <2>2 DEF Span!should_sample, Span!parentBased, Span!decides
    <2>3. CASE ~psc.sampled
        BY <1>1, <1>3, <2>1, <2>3 DEF Span!should_sample, Span!parentBased, Span!decides
    <2>4. QED
        BY <1>1, <2>2, <2>3
<1>4. QED
    BY <1>2, <1>3

LEMMA SampledIs ==
    ASSUME NEW psc, NEW trace
    PROVE  Span!should_sample(psc, trace) \in BOOLEAN
<1>1. ASSUME NEW s PROVE Span!decides(s, trace) \in BOOLEAN
    <2>1. CASE s.type = "ALWAYS_ON"
        BY <2>1 DEF Span!decides
    <2>2. CASE s.type # "ALWAYS_ON" /\ s.type = "TRACE_ID_RATIO"
        <3>1. Span!decides(s, trace) = (trace \in LowIds)
            BY <2>2 DEF Span!decides
        <3>2. QED
            BY <3>1
    <2>3. CASE s.type # "ALWAYS_ON" /\ s.type # "TRACE_ID_RATIO"
        BY <2>3 DEF Span!decides
    <2>4. QED
        BY <2>1, <2>2, <2>3
<1>2. QED
    BY <1>1 DEF Span!should_sample

(* A span is started, with the parent that was found or with none.           *)
LEMMA SpanStarts ==
    ASSUME Span!SpanAssumption, SpanInv, NEW g \in Goroutines, span_at[g] \in {"walk", "read"},
           NEW psc, Span!StartSpan(g, psc),
           psc = None \/ (reg[g].cur \in Contexts /\ psc = go_context_to_sc[reg[g].cur]),
           UNCHANGED <<sampler, go_context_to_sc, tracked_spans_by_sc, uprobe_context,
                       span_calls, leaving, leftover>>
    PROVE  SpanInv'
<1> DEFINE id == Span!Cardinality(spans) + 1
           trace == Span!TraceOf(id, psc)
           sampled == Span!should_sample(psc, trace)
           sc == [id |-> id, trace |-> trace, sampled |-> sampled]
           via == IF psc = None THEN None ELSE reg[g].cur
           late == psc \in leaving /\ \A h \in Goroutines : reg[h].sc # psc
           span == [sc |-> sc, psc |-> psc, via |-> via, late |-> late]
<1>1. SpanTypes /\ SpansNumbered /\ OnlySpans /\ ProbeOK(g) /\ OneEvent /\ Held
      /\ Span!NoDeadParent /\ Span!TraceIsWhole
    BY DEF SpanInv
<1>2. psc \in Scs \cup {None} /\ Scs \subseteq Span!AnySpan /\ None \notin Span!AnySpan
    BY <1>1 DEF OnlySpans, SpansNumbered, Scs, Span!SpanAssumption
<1>3. IsFiniteSet(spans) /\ Span!Cardinality(spans) = Cardinality(spans)
          /\ Cardinality(spans) \in Nat
    <2>1. IsFiniteSet(spans)
        BY <1>1 DEF SpansNumbered, Span!IsFiniteSet, IsFiniteSet
    <2>2. Span!Cardinality(spans) = Cardinality(spans)
        BY DEF Span!Cardinality, Cardinality
    <2>3. QED
        BY <2>1, <2>2, FS_CardinalityType
<1>4. /\ reg' = [reg EXCEPT ![g].sc = sc, ![g].psc = psc] /\ spans' = spans \cup {span}
      /\ span_at' = [span_at EXCEPT ![g] = "event"]
    BY DEF Span!StartSpan, Span!Goto
<1>5. id \in Nat /\ trace \in Nat /\ sampled \in BOOLEAN
    <2>1. id \in Nat
        BY <1>3
    <2>2. trace \in Nat
        BY <1>2, <2>1 DEF Span!TraceOf, Span!AnySpan
    <2>3. QED
        BY <2>1, <2>2, SampledIs
<1>6. sc \in Span!AnySpan /\ sc.id = id /\ sc.trace = trace /\ sc.sampled = sampled
    BY <1>5 DEF Span!AnySpan
<1>7. span.sc = sc /\ span.psc = psc /\ span.via = via /\ span.late = late
    OBVIOUS
<1>8. sc \notin Scs /\ sc # None
    <2>1. ASSUME NEW s \in spans, s.sc = sc PROVE FALSE
        <3>1. s.sc.id <= Span!Cardinality(spans) /\ s.sc.id = id
            BY <1>1, <2>1, <1>6 DEF SpansNumbered
        <3>2. QED
            BY <3>1, <1>3
    <2>2. QED
        BY <2>1, <1>2, <1>6 DEF Scs
<1>9. psc # None => trace = psc.trace /\ sampled = psc.sampled
    <2>1. SUFFICES ASSUME psc # None PROVE trace = psc.trace /\ sampled = psc.sampled
        OBVIOUS
    <2>2. trace = psc.trace
        BY <2>1 DEF Span!TraceOf
    <2>3. sampler.type # "PARENT_BASED" => psc.sampled = Span!decides(sampler, psc.trace)
        BY <1>1, <1>2, <2>1 DEF Scs, SpansNumbered
    <2>4. psc \in Span!AnySpan /\ sampler \in Samplers
        BY <1>1, <1>2, <2>1 DEF SpanTypes
    <2>5. Span!should_sample(psc, psc.trace) = psc.sampled
        BY <2>3, <2>4, SamplesAlike
    <2>6. QED
        BY <2>2, <2>5
<1>10. sampler.type # "PARENT_BASED" => sampled = Span!decides(sampler, trace)
    BY DEF Span!should_sample
\* A parent that has ended was found where it is known to have been left behind.
<1>11. late => via \in leftover
    <2>1. SUFFICES ASSUME late, via \notin leftover PROVE FALSE
        OBVIOUS
    <2>2. psc # None
        BY <2>1, OwnProbe
    <2>3. via \in Contexts /\ psc = go_context_to_sc[via] /\ via = reg[g].cur
        BY <2>2
    <2>4. ContextExplained(via)
        BY <2>3 DEF SpanInv
    <2>5. \A h \in Goroutines : reg[h].sc # psc
        BY <2>1
    <2> HIDE DEF via
    <2>6. psc \in DOMAIN tracked_spans_by_sc
        BY <2>1, <2>2, <2>3, <2>4, <2>5 DEF ContextExplained
    <2>7. QED
        BY <1>1, <2>1, <2>5, <2>6 DEF Held
<1>12. Scs' = Scs \cup {sc}
    BY <1>4, <1>7 DEF Scs
<1> HIDE DEF sc, via, late, span
<1>13. SpansNumbered'
    <2>1. span \notin spans
        BY <1>7, <1>8 DEF Scs
    <2>2. IsFiniteSet(spans') /\ Cardinality(spans') = id
        BY <1>3, <1>4, <2>1, FS_AddElement
    <2>3. Span!IsFiniteSet(spans)' /\ Span!Cardinality(spans)' = id
        <3>1. Span!IsFiniteSet(spans)' <=> IsFiniteSet(spans')
            BY DEF Span!IsFiniteSet, IsFiniteSet
        <3>2. Span!Cardinality(spans)' = Cardinality(spans')
            BY DEF Span!Cardinality, Cardinality
        <3>3. QED
            BY <2>2, <3>1, <3>2
    <2>4. ASSUME NEW s \in spans'
          PROVE  /\ s.sc \in Span!AnySpan /\ s.sc.id <= id
                 /\ sampler.type # "PARENT_BASED" =>
                        s.sc.sampled = Span!decides(sampler, s.sc.trace)
        <3>1. CASE s = span
            BY <3>1, <1>5, <1>6, <1>7, <1>10
        <3>2. CASE s \in spans
            <4>1. /\ s.sc \in Span!AnySpan /\ s.sc.id <= Span!Cardinality(spans)
                  /\ sampler.type # "PARENT_BASED" =>
                        s.sc.sampled = Span!decides(sampler, s.sc.trace)
                BY <1>1, <3>2 DEF SpansNumbered
            <4>2. s.sc.id \in Nat
                BY <4>1 DEF Span!AnySpan
            <4>3. QED
                BY <1>3, <4>1, <4>2
        <3>3. QED
            BY <1>4, <3>1, <3>2
    <2>5. QED
        BY <2>3, <2>4 DEF SpansNumbered, Span!decides
<1>14. Span!NoDeadParent' /\ Span!TraceIsWhole'
    <2>1. Span!NoDeadParent'
        BY <1>1, <1>4, <1>7, <1>11 DEF Span!NoDeadParent
    <2>2. Span!TraceIsWhole'
        BY <1>1, <1>4, <1>6, <1>7, <1>9 DEF Span!TraceIsWhole
    <2>3. QED
        BY <2>1, <2>2
<1>15. /\ reg'[g] \in Registers /\ reg'[g].sc = sc /\ reg[g].sc = None
       /\ reg' \in [Goroutines -> Registers] /\ span_at'[g] = "event"
       /\ span_at' \in [Goroutines -> {"code", "walk", "read"} \cup Entering \cup Leaving]
       /\ \A h \in Goroutines : h # g => reg'[h] = reg[h] /\ span_at'[h] = span_at[h]
    <2>1. reg[g] \in Registers /\ reg[g].sc = None
        BY <1>1 DEF SpanTypes, ProbeOK
    <2>2. ASSUME NEW x \in Span!AnySpan, NEW y \in Span!AnySpan \cup {None}
          PROVE  /\ [reg[g] EXCEPT !.sc = x, !.psc = y] \in Registers
                 /\ [reg[g] EXCEPT !.sc = x, !.psc = y].sc = x
        BY <2>1 DEF Registers
    <2>3. /\ [reg[g] EXCEPT !.sc = sc, !.psc = psc] \in Registers
          /\ [reg[g] EXCEPT !.sc = sc, !.psc = psc].sc = sc
        BY <1>2, <1>6, <2>2
    <2>4. reg' = [reg EXCEPT ![g] = [reg[g] EXCEPT !.sc = sc, !.psc = psc]]
        BY <1>4
    <2>5. QED
        BY <1>1, <1>4, <2>1, <2>3, <2>4 DEF SpanTypes, Entering
<1>16. SpanTypes'
    BY <1>1, <1>12, <1>15 DEF SpanTypes
<1>17. OnlySpans'
    BY <1>1, <1>12, <1>15 DEF OnlySpans
<1>18. ASSUME NEW h \in Goroutines PROVE ProbeOK(h)'
    <2>1. CASE h # g
        BY <1>15, <2>1, OtherProbes
    <2>2. CASE h = g
        <3>1. Span!PlaceOf(g)' = Span!PlaceOf(g)
            BY PlaceIs
        <3>2. sc \notin leaving \cup DOMAIN tracked_spans_by_sc
            BY <1>1, <1>8 DEF SpanTypes, OnlySpans
        <3>3. span_calls[g] # <<>> /\ uprobe_context[Span!PlaceOf(g)] = None
            BY <1>1 DEF ProbeOK
        <3>4. QED
            BY <1>1, <1>8, <1>15, <2>2, <3>1, <3>2, <3>3 DEF ProbeOK, Entering, Leaving
    <2>3. QED
        BY <2>1, <2>2
<1>19. OneEvent'
    <2>1. ASSUME NEW p \in Probes, NEW k \in Span!Keys, uprobe_context'[<<p, k>>] # None
          PROVE  k \in Goroutines /\ \E i \in 1..Len(span_calls'[k]) : span_calls'[k][i].probe = p
        BY <1>1, <2>1 DEF OneEvent
    <2>2. ASSUME NEW pk \in Probes \X Span!Keys, NEW qk \in Probes \X Span!Keys,
                 uprobe_context'[pk] # None, uprobe_context'[qk] # None,
                 uprobe_context'[pk].sc = uprobe_context'[qk].sc
          PROVE  pk = qk
        BY <1>1, <2>2 DEF OneEvent
    <2>3. ASSUME NEW h \in Goroutines, span_at'[h] = "event", NEW pk \in Probes \X Span!Keys,
                 uprobe_context'[pk] # None
          PROVE  uprobe_context'[pk].sc # reg'[h].sc
        <3>1. uprobe_context[pk].sc \in Scs
            BY <1>1, <2>3 DEF OnlySpans
        <3>2. CASE h = g
            BY <1>8, <1>15, <3>1, <3>2
        <3>3. CASE h # g
            BY <1>1, <1>15, <2>3, <3>3 DEF OneEvent
        <3>4. QED
            BY <3>2, <3>3
    <2>4. ASSUME NEW h \in Goroutines, NEW k \in Goroutines, reg'[h].sc = reg'[k].sc
          PROVE  h = k \/ reg'[h].sc = None
        <3>1. \A e \in Goroutines : reg[e].sc # sc
            BY <1>1, <1>8 DEF OnlySpans
        <3>2. QED
            BY <1>1, <1>15, <2>4, <3>1 DEF OneEvent
    <2>5. QED
        BY <2>1, <2>2, <2>3, <2>4 DEF OneEvent
<1>20. Held'
    <2>1. \A x \in DOMAIN tracked_spans_by_sc : x # None
        BY OwnProbe
    <2>2. QED
        BY <1>1, <1>15, <2>1, HeldStays
<1>21. ASSUME NEW d \in Contexts PROVE ContextExplained(d)'
    <2>1. ContextExplained(d)
        BY DEF SpanInv
    <2>2. QED
        BY <1>15, <2>1, ContextStays
<1>22. QED
    BY <1>13, <1>14, <1>16, <1>17, <1>18, <1>19, <1>20, <1>21, SpanParts

LEMMA SpanWalk ==
    ASSUME Span!SpanAssumption, SpanInv, NEW g \in Goroutines, Span!Walk(g)
    PROVE  SpanInv'
<1>1. span_at[g] = "walk" /\ UNCHANGED <<sampler, go_context_to_sc, tracked_spans_by_sc,
          uprobe_context, span_calls, leaving, leftover>>
    BY DEF Span!Walk
<1>2. CASE reg[g].cur = None \/ reg[g].steps = MaxDistance
    <2>1. Span!StartSpan(g, None)
        BY <1>2 DEF Span!Walk
    <2>2. QED
        BY <1>1, <2>1, SpanStarts
<1>3. CASE ~(reg[g].cur = None \/ reg[g].steps = MaxDistance)
    <2>1. UNCHANGED spans
        BY <1>3 DEF Span!Walk
    <2>2. \/ /\ span_at' = [span_at EXCEPT ![g] = "read"] /\ reg' = reg
          \/ /\ span_at' = span_at
             /\ reg' = [reg EXCEPT ![g].cur = Parent[reg[g].cur], ![g].steps = @ + 1]
        BY <1>3 DEF Span!Walk, Span!Goto
    <2>3. QED
        BY <1>1, <1>3, <2>1, <2>2, SpanWalks
<1>4. QED
    BY <1>2, <1>3

LEMMA SpanReadParent ==
    ASSUME Span!SpanAssumption, SpanInv, NEW g \in Goroutines, Span!ReadParent(g)
    PROVE  SpanInv'
<1>1. /\ span_at[g] = "read" /\ Span!StartSpan(g, go_context_to_sc[reg[g].cur])
      /\ UNCHANGED <<sampler, go_context_to_sc, tracked_spans_by_sc, uprobe_context,
                     span_calls, leaving, leftover>>
    BY DEF Span!ReadParent
<1>2. reg[g] \in Registers /\ reg[g].cur # None
    BY <1>1 DEF SpanInv, SpanTypes, ProbeOK
<1>3. reg[g].cur \in Contexts
    BY <1>2 DEF Registers
<1>4. QED
    BY <1>1, <1>3, SpanStarts

(* The entry of a probe: its event, its context, its span.                   *)
LEMMA SpanStoreEvent ==
    ASSUME Span!SpanAssumption, SpanInv, NEW g \in Goroutines, Span!StoreEvent(g)
    PROVE  SpanInv'
<1> DEFINE probed == [sc |-> reg[g].sc, psc |-> reg[g].psc]
           place == Span!PlaceOf(g)
<1>1. SpanTypes /\ SpansNumbered /\ OnlySpans /\ ProbeOK(g) /\ OneEvent /\ Held
    BY DEF SpanInv
<1>2. /\ span_at[g] = "event" /\ uprobe_context' = [uprobe_context EXCEPT ![place] = probed]
      /\ span_at' = [span_at EXCEPT ![g] = "track"]
      /\ UNCHANGED <<sampler, go_context_to_sc, tracked_spans_by_sc, span_calls, reg, spans,
                     leaving, leftover>>
    BY DEF Span!StoreEvent, Span!Goto
<1>3. /\ span_calls[g] # <<>> /\ reg[g].sc # None /\ reg[g] \in Registers
      /\ reg[g].sc \in Scs /\ reg[g].sc \in Span!AnySpan
      /\ reg[g].sc \notin leaving \cup DOMAIN tracked_spans_by_sc
      /\ uprobe_context[place] = None
    BY <1>1, <1>2, OwnProbe DEF ProbeOK, Entering
<1>4. /\ place = <<Head(span_calls[g]).probe, g>> /\ place \in Probes \X Span!Keys
      /\ Head(span_calls[g]) \in Calls /\ Head(span_calls[g]).probe \in Probes
      /\ span_calls[g] \in Seq(Calls)
    BY <1>3, OwnProbe DEF Calls
<1>5. probed \in SpanEvents /\ probed # None /\ probed.sc = reg[g].sc
    <2>1. probed \in SpanEvents
        BY <1>3 DEF SpanEvents, Registers
    <2>2. QED
        BY <2>1 DEF SpanEvents, Span!SpanAssumption
<1> HIDE DEF probed, place
<1>6. /\ uprobe_context' \in [Probes \X Span!Keys -> SpanEvents \cup {None}]
      /\ uprobe_context'[place] = probed
      /\ \A pk \in Probes \X Span!Keys : pk # place => uprobe_context'[pk] = uprobe_context[pk]
    BY <1>1, <1>2, <1>4, <1>5 DEF SpanTypes
<1>7. /\ span_at'[g] = "track"
      /\ span_at' \in [Goroutines -> {"code", "walk", "read"} \cup Entering \cup Leaving]
      /\ \A h \in Goroutines : h # g => span_at'[h] = span_at[h]
    BY <1>1, <1>2 DEF SpanTypes, Entering
<1>8. SpansNumbered' /\ Span!NoDeadParent' /\ Span!TraceIsWhole' /\ Scs' = Scs
    BY <1>2, SameSpans
<1>9. SpanTypes'
    BY <1>1, <1>2, <1>6, <1>7, <1>8 DEF SpanTypes
<1>10. OnlySpans'
    BY <1>1, <1>2, <1>3, <1>5, <1>6, <1>8 DEF OnlySpans
<1>11. ASSUME NEW h \in Goroutines PROVE ProbeOK(h)'
    <2>1. CASE h # g
        <3>1. ASSUME NEW p \in Probes PROVE uprobe_context'[<<p, h>>] = uprobe_context[<<p, h>>]
            BY <1>4, <1>6, <2>1 DEF Span!Keys
        <3>2. QED
            BY <1>2, <1>7, <2>1, <3>1, OtherProbes
    <2>2. CASE h = g
        <3>1. Span!PlaceOf(g)' = place
            BY <1>2, PlaceIs DEF place
        <3>2. uprobe_context'[Span!PlaceOf(g)'] = [sc |-> reg[g].sc, psc |-> reg[g].psc]
            BY <1>6, <3>1 DEF probed
        <3>3. QED
            BY <1>1, <1>2, <1>3, <1>7, <2>2, <3>2 DEF ProbeOK, Entering, Leaving
    <2>3. QED
        BY <2>1, <2>2
<1>12. OneEvent'
    <2>1. ASSUME NEW p \in Probes, NEW k \in Span!Keys, uprobe_context'[<<p, k>>] # None
          PROVE  k \in Goroutines /\ \E i \in 1..Len(span_calls'[k]) : span_calls'[k][i].probe = p
        <3>1. CASE <<p, k>> = place
            <4>1. p = Head(span_calls[g]).probe /\ k = g
                BY <1>4, <3>1
            <4>2. 1 \in 1..Len(span_calls[g]) /\ Head(span_calls[g]) = span_calls[g][1]
                BY <1>3, <1>4, PopCall
            <4>3. QED
                BY <1>2, <4>1, <4>2
        <3>2. CASE <<p, k>> # place
            BY <1>1, <1>2, <1>6, <2>1, <3>2 DEF OneEvent
        <3>3. QED
            BY <3>1, <3>2
    <2>2. \A pk \in Probes \X Span!Keys :
              uprobe_context[pk] # None => uprobe_context[pk].sc # reg[g].sc
        BY <1>1, <1>2 DEF OneEvent
    <2>3. ASSUME NEW pk \in Probes \X Span!Keys, NEW qk \in Probes \X Span!Keys,
                 uprobe_context'[pk] # None, uprobe_context'[qk] # None,
                 uprobe_context'[pk].sc = uprobe_context'[qk].sc
          PROVE  pk = qk
        BY <1>1, <1>5, <1>6, <2>2, <2>3 DEF OneEvent
    <2>4. ASSUME NEW h \in Goroutines, span_at'[h] = "event", NEW pk \in Probes \X Span!Keys,
                 uprobe_context'[pk] # None
          PROVE  uprobe_context'[pk].sc # reg'[h].sc
        <3>1. h # g /\ span_at[h] = "event" /\ reg'[h] = reg[h] /\ reg[h].sc # reg[g].sc
            BY <1>1, <1>2, <1>3, <1>7, <2>4 DEF OneEvent
        <3>2. QED
            BY <1>1, <1>5, <1>6, <2>4, <3>1 DEF OneEvent
    <2>5. \A h, k \in Goroutines : reg'[h].sc = reg'[k].sc => h = k \/ reg'[h].sc = None
        BY <1>1, <1>2 DEF OneEvent
    <2>6. QED
        BY <2>1, <2>3, <2>4, <2>5 DEF OneEvent
<1>13. Held'
    <2>1. ASSUME NEW pk \in Probes \X Span!Keys, uprobe_context[pk] # None
          PROVE  uprobe_context'[pk] = uprobe_context[pk]
        BY <1>3, <1>6, <2>1
    <2>2. QED
        BY <1>1, <1>2, <2>1, HeldStays
<1>14. ASSUME NEW d \in Contexts PROVE ContextExplained(d)'
    <2>1. ContextExplained(d)
        BY DEF SpanInv
    <2>2. QED
        BY <1>2, <1>7, <2>1, ContextStays
<1>15. QED
    BY <1>8, <1>9, <1>10, <1>11, <1>12, <1>13, <1>14, SpanParts

LEMMA SpanTrackContext ==
    ASSUME Span!SpanAssumption, SpanInv, NEW g \in Goroutines, Span!TrackContext(g)
    PROVE  SpanInv'
<1> DEFINE ctx == Span!CtxOf(g)
           room == Span!ContextHasRoom(ctx)
<1>1. SpanTypes /\ SpansNumbered /\ OnlySpans /\ ProbeOK(g) /\ OneEvent /\ Held
    BY DEF SpanInv
<1>2. /\ span_at[g] = "track"
      /\ UNCHANGED <<sampler, tracked_spans_by_sc, uprobe_context, span_calls, spans, leaving,
                     leftover>>
      /\ room => /\ go_context_to_sc' = [go_context_to_sc EXCEPT ![ctx] = reg[g].sc]
                 /\ span_at' = [span_at EXCEPT ![g] = "index"] /\ reg' = reg
      /\ ~room => /\ go_context_to_sc' = go_context_to_sc
                  /\ span_at' = [span_at EXCEPT ![g] = "code"]
                  /\ reg' = [reg EXCEPT ![g] = Span!Clear]
    BY DEF Span!TrackContext, Span!Goto
<1> HIDE DEF room
<1>3. /\ span_calls[g] # <<>> /\ reg[g].sc # None /\ reg[g] \in Registers
      /\ reg[g].sc \in Scs /\ reg[g].sc \in Span!AnySpan /\ ctx \in Contexts
      /\ reg[g].sc \notin leaving \cup DOMAIN tracked_spans_by_sc
    BY <1>1, <1>2, OwnProbe DEF ProbeOK, Entering
<1>4. Span!Clear \in Registers /\ Span!Clear.sc = None
    BY DEF Span!Clear, Registers
<1>5. /\ go_context_to_sc' \in [Contexts -> Span!AnySpan \cup {None}]
      /\ \A d \in Contexts : go_context_to_sc'[d] =
             IF room /\ d = ctx THEN reg[g].sc ELSE go_context_to_sc[d]
    BY <1>1, <1>2, <1>3 DEF SpanTypes
<1> HIDE DEF ctx
<1>6. /\ span_at'[g] = (IF room THEN "index" ELSE "code")
      /\ span_at' \in [Goroutines -> {"code", "walk", "read"} \cup Entering \cup Leaving]
      /\ reg' \in [Goroutines -> Registers]
      /\ reg'[g] = (IF room THEN reg[g] ELSE Span!Clear)
      /\ \A h \in Goroutines : h # g => span_at'[h] = span_at[h] /\ reg'[h] = reg[h]
    BY <1>1, <1>2, <1>4 DEF SpanTypes, Entering
<1>8. SpansNumbered' /\ Span!NoDeadParent' /\ Span!TraceIsWhole' /\ Scs' = Scs
    BY <1>2, SameSpans
<1>9. SpanTypes'
    BY <1>1, <1>2, <1>5, <1>6, <1>8 DEF SpanTypes
<1>10. OnlySpans'
    <2>1. \A d \in Contexts : go_context_to_sc'[d] \in Scs' \cup {None}
        BY <1>1, <1>3, <1>5, <1>8 DEF OnlySpans
    <2>2. \A h \in Goroutines : reg'[h].sc \in Scs' \cup {None}
        BY <1>1, <1>4, <1>6, <1>8 DEF OnlySpans
    <2>3. QED
        BY <1>1, <1>2, <1>8, <2>1, <2>2 DEF OnlySpans
<1>11. ASSUME NEW h \in Goroutines PROVE ProbeOK(h)'
    <2>1. CASE h # g
        BY <1>2, <1>6, <2>1, OtherProbes
    <2>2. CASE h = g
        <3>1. Span!PlaceOf(g)' = Span!PlaceOf(g)
            BY <1>2, PlaceIs
        <3>2. QED
            BY <1>1, <1>2, <1>3, <1>4, <1>6, <2>2, <3>1 DEF ProbeOK, Entering, Leaving
    <2>3. QED
        BY <2>1, <2>2
<1>12. OneEvent'
    <2>1. \A h \in Goroutines : /\ span_at'[h] = "event" => span_at[h] = "event"
                                /\ reg'[h].sc \in {reg[h].sc, None}
                                /\ span_at'[h] = "event" => reg'[h].sc = reg[h].sc
        BY <1>2, <1>4, <1>6
    <2>2. QED
        BY <1>1, <1>2, <2>1, EventsStay
<1>13. Held'
    <2>1. \A sc \in DOMAIN tracked_spans_by_sc, h \in Goroutines :
              reg[h].sc = sc => reg'[h].sc = sc
        BY <1>3, <1>6
    <2>2. QED
        BY <1>1, <1>2, <2>1, HeldStays
<1>14. ASSUME NEW d \in Contexts PROVE ContextExplained(d)'
    <2>1. ContextExplained(d) /\ reg[g].sc # None
        BY <1>3 DEF SpanInv
    <2>2. CASE room /\ d = ctx
        <3>1. span_at'[g] = "index" /\ reg'[g].sc = go_context_to_sc'[d] /\ Span!CtxOf(g)' = d
            BY <1>2, <1>5, <1>6, <2>2, PlaceIs DEF ctx
        <3>2. QED
            BY <3>1 DEF ContextExplained
    <2>3. CASE ~(room /\ d = ctx)
        BY <1>2, <1>5, <1>6, <2>1, <2>3, ContextStays
    <2>4. QED
        BY <2>2, <2>3
<1>15. QED
    BY <1>8, <1>9, <1>10, <1>11, <1>12, <1>13, <1>14, SpanParts

LEMMA SpanTrackSpan ==
    ASSUME Span!SpanAssumption, SpanInv, NEW g \in Goroutines, Span!TrackSpan(g)
    PROVE  SpanInv'
<1> DEFINE ctx == Span!CtxOf(g)
           sc == reg[g].sc
           room == Span!HasRoom(tracked_spans_by_sc, sc)
<1>1. SpanTypes /\ SpansNumbered /\ OnlySpans /\ ProbeOK(g) /\ OneEvent /\ Held
    BY DEF SpanInv
<1>2. /\ span_at[g] = "index" /\ span_at' = [span_at EXCEPT ![g] = "code"]
      /\ reg' = [reg EXCEPT ![g] = Span!Clear]
      /\ UNCHANGED <<sampler, go_context_to_sc, uprobe_context, span_calls, spans, leaving>>
      /\ room => /\ tracked_spans_by_sc' = Span!With(tracked_spans_by_sc, sc, ctx)
                 /\ leftover' = leftover
      /\ ~room => /\ tracked_spans_by_sc' = tracked_spans_by_sc
                  /\ leftover' = leftover \cup {ctx}
    BY DEF Span!TrackSpan, Span!Goto
<1> HIDE DEF room
<1>3. /\ span_calls[g] # <<>> /\ sc # None /\ sc \in Scs /\ sc \in Span!AnySpan
      /\ ctx \in Contexts /\ sc \notin leaving /\ sc \notin DOMAIN tracked_spans_by_sc
      /\ Span!PlaceOf(g) \in Probes \X Span!Keys
      /\ uprobe_context[Span!PlaceOf(g)] = [sc |-> sc, psc |-> reg[g].psc]
    BY <1>1, <1>2, OwnProbe DEF ProbeOK, Entering
<1>4. Span!Clear \in Registers /\ Span!Clear.sc = None
    BY DEF Span!Clear, Registers
<1> HIDE DEF ctx
<1>5. /\ DOMAIN tracked_spans_by_sc' =
             IF room THEN DOMAIN tracked_spans_by_sc \cup {sc} ELSE DOMAIN tracked_spans_by_sc
      /\ tracked_spans_by_sc' \in [DOMAIN tracked_spans_by_sc' -> Contexts]
      /\ \A x : x # sc => tracked_spans_by_sc'[x] = tracked_spans_by_sc[x]
                    \/ x \notin DOMAIN tracked_spans_by_sc
      /\ room => tracked_spans_by_sc'[sc] = ctx
    <2>1. tracked_spans_by_sc \in [DOMAIN tracked_spans_by_sc -> Contexts]
        BY <1>1 DEF SpanTypes
    <2> HIDE DEF sc
    <2>2. CASE room
        <3>1. tracked_spans_by_sc' = [k \in DOMAIN tracked_spans_by_sc \cup {sc} |->
                  IF k = sc THEN ctx ELSE tracked_spans_by_sc[k]]
            BY <1>2, <2>2 DEF Span!With
        <3>2. QED
            BY <1>3, <2>1, <2>2, <3>1
    <2>3. CASE ~room
        BY <1>2, <2>1, <2>3
    <2>4. QED
        BY <2>2, <2>3
<1>6. /\ span_at'[g] = "code" /\ reg'[g] = Span!Clear
      /\ span_at' \in [Goroutines -> {"code", "walk", "read"} \cup Entering \cup Leaving]
      /\ reg' \in [Goroutines -> Registers]
      /\ \A h \in Goroutines : h # g => span_at'[h] = span_at[h] /\ reg'[h] = reg[h]
    BY <1>1, <1>2, <1>4 DEF SpanTypes
<1>7. leftover \subseteq leftover' /\ leftover' \subseteq Contexts
    BY <1>1, <1>2, <1>3 DEF SpanTypes
<1>8. SpansNumbered' /\ Span!NoDeadParent' /\ Span!TraceIsWhole' /\ Scs' = Scs
    BY <1>2, <1>7, SameSpans
<1>9. SpanTypes'
    BY <1>1, <1>2, <1>5, <1>6, <1>7, <1>8 DEF SpanTypes
<1>10. OnlySpans'
    <2>1. DOMAIN tracked_spans_by_sc' \subseteq Scs'
        BY <1>1, <1>3, <1>5, <1>8 DEF OnlySpans
    <2>2. \A h \in Goroutines : reg'[h].sc \in Scs' \cup {None}
        BY <1>1, <1>4, <1>6, <1>8 DEF OnlySpans
    <2>3. QED
        BY <1>1, <1>2, <1>8, <2>1, <2>2 DEF OnlySpans
<1>11. ASSUME NEW h \in Goroutines PROVE ProbeOK(h)'
    <2>1. CASE h # g
        <3>1. ProbeOK(h) /\ reg[h].sc # sc
            BY <1>1, <1>3, <2>1 DEF SpanInv, OneEvent
        <3>2. None \notin DOMAIN tracked_spans_by_sc
            BY OwnProbe
        <3>3. span_calls'[h] = span_calls[h] /\ Span!PlaceOf(h)' = Span!PlaceOf(h)
            BY <1>2, PlaceIs
        <3>4. reg[h].sc \in DOMAIN tracked_spans_by_sc' <=> reg[h].sc \in DOMAIN tracked_spans_by_sc
            BY <1>5, <3>1
        <3>5. reg[h].psc \in DOMAIN tracked_spans_by_sc =>
                  /\ reg[h].psc \in DOMAIN tracked_spans_by_sc'
                  /\ tracked_spans_by_sc'[reg[h].psc] = tracked_spans_by_sc[reg[h].psc]
            BY <1>3, <1>5
        <3>6. QED
            BY <1>2, <1>6, <2>1, <3>1, <3>3, <3>4, <3>5 DEF ProbeOK
    <2>2. CASE h = g
        BY <1>1, <1>2, <1>4, <1>6, <2>2 DEF ProbeOK, Entering, Leaving
    <2>3. QED
        BY <2>1, <2>2
<1>12. OneEvent'
    <2>1. \A h \in Goroutines : /\ span_at'[h] = "event" => span_at[h] = "event"
                                /\ reg'[h].sc \in {reg[h].sc, None}
                                /\ span_at'[h] = "event" => reg'[h].sc = reg[h].sc
        BY <1>4, <1>6
    <2>2. QED
        BY <1>1, <1>2, <2>1, EventsStay
<1>13. Held'
    <2>1. ASSUME NEW x \in DOMAIN tracked_spans_by_sc'
          PROVE  /\ \E pk \in Probes \X Span!Keys :
                        uprobe_context'[pk] # None /\ uprobe_context'[pk].sc = x
                 /\ x \in leaving' => \E h \in Goroutines : reg'[h].sc = x
        <3>1. CASE x = sc
            <4>1. uprobe_context[Span!PlaceOf(g)] # None /\ uprobe_context[Span!PlaceOf(g)].sc = sc
                <5>1. uprobe_context[Span!PlaceOf(g)] \in SpanEvents
                    <6>1. reg[g].psc \in Span!AnySpan \cup {None}
                        BY OwnProbe DEF Registers
                    <6>2. QED
                        BY <1>3, <6>1 DEF SpanEvents
                <5>2. QED
                    BY <1>3, <5>1 DEF SpanEvents, Span!SpanAssumption
            <4>2. QED
                BY <1>2, <1>3, <3>1, <4>1
        <3>2. CASE x # sc
            <4>1. x \in DOMAIN tracked_spans_by_sc
                BY <1>5, <3>2
            <4>2. x \in leaving => \E h \in Goroutines : h # g /\ reg[h].sc = x
                BY <1>1, <3>2, <4>1 DEF Held
            <4>3. QED
                BY <1>1, <1>2, <1>6, <4>1, <4>2 DEF Held
        <3>3. QED
            BY <3>1, <3>2
    <2>2. QED
        BY <2>1 DEF Held
<1>14. ASSUME NEW d \in Contexts PROVE ContextExplained(d)'
    <2>1. ContextExplained(d)
        BY DEF SpanInv
    <2>2. \A h \in Goroutines : span_at'[h] = "untrack" =>
              span_at[h] = "untrack" /\ reg'[h].sc = reg[h].sc /\ reg[h].sc # sc
        BY <1>1, <1>3, <1>6 DEF OneEvent
    <2>3. CASE go_context_to_sc[d] = sc /\ Span!CtxOf(g) = d
        <3>1. CASE room
            BY <1>2, <1>5, <2>2, <2>3, <3>1 DEF ContextExplained, ctx
        <3>2. CASE ~room
            BY <1>2, <2>3, <3>2 DEF ContextExplained, ctx
        <3>3. QED
            BY <3>1, <3>2
    <2>4. CASE go_context_to_sc[d] = sc /\ Span!CtxOf(g) # d
        <3>1. ASSUME NEW h \in Goroutines, span_at[h] = "index", reg[h].sc = sc PROVE h = g
            BY <1>1, <1>3, <3>1 DEF OneEvent
        <3>2. d \in leftover
            BY <1>3, <2>1, <2>4, <3>1 DEF ContextExplained
        <3>3. QED
            BY <1>7, <3>2 DEF ContextExplained
    <2>5. CASE go_context_to_sc[d] # sc
        <3>1. go_context_to_sc[d] \in DOMAIN tracked_spans_by_sc =>
                 /\ go_context_to_sc[d] \in DOMAIN tracked_spans_by_sc'
                 /\ tracked_spans_by_sc'[go_context_to_sc[d]] =
                        tracked_spans_by_sc[go_context_to_sc[d]]
            BY <1>5, <2>5
        <3>2. \A h \in Goroutines : span_at[h] = "index" =>
               \/ span_at'[h] = "index" /\ reg'[h] = reg[h] /\ span_calls'[h] = span_calls[h]
               \/ reg[h].sc # go_context_to_sc[d]
            BY <1>2, <1>6, <2>5
        <3>3. QED
            BY <1>2, <1>7, <2>1, <2>2, <3>1, <3>2, ContextStays
    <2>6. QED
        BY <2>3, <2>4, <2>5
<1>15. QED
    BY <1>8, <1>9, <1>10, <1>11, <1>12, <1>13, <1>14, SpanParts

(* The return of a probe.  Its event is no other probe's.                    *)
LEMMA EventIsOwn ==
    ASSUME Span!SpanAssumption, SpanInv, NEW g \in Goroutines, NEW h \in Goroutines, h # g,
           NEW p \in Probes, uprobe_context[<<p, g>>] # None
    PROVE  uprobe_context[<<p, g>>].sc # reg[h].sc
<1>1. SpanTypes /\ OnlySpans /\ OneEvent /\ ProbeOK(h)
    BY DEF SpanInv
<1>2. SUFFICES ASSUME uprobe_context[<<p, g>>].sc = reg[h].sc PROVE FALSE
    OBVIOUS
<1>3. <<p, g>> \in Probes \X Span!Keys /\ reg[h].sc \in Scs /\ reg[h].sc # None
    <2>1. <<p, g>> \in Probes \X Span!Keys
        BY DEF Span!Keys
    <2>2. QED
        BY <1>1, <1>2, <2>1, OwnProbe DEF OnlySpans
<1>4. span_at[h] \in Entering \cup Leaving
    BY <1>1, <1>3 DEF SpanTypes, ProbeOK
<1>5. span_at[h] # "event"
    BY <1>1, <1>2, <1>3 DEF OneEvent
<1>6. uprobe_context[Span!PlaceOf(h)] = [sc |-> reg[h].sc, psc |-> reg[h].psc]
    BY <1>1, <1>4, <1>5 DEF ProbeOK
<1>7. Span!PlaceOf(h) = <<Head(span_calls[h]).probe, h>> /\ Span!PlaceOf(h) \in Probes \X Span!Keys
    BY <1>1, <1>4, OwnProbe DEF ProbeOK, Entering, Leaving
<1>8. uprobe_context[Span!PlaceOf(h)] # None
    BY <1>3, <1>6, OwnProbe DEF Registers, Span!SpanAssumption
<1>9. Span!PlaceOf(h) = <<p, g>>
    BY <1>1, <1>2, <1>3, <1>6, <1>7, <1>8 DEF OneEvent
<1>10. QED
    BY <1>7, <1>9

LEMMA SpanReturn ==
    ASSUME Span!SpanAssumption, SpanInv, NEW g \in Goroutines, Span!Return(g)
    PROVE  SpanInv'
<1> DEFINE place == Span!PlaceOf(g)
           probed == uprobe_context[place]
<1>1. SpanTypes /\ SpansNumbered /\ OnlySpans /\ ProbeOK(g) /\ OneEvent /\ Held
    BY DEF SpanInv
<1>2. /\ span_at[g] = "code" /\ span_calls[g] # <<>>
      /\ UNCHANGED <<sampler, go_context_to_sc, tracked_spans_by_sc, uprobe_context,
                     spans, leftover>>
      /\ probed = None => /\ span_calls' = [span_calls EXCEPT ![g] = Tail(@)]
                          /\ UNCHANGED <<span_at, reg, leaving>>
      /\ probed # None => /\ span_at' = [span_at EXCEPT ![g] = "stop"]
                          /\ reg' = [reg EXCEPT ![g].sc = probed.sc, ![g].psc = probed.psc]
                          /\ leaving' = leaving \cup {probed.sc} /\ UNCHANGED span_calls
    BY DEF Span!Return, Span!Goto
<1>3. /\ place = <<Head(span_calls[g]).probe, g>> /\ place \in Probes \X Span!Keys
      /\ Head(span_calls[g]).probe \in Probes /\ span_calls[g] \in Seq(Calls)
      /\ reg[g] \in Registers /\ reg[g].sc = None
    BY <1>1, <1>2, OwnProbe DEF Calls, ProbeOK
<1> HIDE DEF place
<1>4. /\ Tail(span_calls[g]) \in Seq(Calls) /\ Len(Tail(span_calls[g])) = Len(span_calls[g]) - 1
      /\ Len(span_calls[g]) \in Nat /\ 1 \in 1..Len(span_calls[g])
      /\ Head(span_calls[g]) = span_calls[g][1]
      /\ \A i \in 1..Len(Tail(span_calls[g])) : i + 1 \in 1..Len(span_calls[g])
             /\ Tail(span_calls[g])[i] = span_calls[g][i + 1]
      /\ \A i \in 1..Len(span_calls[g]) : i # 1 => i - 1 \in 1..Len(Tail(span_calls[g]))
             /\ Tail(span_calls[g])[i - 1] = span_calls[g][i]
    BY <1>2, <1>3, PopCall
<1>8. SpansNumbered' /\ Span!NoDeadParent' /\ Span!TraceIsWhole' /\ Scs' = Scs
    BY <1>2, SameSpans
<1>9. CASE probed = None
    <2>1. /\ span_calls' \in [Goroutines -> Seq(Calls)] /\ span_calls'[g] = Tail(span_calls[g])
          /\ \A h \in Goroutines : h # g => span_calls'[h] = span_calls[h]
          /\ UNCHANGED <<span_at, reg, leaving>>
        BY <1>1, <1>2, <1>4, <1>9 DEF SpanTypes, Calls
    <2>2. SpanTypes'
        BY <1>1, <1>2, <1>8, <2>1 DEF SpanTypes, Calls
    <2>3. OnlySpans'
        BY <1>1, <1>2, <1>8, <2>1 DEF OnlySpans
    <2>4. ASSUME NEW h \in Goroutines PROVE ProbeOK(h)'
        <3>1. CASE h # g
            BY <1>2, <2>1, <3>1, OtherProbes
        <3>2. CASE h = g
            <4>1. ASSUME NEW i \in 1..Len(span_calls'[g]), NEW j \in 1..Len(span_calls'[g]),
                         span_calls'[g][i].probe = span_calls'[g][j].probe
                  PROVE  i = j
                <5>1. i + 1 = j + 1
                    BY <1>1, <1>4, <2>1, <4>1 DEF ProbeOK
                <5>2. QED
                    BY <5>1
            <4>2. QED
                BY <1>1, <1>2, <2>1, <3>2, <4>1 DEF ProbeOK, Entering, Leaving
        <3>3. QED
            BY <3>1, <3>2
    <2>5. OneEvent'
        <3>1. ASSUME NEW h \in Goroutines, NEW i \in 1..Len(span_calls[h])
              PROVE  \/ \E j \in 1..Len(span_calls'[h]) :
                            span_calls'[h][j].probe = span_calls[h][i].probe
                     \/ uprobe_context[<<span_calls[h][i].probe, h>>] = None
            <4>1. CASE h = g /\ i # 1
                <5>1. i - 1 \in 1..Len(span_calls'[h]) /\ span_calls'[h][i - 1] = span_calls[h][i]
                    BY <1>4, <2>1, <4>1
                <5>2. QED
                    BY <5>1
            <4>2. CASE h = g /\ i = 1
                BY <1>3, <1>4, <1>9, <4>2
            <4>3. CASE h # g
                BY <2>1, <4>3
            <4>4. QED
                BY <4>1, <4>2, <4>3
        <3>2. QED
            BY <1>1, <1>2, <2>1, <3>1, EventsStay
    <2>6. Held'
        BY <1>1, <1>2, <2>1, HeldStays
    <2>7. ASSUME NEW d \in Contexts PROVE ContextExplained(d)'
        <3>1. ContextExplained(d)
            BY DEF SpanInv
        <3>2. \A h \in Goroutines : span_at[h] = "index" => span_calls'[h] = span_calls[h]
            BY <1>2, <2>1
        <3>3. QED
            BY <1>2, <2>1, <3>1, <3>2, ContextStays
    <2>8. QED
        BY <1>8, <2>2, <2>3, <2>4, <2>5, <2>6, <2>7, SpanParts
<1>10. CASE probed # None
    <2>1. /\ probed \in SpanEvents /\ probed.sc \in Span!AnySpan /\ probed.sc \in Scs
          /\ probed.psc \in Span!AnySpan \cup {None}
          /\ probed = [sc |-> probed.sc, psc |-> probed.psc]
        BY <1>1, <1>3, <1>10 DEF SpanTypes, SpanEvents, OnlySpans
    <2>2. /\ reg' \in [Goroutines -> Registers] /\ reg'[g].sc = probed.sc
          /\ reg'[g].psc = probed.psc
          /\ span_at' \in [Goroutines -> {"code", "walk", "read"} \cup Entering \cup Leaving]
          /\ span_at'[g] = "stop" /\ leaving' = leaving \cup {probed.sc}
          /\ UNCHANGED span_calls
          /\ \A h \in Goroutines : h # g => reg'[h] = reg[h] /\ span_at'[h] = span_at[h]
        <3>1. ASSUME NEW x \in Span!AnySpan, NEW y \in Span!AnySpan \cup {None}
              PROVE  /\ [reg[g] EXCEPT !.sc = x, !.psc = y] \in Registers
                     /\ [reg[g] EXCEPT !.sc = x, !.psc = y].sc = x
                     /\ [reg[g] EXCEPT !.sc = x, !.psc = y].psc = y
            BY <1>3 DEF Registers
        <3> HIDE DEF probed
        <3>2. reg' = [reg EXCEPT ![g] = [reg[g] EXCEPT !.sc = probed.sc, !.psc = probed.psc]]
            BY <1>2, <1>10
        <3> DEFINE r == [reg[g] EXCEPT !.sc = probed.sc, !.psc = probed.psc]
        <3>3. r \in Registers /\ r.sc = probed.sc /\ r.psc = probed.psc
            BY <2>1, <3>1
        <3> HIDE DEF r
        <3>4. reg' = [reg EXCEPT ![g] = r] /\ reg \in [Goroutines -> Registers]
            BY <1>1, <3>2 DEF SpanTypes, r
        <3>5. /\ reg' \in [Goroutines -> Registers] /\ reg'[g] = r
              /\ \A h \in Goroutines : h # g => reg'[h] = reg[h]
            BY <3>3, <3>4
        <3>6. /\ span_at' \in [Goroutines -> {"code", "walk", "read"} \cup Entering \cup Leaving]
              /\ span_at'[g] = "stop" /\ leaving' = leaving \cup {probed.sc}
              /\ UNCHANGED span_calls
              /\ \A h \in Goroutines : h # g => span_at'[h] = span_at[h]
            BY <1>1, <1>2, <1>10 DEF SpanTypes, Leaving
        <3>7. QED
            BY <3>3, <3>5, <3>6
    <2>3. \A h \in Goroutines : h # g => reg[h].sc # probed.sc
        BY <1>3, <1>10, EventIsOwn
    <2>4. probed.sc # None /\ None \notin DOMAIN tracked_spans_by_sc
        BY <2>1, OwnProbe
    <2>5. SpanTypes'
        BY <1>1, <1>2, <1>8, <2>1, <2>2 DEF SpanTypes
    <2>6. OnlySpans'
        BY <1>1, <1>2, <1>8, <2>1, <2>2 DEF OnlySpans
    <2>7. ASSUME NEW h \in Goroutines PROVE ProbeOK(h)'
        <3>1. CASE h # g
            <4>1. \A sc \in leaving' : \/ sc \in leaving
                      \/ \E p \in Probes : uprobe_context[<<p, g>>] # None
                             /\ uprobe_context[<<p, g>>].sc = sc
                BY <1>3, <1>10, <2>2
            <4>2. QED
                BY <1>2, <2>2, <3>1, <4>1, OtherProbes
        <3>2. CASE h = g
            <4>1. Span!PlaceOf(g)' = place
                BY <2>2, PlaceIs DEF place
            <4>2. uprobe_context'[Span!PlaceOf(g)'] = [sc |-> reg'[g].sc, psc |-> reg'[g].psc]
                BY <1>2, <2>1, <2>2, <4>1
            <4>3. QED
                BY <1>1, <1>2, <2>2, <3>2, <4>2 DEF ProbeOK, Entering, Leaving
        <3>3. QED
            BY <3>1, <3>2
    <2>8. OneEvent'
        <3>1. ASSUME NEW h \in Goroutines, NEW k \in Goroutines, reg'[h].sc = reg'[k].sc
              PROVE  h = k \/ reg'[h].sc = None
            BY <1>1, <2>2, <2>3, <3>1 DEF OneEvent
        <3>2. ASSUME NEW h \in Goroutines, span_at'[h] = "event", NEW pk \in Probes \X Span!Keys,
                     uprobe_context'[pk] # None
              PROVE  uprobe_context'[pk].sc # reg'[h].sc
            BY <1>1, <1>2, <2>2, <3>2 DEF OneEvent
        <3>3. \A p \in Probes, k \in Span!Keys : uprobe_context'[<<p, k>>] # None =>
                  k \in Goroutines /\ \E i \in 1..Len(span_calls'[k]) : span_calls'[k][i].probe = p
            BY <1>1, <1>2, <2>2 DEF OneEvent
        <3>4. \A pk, qk \in Probes \X Span!Keys :
                  (uprobe_context'[pk] # None /\ uprobe_context'[qk] # None
                      /\ uprobe_context'[pk].sc = uprobe_context'[qk].sc) => pk = qk
            BY <1>1, <1>2 DEF OneEvent
        <3>5. QED
            BY <3>1, <3>2, <3>3, <3>4 DEF OneEvent
    <2>9. Held'
        <3>1. ASSUME NEW sc \in DOMAIN tracked_spans_by_sc', sc \in leaving'
              PROVE  \E h \in Goroutines : reg'[h].sc = sc
            <4>1. CASE sc = probed.sc
                BY <2>2, <4>1
            <4>2. CASE sc # probed.sc
                <5>1. PICK h \in Goroutines : reg[h].sc = sc
                    BY <1>1, <1>2, <2>2, <3>1, <4>2 DEF Held
                <5>2. h # g
                    BY <1>2, <1>3, <2>4, <3>1, <5>1
                <5>3. QED
                    BY <2>2, <5>1, <5>2
            <4>3. QED
                BY <4>1, <4>2
        <3>2. QED
            BY <1>1, <1>2, <3>1 DEF Held
    <2>10. ASSUME NEW d \in Contexts PROVE ContextExplained(d)'
        <3>1. ContextExplained(d)
            BY DEF SpanInv
        <3>2. QED
            BY <1>2, <2>2, <3>1, ContextStays
    <2>11. QED
        BY <1>8, <2>5, <2>6, <2>7, <2>8, <2>9, <2>10, SpanParts
<1>11. QED
    BY <1>9, <1>10

(* The steps of a return that only look something up.                        *)
LEMMA SpanLooksUp ==
    ASSUME Span!SpanAssumption, SpanInv, NEW g \in Goroutines,
           Span!StopTracking(g) \/ Span!LookupParent(g)
    PROVE  SpanInv'
<1> DEFINE sc == reg[g].sc
           found == IF reg[g].psc \in DOMAIN tracked_spans_by_sc
                    THEN tracked_spans_by_sc[reg[g].psc] ELSE None
<1>1. SpanTypes /\ SpansNumbered /\ OnlySpans /\ ProbeOK(g) /\ OneEvent /\ Held
    BY DEF SpanInv
<1>2. UNCHANGED <<sampler, go_context_to_sc, tracked_spans_by_sc, uprobe_context, span_calls,
                  spans, leaving, leftover>>
    BY DEF Span!StopTracking, Span!LookupParent
<1>3. found \in Contexts \cup {None}
    BY <1>1 DEF SpanTypes
<1> HIDE DEF found
<1>4. /\ reg' \in [Goroutines -> Registers]
      /\ reg'[g].sc = sc /\ reg'[g].psc = reg[g].psc
      /\ span_at' \in [Goroutines -> {"code", "walk", "read"} \cup Entering \cup Leaving]
      /\ \/ span_at[g] = "stop" /\ span_at'[g] = "parent" /\ sc \in DOMAIN tracked_spans_by_sc
         \/ span_at[g] = "stop" /\ span_at'[g] = "forget" /\ sc \notin DOMAIN tracked_spans_by_sc
         \/ span_at[g] = "parent" /\ span_at'[g] = "context" /\ reg'[g].parent_ctx = found
      /\ \A h \in Goroutines : h # g => reg'[h] = reg[h] /\ span_at'[h] = span_at[h]
    <2>1. reg[g] \in Registers
        BY OwnProbe
    <2>2. CASE Span!StopTracking(g)
        BY <1>1, <2>2 DEF Span!StopTracking, Span!Goto, SpanTypes, Leaving
    <2>3. CASE Span!LookupParent(g)
        <3>1. ASSUME NEW r \in Registers, NEW x \in Contexts \cup {None}
              PROVE  /\ [r EXCEPT !.parent_ctx = x] \in Registers
                     /\ [r EXCEPT !.parent_ctx = x].sc = r.sc
                     /\ [r EXCEPT !.parent_ctx = x].psc = r.psc
                     /\ [r EXCEPT !.parent_ctx = x].parent_ctx = x
            BY DEF Registers
        <3>2. /\ reg' = [reg EXCEPT ![g] = [reg[g] EXCEPT !.parent_ctx = found]]
              /\ span_at[g] = "parent" /\ span_at' = [span_at EXCEPT ![g] = "context"]
            BY <2>3 DEF Span!LookupParent, Span!Goto, found
        <3>3. QED
            BY <1>1, <1>3, <2>1, <3>1, <3>2 DEF SpanTypes, Leaving
    <2>4. QED
        BY <2>2, <2>3
<1>8. SpansNumbered' /\ Span!NoDeadParent' /\ Span!TraceIsWhole' /\ Scs' = Scs
    BY <1>2, SameSpans
<1>9. SpanTypes'
    BY <1>1, <1>2, <1>4, <1>8 DEF SpanTypes
<1>10. OnlySpans'
    BY <1>1, <1>2, <1>4, <1>8 DEF OnlySpans
<1>11. ASSUME NEW h \in Goroutines PROVE ProbeOK(h)'
    <2>1. CASE h # g
        BY <1>2, <1>4, <2>1, OtherProbes
    <2>2. CASE h = g
        <3>1. Span!PlaceOf(g)' = Span!PlaceOf(g)
            BY <1>2, PlaceIs
        <3>2. found # None => /\ reg[g].psc \in DOMAIN tracked_spans_by_sc
                              /\ tracked_spans_by_sc[reg[g].psc] = found
            BY DEF found
        <3>3. QED
            BY <1>1, <1>2, <1>4, <2>2, <3>1, <3>2 DEF ProbeOK, Entering, Leaving
    <2>3. QED
        BY <2>1, <2>2
<1>12. \A h \in Goroutines : /\ reg'[h].sc = reg[h].sc
                             /\ span_at'[h] = "event" => span_at[h] = "event"
    BY <1>4
<1>13. OneEvent' /\ Held'
    BY <1>1, <1>2, <1>12, EventsStay, HeldStays
<1>14. ASSUME NEW d \in Contexts PROVE ContextExplained(d)'
    <2>1. ContextExplained(d)
        BY DEF SpanInv
    <2>2. QED
        BY <1>2, <1>4, <2>1, ContextStays
<1>15. QED
    BY <1>8, <1>9, <1>10, <1>11, <1>13, <1>14, SpanParts

(* The end of a span: its context, its entry, its event.                     *)
LEMMA SpanReleaseContext ==
    ASSUME Span!SpanAssumption, SpanInv, NEW g \in Goroutines, Span!ReleaseContext(g)
    PROVE  SpanInv'
<1> DEFINE sc == reg[g].sc
           psc == reg[g].psc
           ctx == tracked_spans_by_sc[sc]
           parent == reg[g].parent_ctx
<1>1. SpanTypes /\ SpansNumbered /\ OnlySpans /\ ProbeOK(g) /\ OneEvent /\ Held
    BY DEF SpanInv
<1>2. /\ span_at[g] = "context" /\ span_at' = [span_at EXCEPT ![g] = "untrack"]
      /\ leftover' = IF parent # None /\ (parent # ctx \/ psc \in leaving)
                     THEN leftover \cup {ctx} ELSE leftover
      /\ UNCHANGED <<sampler, tracked_spans_by_sc, uprobe_context, span_calls, reg, spans,
                     leaving>>
    BY DEF Span!ReleaseContext, Span!Goto
<1>3. /\ sc \in leaving /\ sc \in DOMAIN tracked_spans_by_sc /\ ctx \in Contexts
      /\ sc # None /\ sc \in Scs
      /\ psc \in Span!AnySpan \cup {None} /\ span_calls[g] # <<>>
    <2>1. sc \in leaving /\ sc \in DOMAIN tracked_spans_by_sc /\ span_calls[g] # <<>>
        BY <1>1, <1>2 DEF ProbeOK, Leaving
    <2>2. QED
        BY <1>1, <2>1, OwnProbe DEF SpanTypes, Registers
<1>4. /\ go_context_to_sc' \in [Contexts -> Span!AnySpan \cup {None}]
      /\ go_context_to_sc'[ctx] = None \/ (parent # None /\ go_context_to_sc'[ctx] = psc)
      /\ \A d \in Contexts : d # ctx => go_context_to_sc'[d] = go_context_to_sc[d]
    <2>1. go_context_to_sc \in [Contexts -> Span!AnySpan \cup {None}]
        BY <1>1 DEF SpanTypes
    <2>2. Span!Release(g)
        BY DEF Span!ReleaseContext
    <2>3. CASE parent = None
        <3>1. go_context_to_sc' = [go_context_to_sc EXCEPT ![ctx] = None]
            BY <2>2, <2>3 DEF Span!Release
        <3>2. QED
            BY <1>3, <2>1, <3>1
    <2>4. CASE parent # None
        <3>1. go_context_to_sc' = IF Span!ContextHasRoom(ctx)
                  THEN [go_context_to_sc EXCEPT ![ctx] = psc] ELSE go_context_to_sc
            BY <2>2, <2>4 DEF Span!Release, Span!bpf_probe_read_user
        <3>2. go_context_to_sc[ctx] # None => Span!ContextHasRoom(ctx)
            BY <1>3 DEF Span!ContextHasRoom, Span!ContextsIn
        <3> HIDE DEF ctx, psc, parent
        <3>3. QED
            BY <1>3, <2>1, <2>4, <3>1, <3>2
    <2>5. QED
        BY <2>3, <2>4
<1>5. (parent # None /\ psc \notin leaving) =>
          psc \in DOMAIN tracked_spans_by_sc /\ tracked_spans_by_sc[psc] = parent
    BY <1>1, <1>2 DEF ProbeOK
<1>6. parent # None => psc \in Scs
    BY <1>1, <1>5 DEF SpanTypes, OnlySpans
<1>7. /\ span_at'[g] = "untrack" /\ leftover \subseteq leftover' /\ leftover' \subseteq Contexts
      /\ span_at' \in [Goroutines -> {"code", "walk", "read"} \cup Entering \cup Leaving]
      /\ \A h \in Goroutines : h # g => span_at'[h] = span_at[h]
    BY <1>1, <1>2, <1>3 DEF SpanTypes, Leaving
<1> HIDE DEF ctx
<1>8. SpansNumbered' /\ Span!NoDeadParent' /\ Span!TraceIsWhole' /\ Scs' = Scs
    BY <1>2, <1>7, SameSpans
<1>9. SpanTypes'
    BY <1>1, <1>2, <1>4, <1>7, <1>8 DEF SpanTypes
<1>10. OnlySpans'
    <2>1. \A d \in Contexts : go_context_to_sc'[d] \in Scs' \cup {None}
        BY <1>1, <1>4, <1>6, <1>8 DEF OnlySpans
    <2>2. QED
        BY <1>1, <1>2, <1>8, <2>1 DEF OnlySpans
<1>11. ASSUME NEW h \in Goroutines PROVE ProbeOK(h)'
    <2>1. CASE h # g
        BY <1>2, <1>7, <2>1, OtherProbes
    <2>2. CASE h = g
        <3>1. Span!PlaceOf(g)' = Span!PlaceOf(g)
            BY <1>2, PlaceIs
        <3>2. QED
            BY <1>1, <1>2, <1>7, <2>2, <3>1 DEF ProbeOK, Entering, Leaving
    <2>3. QED
        BY <2>1, <2>2
<1>12. OneEvent' /\ Held'
    BY <1>1, <1>2, <1>7, EventsStay, HeldStays
<1>13. ASSUME NEW d \in Contexts PROVE ContextExplained(d)'
    <2>1. ContextExplained(d)
        BY DEF SpanInv
    <2>2. CASE d # ctx /\ go_context_to_sc[d] # sc
        BY <1>2, <1>4, <1>7, <2>1, <2>2, ContextStays
    <2>3. CASE d # ctx /\ go_context_to_sc[d] = sc
        <3>1. ASSUME NEW h \in Goroutines, span_at[h] = "index", reg[h].sc = sc PROVE FALSE
            BY <1>3, <3>1 DEF SpanInv, ProbeOK, Entering
        <3>2. d \in leftover
            BY <1>3, <2>1, <2>3, <3>1 DEF ContextExplained, ctx
        <3>3. QED
            BY <1>7, <3>2 DEF ContextExplained
    <2>4. CASE d = ctx /\ go_context_to_sc'[ctx] = None
        BY <2>4 DEF ContextExplained
    <2>5. CASE d = ctx /\ parent # None /\ go_context_to_sc'[ctx] = psc
        <3>1. CASE parent # ctx \/ psc \in leaving
            BY <1>2, <2>5, <3>1 DEF ContextExplained
        <3>2. CASE parent = ctx /\ psc \notin leaving
            <4>1. psc \in DOMAIN tracked_spans_by_sc' /\ tracked_spans_by_sc'[psc] = ctx
                BY <1>2, <1>5, <2>5, <3>2
            <4>2. ASSUME NEW h \in Goroutines, span_at'[h] = "untrack" PROVE reg'[h].sc # psc
                <5>1. reg'[h].sc \in leaving
                    BY <1>2, <1>11, <4>2 DEF ProbeOK, Leaving
                <5>2. QED
                    BY <3>2, <5>1
            <4>3. QED
                BY <2>5, <4>1, <4>2 DEF ContextExplained
        <3>3. QED
            BY <3>1, <3>2
    <2>6. QED
        BY <1>4, <2>2, <2>3, <2>4, <2>5
<1>14. QED
    BY <1>8, <1>9, <1>10, <1>11, <1>12, <1>13, SpanParts

LEMMA SpanUntrack ==
    ASSUME Span!SpanAssumption, SpanInv, NEW g \in Goroutines, Span!Untrack(g)
    PROVE  SpanInv'
<1> DEFINE sc == reg[g].sc
<1>1. SpanTypes /\ SpansNumbered /\ OnlySpans /\ ProbeOK(g) /\ OneEvent /\ Held
    BY DEF SpanInv
<1>2. /\ span_at[g] = "untrack" /\ span_at' = [span_at EXCEPT ![g] = "forget"]
      /\ tracked_spans_by_sc' = Span!Without(tracked_spans_by_sc, sc)
      /\ UNCHANGED <<sampler, go_context_to_sc, uprobe_context, span_calls, reg, spans,
                     leaving, leftover>>
    BY DEF Span!Untrack, Span!Goto
<1>3. sc \in leaving /\ sc \in DOMAIN tracked_spans_by_sc /\ span_calls[g] # <<>> /\ sc # None
    <2>1. sc \in leaving /\ sc \in DOMAIN tracked_spans_by_sc /\ span_calls[g] # <<>>
        BY <1>1, <1>2 DEF ProbeOK, Leaving
    <2>2. QED
        BY <2>1, OwnProbe
<1> HIDE DEF sc
<1>4. /\ DOMAIN tracked_spans_by_sc' = DOMAIN tracked_spans_by_sc \ {sc}
      /\ tracked_spans_by_sc' \in [DOMAIN tracked_spans_by_sc' -> Contexts]
      /\ \A x \in DOMAIN tracked_spans_by_sc' : tracked_spans_by_sc'[x] = tracked_spans_by_sc[x]
    <2>1. tracked_spans_by_sc' =
              [k \in DOMAIN tracked_spans_by_sc \ {sc} |-> tracked_spans_by_sc[k]]
        BY <1>2 DEF Span!Without
    <2>2. tracked_spans_by_sc \in [DOMAIN tracked_spans_by_sc -> Contexts]
        BY <1>1 DEF SpanTypes
    <2>3. QED
        BY <2>1, <2>2
<1>5. /\ span_at'[g] = "forget"
      /\ span_at' \in [Goroutines -> {"code", "walk", "read"} \cup Entering \cup Leaving]
      /\ \A h \in Goroutines : h # g => span_at'[h] = span_at[h]
    BY <1>1, <1>2 DEF SpanTypes, Leaving
<1>6. SpansNumbered' /\ Span!NoDeadParent' /\ Span!TraceIsWhole' /\ Scs' = Scs
    BY <1>2, SameSpans
<1>7. SpanTypes'
    BY <1>1, <1>2, <1>4, <1>5, <1>6 DEF SpanTypes
<1>8. OnlySpans'
    BY <1>1, <1>2, <1>4, <1>6 DEF OnlySpans
<1>9. ASSUME NEW h \in Goroutines PROVE ProbeOK(h)'
    <2>1. CASE h # g
        <3>1. ProbeOK(h) /\ reg[h].sc # sc
            BY <1>1, <1>3, <2>1 DEF SpanInv, OneEvent, sc
        <3>2. span_calls'[h] = span_calls[h] /\ Span!PlaceOf(h)' = Span!PlaceOf(h)
            BY <1>2, PlaceIs
        <3>3. reg[h].sc \in DOMAIN tracked_spans_by_sc' <=> reg[h].sc \in DOMAIN tracked_spans_by_sc
            BY <1>4, <3>1
        <3>4. (reg[h].psc \in DOMAIN tracked_spans_by_sc /\ reg[h].psc \notin leaving) =>
                  /\ reg[h].psc \in DOMAIN tracked_spans_by_sc'
                  /\ tracked_spans_by_sc'[reg[h].psc] = tracked_spans_by_sc[reg[h].psc]
            BY <1>3, <1>4
        <3>5. QED
            BY <1>2, <1>5, <2>1, <3>1, <3>2, <3>3, <3>4 DEF ProbeOK
    <2>2. CASE h = g
        <3>1. Span!PlaceOf(g)' = Span!PlaceOf(g)
            BY <1>2, PlaceIs
        <3>2. reg'[g].sc \notin DOMAIN tracked_spans_by_sc'
            BY <1>2, <1>4 DEF sc
        <3>3. QED
            BY <1>1, <1>2, <1>5, <2>2, <3>1, <3>2 DEF ProbeOK, Entering, Leaving
    <2>3. QED
        BY <2>1, <2>2
<1>10. OneEvent' /\ Held'
    BY <1>1, <1>2, <1>4, <1>5, EventsStay, HeldStays
<1>11. ASSUME NEW d \in Contexts PROVE ContextExplained(d)'
    <2>1. ContextExplained(d)
        BY DEF SpanInv
    <2>2. go_context_to_sc[d] \in DOMAIN tracked_spans_by_sc =>
              \/ /\ go_context_to_sc[d] \in DOMAIN tracked_spans_by_sc'
                 /\ tracked_spans_by_sc'[go_context_to_sc[d]] =
                        tracked_spans_by_sc[go_context_to_sc[d]]
              \/ \E h \in Goroutines : span_at[h] = "untrack" /\ reg[h].sc = go_context_to_sc[d]
        BY <1>2, <1>4 DEF sc
    <2>3. QED
        BY <1>2, <1>5, <2>1, <2>2, ContextStays
<1>12. QED
    BY <1>6, <1>7, <1>8, <1>9, <1>10, <1>11, SpanParts

LEMMA SpanForgetEvent ==
    ASSUME Span!SpanAssumption, SpanInv, NEW g \in Goroutines, Span!ForgetEvent(g)
    PROVE  SpanInv'
<1> DEFINE place == Span!PlaceOf(g)
           sc == reg[g].sc
<1>1. SpanTypes /\ SpansNumbered /\ OnlySpans /\ ProbeOK(g) /\ OneEvent /\ Held
    BY DEF SpanInv
<1>2. /\ span_at[g] = "forget" /\ span_at' = [span_at EXCEPT ![g] = "code"]
      /\ uprobe_context' = [uprobe_context EXCEPT ![place] = None]
      /\ span_calls' = [span_calls EXCEPT ![g] = Tail(@)]
      /\ reg' = [reg EXCEPT ![g] = Span!Clear]
      /\ UNCHANGED <<sampler, go_context_to_sc, tracked_spans_by_sc, spans, leaving, leftover>>
    BY DEF Span!ForgetEvent, Span!Forget, Span!Goto
<1>3. /\ span_calls[g] # <<>> /\ sc \notin DOMAIN tracked_spans_by_sc
      /\ uprobe_context[place] = [sc |-> sc, psc |-> reg[g].psc]
    BY <1>1, <1>2 DEF ProbeOK, Leaving
<1>4. /\ place = <<Head(span_calls[g]).probe, g>> /\ place \in Probes \X Span!Keys
      /\ Head(span_calls[g]).probe \in Probes /\ span_calls[g] \in Seq(Calls)
    BY <1>3, OwnProbe DEF Calls
<1>5. Span!Clear \in Registers /\ Span!Clear.sc = None
    BY DEF Span!Clear, Registers
<1>6. /\ Tail(span_calls[g]) \in Seq(Calls) /\ Len(Tail(span_calls[g])) = Len(span_calls[g]) - 1
      /\ Len(span_calls[g]) \in Nat /\ 1 \in 1..Len(span_calls[g])
      /\ Head(span_calls[g]) = span_calls[g][1]
      /\ \A i \in 1..Len(Tail(span_calls[g])) : i + 1 \in 1..Len(span_calls[g])
             /\ Tail(span_calls[g])[i] = span_calls[g][i + 1]
      /\ \A i \in 1..Len(span_calls[g]) : i # 1 => i - 1 \in 1..Len(Tail(span_calls[g]))
             /\ Tail(span_calls[g])[i - 1] = span_calls[g][i]
    BY <1>3, <1>4, PopCall
<1> HIDE DEF place, sc
<1>7. /\ uprobe_context' \in [Probes \X Span!Keys -> SpanEvents \cup {None}]
      /\ uprobe_context'[place] = None
      /\ \A pk \in Probes \X Span!Keys : pk # place => uprobe_context'[pk] = uprobe_context[pk]
    BY <1>1, <1>2, <1>4 DEF SpanTypes
<1>8. /\ span_at'[g] = "code" /\ reg'[g] = Span!Clear
      /\ span_calls'[g] = Tail(span_calls[g])
      /\ span_at' \in [Goroutines -> {"code", "walk", "read"} \cup Entering \cup Leaving]
      /\ reg' \in [Goroutines -> Registers]
      /\ span_calls' \in [Goroutines -> Seq(Calls)]
      /\ \A h \in Goroutines : h # g => /\ span_at'[h] = span_at[h] /\ reg'[h] = reg[h]
                                        /\ span_calls'[h] = span_calls[h]
    BY <1>1, <1>2, <1>5, <1>6 DEF SpanTypes, Calls
<1>9. SpansNumbered' /\ Span!NoDeadParent' /\ Span!TraceIsWhole' /\ Scs' = Scs
    BY <1>2, SameSpans
<1>10. SpanTypes'
    BY <1>1, <1>2, <1>7, <1>8, <1>9 DEF SpanTypes, Calls
<1>11. OnlySpans'
    <2>1. \A h \in Goroutines : reg'[h].sc \in Scs' \cup {None}
        BY <1>1, <1>5, <1>8, <1>9 DEF OnlySpans
    <2>2. QED
        BY <1>1, <1>2, <1>7, <1>9, <2>1 DEF OnlySpans
<1>12. ASSUME NEW h \in Goroutines PROVE ProbeOK(h)'
    <2>1. CASE h # g
        <3>1. ASSUME NEW p \in Probes PROVE uprobe_context'[<<p, h>>] = uprobe_context[<<p, h>>]
            BY <1>4, <1>7, <2>1 DEF Span!Keys
        <3>2. QED
            BY <1>2, <1>8, <2>1, <3>1, OtherProbes
    <2>2. CASE h = g
        <3>1. ASSUME NEW i \in 1..Len(span_calls'[g]), NEW j \in 1..Len(span_calls'[g]),
                     span_calls'[g][i].probe = span_calls'[g][j].probe
              PROVE  i = j
            <4>1. i + 1 = j + 1
                BY <1>1, <1>6, <1>8, <3>1 DEF ProbeOK
            <4>2. QED
                BY <4>1
        <3>2. QED
            BY <1>5, <1>8, <2>2, <3>1 DEF ProbeOK, Entering, Leaving
    <2>3. QED
        BY <2>1, <2>2
<1>13. OneEvent'
    <2>1. ASSUME NEW p \in Probes, NEW k \in Span!Keys, uprobe_context'[<<p, k>>] # None
          PROVE  k \in Goroutines /\ \E i \in 1..Len(span_calls'[k]) : span_calls'[k][i].probe = p
        <3>1. <<p, k>> # place /\ uprobe_context[<<p, k>>] # None
            BY <1>7, <2>1
        <3>2. PICK i \in 1..Len(span_calls[k]) : k \in Goroutines /\ span_calls[k][i].probe = p
            BY <1>1, <3>1 DEF OneEvent
        <3>3. CASE k = g
            <4>1. i # 1
                BY <1>4, <1>6, <3>1, <3>2, <3>3
            <4>2. i - 1 \in 1..Len(span_calls'[k]) /\ span_calls'[k][i - 1] = span_calls[k][i]
                BY <1>6, <1>8, <3>3, <4>1
            <4>3. QED
                BY <3>2, <4>2
        <3>4. CASE k # g
            BY <1>8, <3>2, <3>4
        <3>5. QED
            BY <3>3, <3>4
    <2>2. ASSUME NEW pk \in Probes \X Span!Keys, NEW qk \in Probes \X Span!Keys,
                 uprobe_context'[pk] # None, uprobe_context'[qk] # None,
                 uprobe_context'[pk].sc = uprobe_context'[qk].sc
          PROVE  pk = qk
        BY <1>1, <1>7, <2>2 DEF OneEvent
    <2>3. ASSUME NEW h \in Goroutines, span_at'[h] = "event", NEW pk \in Probes \X Span!Keys,
                 uprobe_context'[pk] # None
          PROVE  uprobe_context'[pk].sc # reg'[h].sc
        <3>1. h # g
            BY <1>8, <2>3
        <3>2. span_at[h] = "event" /\ reg'[h] = reg[h] /\ uprobe_context'[pk] = uprobe_context[pk]
            BY <1>7, <1>8, <2>3, <3>1
        <3>3. QED
            BY <1>1, <2>3, <3>2 DEF OneEvent
    <2>4. \A h, k \in Goroutines : reg'[h].sc = reg'[k].sc => h = k \/ reg'[h].sc = None
        <3>1. \A h \in Goroutines : reg'[h].sc \in {reg[h].sc, None}
            BY <1>5, <1>8
        <3>2. QED
            BY <1>1, <1>5, <1>8, <3>1 DEF OneEvent
    <2>5. QED
        BY <2>1, <2>2, <2>3, <2>4 DEF OneEvent
<1>14. Held'
    <2>1. ASSUME NEW x \in DOMAIN tracked_spans_by_sc, NEW pk \in Probes \X Span!Keys,
                 uprobe_context[pk] # None, uprobe_context[pk].sc = x
          PROVE  uprobe_context'[pk] = uprobe_context[pk]
        BY <1>3, <1>7, <2>1
    <2>2. \A x \in DOMAIN tracked_spans_by_sc, h \in Goroutines :
              reg[h].sc = x => reg'[h].sc = x
        BY <1>3, <1>8 DEF sc
    <2>3. QED
        BY <1>1, <1>2, <2>1, <2>2, HeldStays
<1>15. ASSUME NEW d \in Contexts PROVE ContextExplained(d)'
    <2>1. ContextExplained(d)
        BY DEF SpanInv
    <2>2. \A h \in Goroutines : span_at[h] = "index" =>
              span_at'[h] = "index" /\ reg'[h] = reg[h] /\ span_calls'[h] = span_calls[h]
        BY <1>2, <1>8
    <2>3. \A h \in Goroutines : span_at'[h] = "untrack" =>
              span_at[h] = "untrack" /\ reg'[h].sc = reg[h].sc
        BY <1>8
    <2>4. QED
        BY <1>2, <2>1, <2>2, <2>3, ContextStays
<1>16. QED
    BY <1>9, <1>10, <1>11, <1>12, <1>13, <1>14, <1>15, SpanParts

LEMMA SpanStep ==
    ASSUME Span!SpanAssumption, SpanInv, [Span!Next]_Span!stvars
    PROVE  SpanInv'
<1>1. CASE UNCHANGED Span!stvars
    <2>1. UNCHANGED <<sampler, go_context_to_sc, tracked_spans_by_sc, uprobe_context, span_calls,
                      span_at, reg, spans, leaving, leftover>>
        BY <1>1 DEF Span!stvars
    <2>2. SpansNumbered' /\ Span!NoDeadParent' /\ Span!TraceIsWhole' /\ Scs' = Scs
        BY <2>1, SameSpans
    <2>3. SpanTypes' /\ OnlySpans'
        <3>1. SpanTypes /\ OnlySpans
            BY DEF SpanInv
        <3>2. SpanTypes'
            BY <2>1, <2>2, <3>1 DEF SpanTypes
        <3>3. OnlySpans'
            BY <2>1, <2>2, <3>1 DEF OnlySpans
        <3>4. QED
            BY <3>2, <3>3
    <2>7. OneEvent' /\ Held'
        BY <2>1, EventsStay, HeldStays DEF SpanInv
    <2>4. ASSUME NEW h \in Goroutines PROVE ProbeOK(h)'
        BY <2>1, PlaceIs DEF SpanInv, ProbeOK
    <2>5. ASSUME NEW d \in Contexts PROVE ContextExplained(d)'
        BY <2>1, ContextStays DEF SpanInv
    <2>6. QED
        BY <2>2, <2>3, <2>4, <2>5, <2>7, SpanParts
<1>2. CASE Span!Next
    <2>1. PICK g \in Goroutines :
              \/ Span!Call(g) \/ Span!Walk(g) \/ Span!ReadParent(g) \/ Span!StoreEvent(g)
              \/ Span!TrackContext(g) \/ Span!TrackSpan(g) \/ Span!Return(g)
              \/ Span!StopTracking(g) \/ Span!LookupParent(g) \/ Span!ReleaseContext(g)
              \/ Span!Untrack(g) \/ Span!ForgetEvent(g)
        BY <1>2 DEF Span!Next
    <2>2. QED
        BY <2>1, SpanCall, SpanWalk, SpanReadParent, SpanStoreEvent, SpanTrackContext,
           SpanTrackSpan, SpanReturn, SpanLooksUp, SpanReleaseContext, SpanUntrack,
           SpanForgetEvent
<1>3. QED
    BY <1>1, <1>2

-----------------------------------------------------------------------------
(* Every record pairs the entry and the return of one call, unless another   *)
(* call of the process overlapped it; every other call that returned is      *)
(* reported, and no entry of a finished call stays in the map, for any       *)
(* number of threads and processes and any size of the map                   *)
(* (perf.bpf.c:26-47).                                                       *)
THEOREM Measures == Spec => []RecordsPair
<1> DEFINE Inv == part = "latency" => LatencyInv
<1>1. Init => Inv
    <2>1. ASSUME Init, part = "latency" PROVE Latency!Init
        BY <2>1 DEF Init
    <2>2. QED
        BY <2>1, LatencySizes, LatencyInit
<1>2. Inv /\ [Next]_vars => Inv'
    <2>1. ASSUME LatencyInv, [Latency!Next]_latencyVars PROVE LatencyInv'
        BY <2>1, LatencySizes, LatencyStep DEF latencyVars, Latency!lpvars
    <2>2. QED
        BY <2>1, PartSteps
<1>3. Inv => RecordsPair
    BY LatencyLeaves DEF RecordsPair, LatencyInv
<1>4. QED
    BY <1>1, <1>2, <1>3, PTL DEF Spec

(* A CPU writes into its own part of the area only and overwrites nothing it *)
(* has handed to the Go program until a part is begun again, and the slice   *)
(* holds what was appended to it, for any area of whole pages, any number of *)
(* CPUs and any lengths (alloc.h:27-127, go_types.h:68-160).                 *)
THEOREM TargetsStay == Spec => []TargetIntact
<1> DEFINE Inv == part = "alloc" => AllocInv
<1>1. Init => Inv
    <2>1. ASSUME Init, part = "alloc" PROVE Alloc!Init
        BY <2>1 DEF Init
    <2>2. QED
        BY <2>1, AllocSizes, AllocInit
<1>2. Inv /\ [Next]_vars => Inv'
    <2>1. ASSUME AllocInv, [Alloc!Next]_allocVars PROVE AllocInv'
        BY <2>1, AllocSizes, AllocStep DEF allocVars, Alloc!tavars
    <2>2. QED
        BY <2>1, PartSteps
<1>3. Inv => TargetIntact
    BY AllocSafe DEF TargetIntact
<1>4. QED
    BY <1>1, <1>2, <1>3, PTL DEF Spec

(* When no probed call is under way, no span and no event is registered; a   *)
(* context is registered only for a reason that is known; a span whose       *)
(* parent had ended took it from such a context; and a span is sampled as    *)
(* its parent is, for any number of goroutines, probes and contexts, any     *)
(* chains of contexts and any size of the maps (start_span.h, sampling.h,    *)
(* go_context.h, uprobe.h).                                                  *)
THEOREM SpansKept == Spec => []SpansRight
<1> DEFINE Inv == part = "span" => SpanInv
<1>1. Init => Inv
    <2>1. ASSUME Init, part = "span" PROVE Span!Init
        BY <2>1 DEF Init
    <2>2. QED
        BY <2>1, SpanSizes, SpanInit
<1>2. Inv /\ [Next]_vars => Inv'
    <2>1. ASSUME SpanInv, [Span!Next]_spanVars PROVE SpanInv'
        BY <2>1, SpanSizes, SpanStep DEF spanVars, Span!stvars
    <2>2. QED
        BY <2>1, PartSteps
<1>3. Inv => SpansRight
    BY SpanSizes, SpanLeaves DEF SpansRight
<1>4. QED
    BY <1>1, <1>2, <1>3, PTL DEF Spec
=============================================================================
