---------------------------- MODULE LatencyProbe ----------------------------
(* The two programs of perf.bpf.c, attached to the entry and to the returns  *)
(* of one function.  The entry stores its time in a hash map under the       *)
(* process id, the return completes the record and sends it to user space.   *)
(* A call is a number, taken as the time of its entry and of its return, so  *)
(* that a record tells whose entry and whose return it holds.                *)
EXTENDS Naturals, Sequences, FiniteSets, SequencesExt

CONSTANTS
    Threads,        \* threads that run the probed function
    Process,        \* the process (tgid) of a thread
    MaxEntries,     \* MAX_CONCURRENT
    Elements,       \* preallocated elements of the hash map
    MaxCalls,       \* bound: calls in a behaviour
    None

(* There may be any number of threads, processes, places and calls.          *)
LatencyAssumption == MaxCalls \in Nat /\ None \notin Elements

VARIABLES
    stack,          \* the calls a thread is in, the innermost one first
    step,           \* where a thread is in the return program
    stat,           \* the pointer fun_perf_stat of the return program
    element,        \* content of the map's elements
    fun_perf_stat_events,   \* process -> the element that holds its record
    events,         \* records sent to user space, and the call that sent each
    calls,          \* calls so far
    disturbed,      \* calls that something in the program's design may distort
    unmeasured      \* calls whose entry found the map full, that never return,
                    \* or whose record the perf buffer dropped

lpvars == <<stack, step, stat, element, fun_perf_stat_events, events, calls,
            disturbed, unmeasured>>

Processes == {Process[t] : t \in Threads}

(* bpf_get_current_pid_tgid() >> 32: the process, whatever the thread.       *)
KeyTruncated(t) == CHOOSE p \in Processes : TRUE
Key(t) == Process[t]
Record == [start_time : 0..MaxCalls, end_time : 0..MaxCalls, pid : Processes]

TypeOK ==
    /\ stack \in [Threads -> SeqOf(1..MaxCalls, MaxCalls)]
    /\ step \in [Threads -> {"running", "found", "ended", "deleted"}]
    /\ stat \in [Threads -> Elements \cup {None}]
    /\ element \in [Elements -> Record \cup {None}]
    /\ fun_perf_stat_events \in [Processes -> Elements \cup {None}]
    /\ events \subseteq Record \X (1..MaxCalls)
    /\ calls \in 0..MaxCalls
    /\ disturbed \subseteq 1..MaxCalls
    /\ unmeasured \subseteq 1..MaxCalls

Init ==
    /\ stack = [t \in Threads |-> <<>>]
    /\ step = [t \in Threads |-> "running"]
    /\ stat = [t \in Threads |-> None]
    /\ element = [e \in Elements |-> None]
    /\ fun_perf_stat_events = [p \in Processes |-> None]
    /\ events = {}
    /\ calls = 0
    /\ disturbed = {}
    /\ unmeasured = {}

Used == {fun_perf_stat_events[p] : p \in Processes} \ {None}
Underway(p) == UNION {Range(stack[t]) : t \in {u \in Threads : Process[u] = p}}

(* bpf_map_update_elem with flags 0: a free element takes the record and     *)
(* replaces the element the key had, which becomes free at once.  A new key  *)
(* is refused when the map is full.                                          *)
Refused(p) == fun_perf_stat_events[p] = None /\ Cardinality(Used) >= MaxEntries

(* uprobe_FunLostTime: a thread enters the function, possibly from within it.*)
uprobe(t) ==
    LET p == Key(t)
        c == calls + 1
        others == Underway(Process[t])
    IN  /\ step[t] = "running"
        /\ calls < MaxCalls
        /\ calls' = c
        /\ stack' = [stack EXCEPT ![t] = <<c>> \o @]
        /\ IF Refused(p)
           THEN /\ unmeasured' = unmeasured \cup {c}
                /\ disturbed' = disturbed \cup (IF others = {} THEN {} ELSE others \cup {c})
                /\ UNCHANGED <<element, fun_perf_stat_events>>
           ELSE \E e \in Elements \ Used :
                /\ element' = [element EXCEPT ![e] =
                       [start_time |-> c, end_time |-> 0, pid |-> Process[t]]]
                /\ fun_perf_stat_events' = [fun_perf_stat_events EXCEPT ![p] = e]
                /\ LET met == others \cup
                       {Head(stack[u]) : u \in {v \in Threads : stat[v] = e}}
                   IN  disturbed' = disturbed \cup (IF met = {} THEN {} ELSE met \cup {c})
                /\ UNCHANGED unmeasured
        /\ UNCHANGED <<step, stat, events>>

(* uretprobe_FunLostTime: the lookup; without a record the program ends.     *)
Returned(t) == stack' = [stack EXCEPT ![t] = Tail(@)]
uretprobe(t) ==
    LET e == fun_perf_stat_events[Key(t)]
    IN  /\ step[t] = "running"
        /\ stack[t] # <<>>
        /\ IF e = None
           THEN Returned(t) /\ UNCHANGED <<step, stat>>
           ELSE /\ step' = [step EXCEPT ![t] = "found"]
                /\ stat' = [stat EXCEPT ![t] = e]
                /\ UNCHANGED stack
        /\ UNCHANGED <<element, fun_perf_stat_events, events, calls, disturbed,
                       unmeasured>>

(* fun_perf_stat->end_time = ..., through the pointer into the map.          *)
SetEndTime(t) ==
    /\ step[t] = "found"
    /\ element' = [element EXCEPT ![stat[t]].end_time = Head(stack[t])]
    /\ step' = [step EXCEPT ![t] = "ended"]
    /\ UNCHANGED <<stack, stat, fun_perf_stat_events, events, calls, disturbed,
                   unmeasured>>

(* bpf_map_delete_elem: the element is free, the pointer still points to it. *)
DeleteElem(t) ==
    /\ step[t] = "ended"
    /\ fun_perf_stat_events' = [fun_perf_stat_events EXCEPT ![Key(t)] = None]
    /\ step' = [step EXCEPT ![t] = "deleted"]
    /\ UNCHANGED <<stack, stat, element, events, calls, disturbed, unmeasured>>

(* bpf_perf_event_output of what the pointer points to, which a full buffer  *)
(* drops, and the return from the function.                                  *)
Output(t) ==
    /\ step[t] = "deleted"
    /\ \/ /\ events' = events \cup {<<element[stat[t]], Head(stack[t])>>}
          /\ UNCHANGED unmeasured
       \/ /\ unmeasured' = unmeasured \cup {Head(stack[t])}
          /\ UNCHANGED events
    /\ step' = [step EXCEPT ![t] = "running"]
    /\ stat' = [stat EXCEPT ![t] = None]
    /\ Returned(t)
    /\ UNCHANGED <<element, fun_perf_stat_events, calls, disturbed>>

(* A process is killed inside the function; its id is used again.            *)
Dies(p) ==
    /\ Underway(p) # {}
    /\ \A t \in Threads : Process[t] = p => step[t] = "running"
    /\ unmeasured' = unmeasured \cup Underway(p)
    /\ stack' = [t \in Threads |-> IF Process[t] = p THEN <<>> ELSE stack[t]]
    /\ UNCHANGED <<step, stat, element, fun_perf_stat_events, events, calls, disturbed>>

Next ==
    \/ \E t \in Threads :
        uprobe(t) \/ uretprobe(t) \/ SetEndTime(t) \/ DeleteElem(t) \/ Output(t)
    \/ \E p \in Processes : Dies(p)

Spec == Init /\ [][Next]_lpvars

-----------------------------------------------------------------------------
(* A record that is sent pairs the entry and the return of one call, unless  *)
(* another call of the process overlapped it (the map has one place per      *)
(* process), or they met in one element (it is given away when it is deleted, *)
(* while a pointer into it is still used).                                   *)
ReportsOwnCall == \A ev \in events :
    ev[2] \notin disturbed =>
        ev[1].start_time = ev[2] /\ ev[1].end_time = ev[2]

(* A call that returned undisturbed is reported: neither what a killed       *)
(* process left in the map nor a call of another process can lose it.        *)
ReportsEveryCall == \A c \in 1..calls :
    \/ c \in disturbed \cup unmeasured
    \/ \E p \in Processes : c \in Underway(p)
    \/ \E ev \in events : ev[2] = c

(* When no call is under way, the map holds records of killed processes      *)
(* only: whatever the order of the lookups and deletes of the threads of one *)
(* process, they leave no record that would take up one of the places.       *)
NoEntryLeft ==
    (\A p \in Processes : Underway(p) = {}) =>
        \A e \in Used : element[e].start_time \in unmeasured
=============================================================================
