--------------------------- MODULE ReportManager ---------------------------
(* report/bandwidth_report_manager.go: StartReport and EndReport, called     *)
(* concurrently for game events, keep one task per session and the engine    *)
(* with its collectors while there are tasks.  The task map is looked up     *)
(* without the mutex and changed with it; task.Stop calls back RemoveTask.   *)
EXTENDS Integers, FiniteSets

CONSTANTS Sessions,  \* session keys
          Callers,   \* goroutines that handle game events
          None,
          MaxTasks   \* bound: tasks started

ASSUME ManagerAssumption ==
    None \notin Nat \cup Callers \cup Sessions /\ MaxTasks \in Nat

VARIABLES
    alive,     \* the process has not been killed by the runtime
    devices,   \* whether the host has an interface to capture on
    mutex,     \* who holds it
    tasks,     \* the map: session key to task
    started,   \* tasks are 1 .. started
    key,       \* per task: its session
    running,   \* tasks that are runnable, with their cron
    uses,      \* per task: its engine
    engine,    \* manager.engine
    collectors, \* manager.collectors is not nil
    engines,   \* engines whose cron runs, engine n being the n-th that was made
    made,      \* engines made
    capturing, \* engines whose collectors capture
    pc, verb, session, found, \* per caller: its place, call, argument, local task
    nilEngine, \* history: Stop of a nil engine was called
    overlapped \* history: two calls for one session overlapped

taskVars == <<started, key, running, uses>>
engineVars == <<engine, collectors, engines, made, capturing>>
callVars == <<verb, session, found>>
historyVars == <<nilEngine, overlapped>>
vars == <<alive, devices, mutex, tasks, taskVars, engineVars, pc, callVars, historyVars>>

Task == 1 .. MaxTasks
Registered == {tasks[k] : k \in Sessions} \ {None}

TypeOK ==
    /\ alive \in BOOLEAN /\ devices \in BOOLEAN
    /\ mutex \in Callers \cup {None}
    /\ tasks \in [Sessions -> (1 .. started) \cup {None}]
    /\ started \in 0 .. MaxTasks
    /\ key \in [Task -> Sessions \cup {None}]
    /\ running \in SUBSET (1 .. started)
    /\ uses \in [Task -> Nat \cup {None}]
    /\ engine \in Nat \cup {None} /\ collectors \in BOOLEAN
    /\ made \in Nat /\ engines \in SUBSET (1 .. made) /\ capturing \in SUBSET (1 .. made)
    /\ pc \in [Callers -> {"idle", "lookup", "stop", "remove", "removing", "start", "starting"}]
    /\ verb \in [Callers -> {"StartReport", "EndReport"}]
    /\ session \in [Callers -> Sessions \cup {None}]
    /\ found \in [Callers -> Task \cup {None}]
    /\ nilEngine \in BOOLEAN /\ overlapped \in BOOLEAN

Init ==
    /\ alive = TRUE /\ devices \in BOOLEAN
    /\ mutex = None
    /\ tasks = [k \in Sessions |-> None]
    /\ started = 0 /\ running = {}
    /\ key = [t \in Task |-> None] /\ uses = [t \in Task |-> None]
    /\ engine = None /\ collectors = FALSE /\ engines = {} /\ made = 0 /\ capturing = {}
    /\ pc = [c \in Callers |-> "idle"] /\ verb = [c \in Callers |-> "EndReport"]
    /\ session = [c \in Callers |-> None] /\ found = [c \in Callers |-> None]
    /\ nilEngine = FALSE /\ overlapped = FALSE
-----------------------------------------------------------------------------
Goto(c, place) == pc' = [pc EXCEPT ![c] = place] /\ UNCHANGED callVars
Return(c) ==
    /\ pc' = [pc EXCEPT ![c] = "idle"] /\ verb' = [verb EXCEPT ![c] = "EndReport"]
    /\ session' = [session EXCEPT ![c] = None] /\ found' = [found EXCEPT ![c] = None]

Starting == {c \in Callers : verb[c] = "StartReport"}

(* A game event for session k. *)
Call(c, k) ==
    /\ alive /\ pc[c] = "idle"
    /\ pc' = [pc EXCEPT ![c] = "lookup"]
    /\ session' = [session EXCEPT ![c] = k]
    /\ \E v \in {"StartReport", "EndReport"} :
          /\ v = "StartReport" => started + Cardinality(Starting) < MaxTasks
          /\ verb' = [verb EXCEPT ![c] = v]
    /\ overlapped' = (overlapped \/ \E d \in Callers : session[d] = k)
    /\ UNCHANGED <<alive, devices, mutex, tasks, taskVars, engineVars, found, nilEngine>>

StartLookupIgnoring(c) ==
    /\ alive /\ pc[c] = "lookup" /\ verb[c] = "StartReport"
    /\ Goto(c, "start")
    /\ UNCHANGED <<alive, devices, mutex, tasks, taskVars, engineVars, historyVars>>

StartLookup(c) ==
    /\ alive /\ pc[c] = "lookup" /\ verb[c] = "StartReport"
    /\ found' = [found EXCEPT ![c] = tasks[session[c]]]
    /\ pc' = [pc EXCEPT ![c] = IF found'[c] = None THEN "start" ELSE "stop"]
    /\ UNCHANGED <<alive, devices, mutex, tasks, taskVars, engineVars, verb, session,
                   historyVars>>

EndLookup(c) ==
    /\ alive /\ pc[c] = "lookup" /\ verb[c] = "EndReport"
    /\ \/ /\ tasks[session[c]] \in running
          /\ found' = [found EXCEPT ![c] = tasks[session[c]]]
          /\ pc' = [pc EXCEPT ![c] = "stop"]
          /\ UNCHANGED <<verb, session>>
       \/ tasks[session[c]] \notin running /\ Return(c)
    /\ UNCHANGED <<alive, devices, mutex, tasks, taskVars, engineVars, historyVars>>

(* The Go runtime ends the process when it sees a map read during a write.   *)
LookupCrashes(c) ==
    /\ alive /\ pc[c] = "lookup"
    /\ mutex # None
    /\ alive' = FALSE
    /\ UNCHANGED <<devices, mutex, tasks, taskVars, engineVars, pc, callVars, historyVars>>
-----------------------------------------------------------------------------
TaskStopWithoutCron(c) ==
    /\ alive /\ pc[c] = "stop"
    /\ Goto(c, "remove")
    /\ UNCHANGED <<alive, devices, mutex, tasks, taskVars, engineVars, historyVars>>

(* task.Stop: stop the cron job and clear isRunnable, then RemoveTask.       *)
TaskStop(c) ==
    /\ alive /\ pc[c] = "stop"
    /\ running' = running \ {found[c]}
    /\ Goto(c, "remove")
    /\ UNCHANGED <<alive, devices, mutex, tasks, started, key, uses, engineVars, historyVars>>

RemoveLock(c) ==
    /\ alive /\ pc[c] = "remove" /\ mutex = None
    /\ mutex' = c
    /\ Goto(c, "removing")
    /\ UNCHANGED <<alive, devices, tasks, taskVars, engineVars, historyVars>>

Removed(c) == [tasks EXCEPT ![session[c]] = None]
EmptiedNever(c) == FALSE
Emptied(c) == \A k \in Sessions : Removed(c)[k] = None

UnlockForgotten == UNCHANGED mutex
Unlock == mutex' = None

(* RemoveTask while other tasks are left. *)
RemoveOne(c) ==
    /\ alive /\ pc[c] = "removing" /\ ~Emptied(c)
    /\ tasks' = Removed(c)
    /\ Unlock
    /\ IF verb[c] = "StartReport" THEN Goto(c, "start") ELSE Return(c)
    /\ UNCHANGED <<alive, devices, taskVars, engineVars, historyVars>>

(* The last one takes the engine and the collectors with it. *)
RemoveLast(c) ==
    /\ alive /\ pc[c] = "removing" /\ Emptied(c) /\ engine # None
    /\ tasks' = Removed(c)
    /\ engines' = engines \ {engine}
    /\ capturing' = IF collectors THEN capturing \ {engine} ELSE capturing
    /\ engine' = None /\ collectors' = FALSE
    /\ Unlock
    /\ IF verb[c] = "StartReport" THEN Goto(c, "start") ELSE Return(c)
    /\ UNCHANGED <<alive, devices, taskVars, made, historyVars>>

(* There is no engine any more: the call panics and the deferred Unlock      *)
(* runs.  The process ends unless a caller recovers.                         *)
RemovePanics(c) ==
    /\ alive /\ pc[c] = "removing" /\ Emptied(c) /\ engine = None
    /\ tasks' = Removed(c)
    /\ Unlock
    /\ nilEngine' = TRUE
    /\ alive' \in BOOLEAN
    /\ Return(c)
    /\ UNCHANGED <<devices, taskVars, engineVars, overlapped>>
-----------------------------------------------------------------------------
(* The locked half of StartReport. *)
StartLock(c) ==
    /\ alive /\ pc[c] = "start" /\ mutex = None
    /\ mutex' = c
    /\ Goto(c, "starting")
    /\ UNCHANGED <<alive, devices, tasks, taskVars, engineVars, historyVars>>

(* initialization: a new engine, and collectors if there are devices (their  *)
(* slice stays nil otherwise, so that the next StartReport does it again).   *)
InitializeAgain ==
    /\ made' = made + 1
    /\ engine' = made' /\ engines' = engines \cup {made'}
    /\ collectors' = devices
    /\ capturing' = IF devices THEN capturing \cup {made'} ELSE capturing

Initialize ==
    IF collectors
    THEN UNCHANGED engineVars
    ELSE InitializeAgain

StartTask(c) ==
    /\ alive /\ pc[c] = "starting" /\ started < MaxTasks
    /\ Initialize
    /\ started' = started + 1
    /\ key' = [key EXCEPT ![started'] = session[c]]
    /\ running' = running \cup {started'}
    /\ uses' = [uses EXCEPT ![started'] = engine']
    /\ tasks' = [tasks EXCEPT ![session[c]] = started']
    /\ Unlock
    /\ Return(c)
    /\ UNCHANGED <<alive, devices, historyVars>>

(* The devices cannot be listed, or a collector does not start (then the     *)
(* clean-up stops an engine whose cron was never made, and panics as above). *)
InitializationFails(c) ==
    /\ alive /\ pc[c] = "starting" /\ ~collectors
    /\ Unlock
    /\ alive' \in BOOLEAN
    /\ Return(c)
    /\ UNCHANGED <<devices, tasks, taskVars, engineVars, historyVars>>
-----------------------------------------------------------------------------
RemoveTask(c) == RemoveLock(c) \/ RemoveOne(c) \/ RemoveLast(c) \/ RemovePanics(c)
Proceed(c) ==
    \/ StartLookup(c) \/ EndLookup(c) \/ LookupCrashes(c)
    \/ TaskStop(c) \/ RemoveTask(c)
    \/ StartLock(c) \/ StartTask(c) \/ InitializationFails(c)

Next == \E c \in Callers : Proceed(c) \/ \E k \in Sessions : Call(c, k)

Spec == Init /\ [][Next]_vars

(* A goroutine goes on, and the mutex does not starve one that waits.        *)
FairSpec == Spec /\ \A c \in Callers : SF_vars(Proceed(c))
-----------------------------------------------------------------------------
(* As long as the events of one session come one after the other, a running  *)
(* task is the one in the map, so that EndReport finds it: no interleaving   *)
(* of the unlocked lookup (bandwidth_report_manager.go:40, 81), the callback *)
(* from task.Stop and the locked half of StartReport leaves an orphan.       *)
RunningRegistered == ~overlapped => \A t \in running : tasks[key[t]] = t

(* Under the same condition a running task has an engine that runs: the      *)
(* RemoveTask of another session does not take it away                       *)
(* (bandwidth_report_manager.go:70-77).                                      *)
RunningHasEngine == ~overlapped => \A t \in running : uses[t] \in engines

(* The engine is there exactly while the map is not empty, whatever calls    *)
(* overlap (bandwidth_report_manager.go:46-58, 66-78).                       *)
EngineIffTasks == engine = None <=> Registered = {}

(* No engine and no collector is left running behind the manager's back; on  *)
(* a host without devices every StartReport leaves one                       *)
(* (bandwidth_report_manager.go:46).                                         *)
NoEngineLeft ==
    devices => engines = {engine} \ {None} /\ capturing = engines

(* RemoveTask finds an engine to stop (bandwidth_report_manager.go:74),      *)
(* unless the events of one session overlap.                                 *)
NilEngineNeverStopped == ~overlapped => ~nilEngine

(* The tasks and the engine belong together and to the map, each as long as  *)
(* the part above says (bandwidth_report_manager.go:39-86).                  *)
TasksManaged ==
    /\ RunningRegistered /\ RunningHasEngine
    /\ EngineIffTasks /\ NoEngineLeft /\ NilEngineNeverStopped

(* When EndReport returns no task of its session runs, unless the events of  *)
(* the session overlap (bandwidth_report_manager.go:80-86).                  *)
EndReportEnds ==
    [][\A c \in Callers :
          pc[c] # "idle" /\ pc'[c] = "idle" /\ verb[c] = "EndReport" /\ ~overlapped
          => \A t \in running' : key[t] # session[c]]_vars

(* Every call returns although task.Stop, called outside the mutex, calls    *)
(* back RemoveTask, which takes it (bandwidth_report_manager.go:42, 67).     *)
CallsReturn == \A c \in Callers : pc[c] # "idle" ~> (pc[c] = "idle" \/ ~alive)
-----------------------------------------------------------------------------
(* Where a call stands with the task of its session, if nobody else has      *)
(* events of that session.                                                   *)
CallInvariant(c) ==
    LET task == tasks[session[c]]
    IN  /\ pc[c] = "stop" => found[c] = task /\ task # None
        /\ pc[c] \in {"remove", "removing"} => task # None /\ task \notin running
        /\ pc[c] \in {"start", "starting"} => task = None

SessionInvariant ==
    /\ \A c \in Callers : pc[c] # "idle" => CallInvariant(c)
    /\ \A c, d \in Callers : pc[c] # "idle" /\ session[c] = session[d] => c = d
    /\ RunningRegistered

CallHasSession == \A c \in Callers : pc[c] = "idle" <=> session[c] = None

RunningHasKey == \A t \in running : key[t] \in Sessions

(* The inductive invariant. *)
IInv ==
    /\ TypeOK
    /\ CallHasSession
    /\ RunningHasKey
    /\ EngineIffTasks
    /\ collectors => engine # None
    /\ engine \in engines \cup {None}
    /\ NoEngineLeft
    /\ devices => (collectors <=> engine # None)
    /\ ~overlapped => SessionInvariant
    /\ RunningHasEngine
    /\ NilEngineNeverStopped
=============================================================================
