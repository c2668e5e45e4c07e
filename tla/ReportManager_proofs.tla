------------------------ MODULE ReportManager_proofs ------------------------
(* Theorems about ReportManager for any sets of sessions and callers.        *)
EXTENDS ReportManager, TLAPS

(* The inductive invariant holds initially                                   *)
(* (bandwidth_report_manager.go:29-38).                                      *)
LEMMA InitIInv == Init => IInv
<1> SUFFICES ASSUME Init PROVE IInv
    OBVIOUS
<1> USE ManagerAssumption DEF Init
<1>1. TypeOK
    <2>1. running \in SUBSET (1 .. started) /\ engines \in SUBSET (1 .. made)
                /\ capturing \in SUBSET (1 .. made)
        OBVIOUS
    <2>2. tasks \in [Sessions -> (1 .. started) \cup {None}]
        OBVIOUS
    <2>3. key \in [Task -> Sessions \cup {None}] /\ uses \in [Task -> Nat \cup {None}]
        OBVIOUS
    <2>4. /\ verb \in [Callers -> {"StartReport", "EndReport"}]
          /\ pc \in [Callers -> {"idle", "lookup", "stop", "remove", "removing", "start",
                                 "starting"}]
        OBVIOUS
    <2>5. session \in [Callers -> Sessions \cup {None}] /\ found \in [Callers -> Task \cup {None}]
        OBVIOUS
    <2>6. /\ engine \in Nat \cup {None} /\ made \in Nat /\ started \in 0 .. MaxTasks
          /\ mutex \in Callers \cup {None}
        OBVIOUS
    <2>7. alive \in BOOLEAN /\ devices \in BOOLEAN /\ collectors \in BOOLEAN
          /\ nilEngine \in BOOLEAN /\ overlapped \in BOOLEAN
        OBVIOUS
    <2>8. QED
        BY <2>6, <2>7, <2>1, <2>2, <2>3, <2>4, <2>5 DEF TypeOK
<1>2. EngineIffTasks
    BY DEF EngineIffTasks, Registered
<1>3. NoEngineLeft
    BY DEF NoEngineLeft
<1>4. SessionInvariant /\ RunningHasEngine /\ NilEngineNeverStopped
    BY DEF SessionInvariant, RunningRegistered, RunningHasEngine, NilEngineNeverStopped
<1>5. QED
    BY <1>1, <1>2, <1>3, <1>4 DEF IInv, CallHasSession, RunningHasKey

(* A stuttering step keeps it. *)
LEMMA StutterIInv == IInv /\ UNCHANGED vars => IInv'
<1> SUFFICES ASSUME IInv, UNCHANGED vars PROVE IInv'
    OBVIOUS
<1> USE DEF vars, taskVars, engineVars, callVars, historyVars
<1>1. TypeOK'
    BY DEF IInv, TypeOK
<1>2. EngineIffTasks' /\ NoEngineLeft'
    BY DEF IInv, EngineIffTasks, Registered, NoEngineLeft
<1>3. ~overlapped' => SessionInvariant'
    BY DEF IInv, SessionInvariant, RunningRegistered, CallInvariant
<1>4. RunningHasEngine' /\ NilEngineNeverStopped'
    BY DEF IInv, RunningHasEngine, NilEngineNeverStopped
<1>5. QED
    BY <1>1, <1>2, <1>3, <1>4 DEF IInv, CallHasSession, RunningHasKey
-----------------------------------------------------------------------------
(* What a step of c does not touch: where the calls of the other sessions    *)
(* stand with their tasks (bandwidth_report_manager.go:39-86).               *)
LEMMA OtherSessions ==
    ASSUME SessionInvariant, CallHasSession, ManagerAssumption,
           NEW c \in Callers, pc[c] # "idle",
           session \in [Callers -> Sessions \cup {None}],
           \A d \in Callers : d # c =>
               pc'[d] = pc[d] /\ session'[d] = session[d] /\ found'[d] = found[d],
           \/ pc'[c] = "idle" /\ session'[c] = None
           \/ session'[c] = session[c] /\ CallInvariant(c)',
           \A k \in Sessions : k # session[c] =>
               tasks'[k] = tasks[k] /\ (tasks[k] \notin running => tasks[k] \notin running'),
           RunningRegistered'
    PROVE  SessionInvariant'
<1>1. \A d \in Callers : d # c /\ pc[d] # "idle" => session[d] # session[c]
    BY DEF SessionInvariant
<1>2. ASSUME NEW d \in Callers, pc'[d] # "idle"
      PROVE  CallInvariant(d)'
    <2>1. CASE d = c
        BY <1>2, <2>1 DEF SessionInvariant
    <2>2. CASE d # c
        <3>1. session[d] \in Sessions /\ session[d] # session[c] /\ CallInvariant(d)
            BY <1>1, <1>2, <2>2 DEF SessionInvariant, CallHasSession, ManagerAssumption
        <3>2. QED
            BY <1>2, <2>2, <3>1 DEF CallInvariant
    <2>3. QED
        BY <2>1, <2>2
<1>3. ASSUME NEW d \in Callers, NEW e \in Callers, pc'[d] # "idle", session'[d] = session'[e]
      PROVE  d = e
    BY <1>1, <1>2, <1>3 DEF SessionInvariant, CallHasSession, ManagerAssumption
<1>4. QED
    BY <1>2, <1>3 DEF SessionInvariant

(* A new event is an event of a session nobody handles, or overlapped is set *)
(* (bandwidth.go:19-50).                                                     *)
LEMMA CallStep ==
    ASSUME IInv, NEW c \in Callers, NEW k \in Sessions, Call(c, k)
    PROVE  IInv'
<1> USE ManagerAssumption DEF Call, taskVars, engineVars
<1>1. TypeOK'
    <2>1. overlapped' \in BOOLEAN
        BY DEF IInv, TypeOK
    <2>2. QED
        BY <2>1 DEF IInv, TypeOK
<1>2. EngineIffTasks' /\ NoEngineLeft'
    BY DEF IInv, EngineIffTasks, NoEngineLeft, Registered
<1>3. /\ \A d \in Callers : d # c =>
            pc'[d] = pc[d] /\ session'[d] = session[d] /\ found'[d] = found[d]
      /\ pc'[c] = "lookup" /\ session'[c] = k
    BY DEF IInv, TypeOK
<1>4. ASSUME ~overlapped' PROVE SessionInvariant'
    <2>1. ~overlapped /\ \A d \in Callers : session[d] # k
        BY <1>4
    <2>2. SessionInvariant
        BY <2>1 DEF IInv
    <2>3. RunningRegistered'
        BY <2>1, <2>2 DEF SessionInvariant, RunningRegistered
    <2>4. ASSUME NEW d \in Callers, pc'[d] # "idle"
          PROVE  CallInvariant(d)'
        BY <2>2, <1>3, <2>4 DEF SessionInvariant, CallInvariant
    <2>5. \A d, e \in Callers : pc'[d] # "idle" /\ session'[d] = session'[e] => d = e
        BY <2>1, <2>2, <1>3 DEF SessionInvariant
    <2>6. QED
        BY <2>3, <2>4, <2>5 DEF SessionInvariant
<1>5. RunningHasEngine' /\ NilEngineNeverStopped' /\ RunningHasKey'
    BY DEF IInv, RunningHasEngine, NilEngineNeverStopped, RunningHasKey
<1>6. CallHasSession'
    BY <1>3 DEF IInv, CallHasSession, RunningHasKey
<1>7. QED
    BY <1>1, <1>2, <1>4, <1>5, <1>6 DEF IInv

(* A step that leaves tasks, engine and collectors alone keeps the rest of   *)
(* the invariant.                                                            *)
LEMMA QuietStep ==
    ASSUME IInv, TypeOK', CallHasSession', ~overlapped => SessionInvariant',
           UNCHANGED <<devices, tasks, taskVars, engineVars, historyVars>>
    PROVE  IInv'
<1> USE DEF taskVars, engineVars, historyVars
<1>1. EngineIffTasks' /\ NoEngineLeft'
    BY DEF IInv, EngineIffTasks, NoEngineLeft, Registered
<1>2. RunningHasEngine' /\ NilEngineNeverStopped' /\ RunningHasKey'
    BY DEF IInv, RunningHasEngine, NilEngineNeverStopped, RunningHasKey
<1>3. QED
    BY <1>1, <1>2 DEF IInv

(* The lookup of StartReport, without the mutex                              *)
(* (bandwidth_report_manager.go:39-43).                                      *)
LEMMA StartLookupStep ==
    ASSUME IInv, NEW c \in Callers, StartLookup(c)
    PROVE  IInv'
<1> USE ManagerAssumption DEF StartLookup, historyVars
<1>1. session[c] \in Sessions /\ CallHasSession /\ (~overlapped => SessionInvariant)
    BY DEF IInv, TypeOK, CallHasSession
<1>2. /\ found'[c] = tasks[session[c]]
      /\ pc'[c] = IF found'[c] = None THEN "start" ELSE "stop"
      /\ \A d \in Callers : d # c => pc'[d] = pc[d] /\ found'[d] = found[d]
      /\ session \in [Callers -> Sessions \cup {None}]
    BY DEF IInv, TypeOK
<1>3. TypeOK'
    <2>1. found'[c] \in Task \cup {None} /\ found' \in [Callers -> Task \cup {None}]
        BY <1>1 DEF IInv, TypeOK, Task
    <2>2. QED
        BY <2>1, <1>1 DEF IInv, TypeOK, taskVars, engineVars
<1>4. CallHasSession'
    BY <1>1, <1>2 DEF CallHasSession
<1>5. ASSUME ~overlapped PROVE SessionInvariant'
    <2>1. CallInvariant(c)'
        BY <1>2 DEF CallInvariant
    <2>2. RunningRegistered'
        BY <1>1, <1>5 DEF SessionInvariant, RunningRegistered, taskVars
    <2>3. QED
        BY <1>1, <1>2, <1>5, <2>1, <2>2, OtherSessions DEF taskVars
<1>6. QED
    BY <1>3, <1>4, <1>5, QuietStep

(* What Return(c) leaves of the call. *)
LEMMA Returned ==
    ASSUME TypeOK, CallHasSession, NEW c \in Callers, Return(c)
    PROVE  /\ pc'[c] = "idle" /\ session'[c] = None
           /\ \A d \in Callers : d # c =>
                 pc'[d] = pc[d] /\ session'[d] = session[d] /\ found'[d] = found[d]
           /\ pc' \in [Callers -> {"idle", "lookup", "stop", "remove", "removing", "start",
                                  "starting"}]
           /\ verb' \in [Callers -> {"StartReport", "EndReport"}]
           /\ session' \in [Callers -> Sessions \cup {None}]
           /\ found' \in [Callers -> Task \cup {None}]
           /\ CallHasSession'
<1>1. /\ pc'[c] = "idle" /\ session'[c] = None
      /\ \A d \in Callers : d # c =>
            pc'[d] = pc[d] /\ session'[d] = session[d] /\ found'[d] = found[d]
    BY DEF TypeOK, Return
<1>2. CallHasSession'
    BY <1>1 DEF CallHasSession
<1>3. QED
    BY <1>1, <1>2 DEF TypeOK, Return

(* The same for Goto. *)
LEMMA Went ==
    ASSUME TypeOK, CallHasSession, NEW c \in Callers, pc[c] # "idle",
           NEW place \in {"remove", "removing", "start", "starting"}, Goto(c, place)
    PROVE  /\ pc'[c] = place /\ session' = session /\ found' = found /\ verb' = verb
           /\ \A d \in Callers : d # c => pc'[d] = pc[d]
           /\ pc' \in [Callers -> {"idle", "lookup", "stop", "remove", "removing", "start",
                                  "starting"}]
           /\ CallHasSession'
<1>1. /\ pc'[c] = place /\ session' = session /\ found' = found /\ verb' = verb
      /\ \A d \in Callers : d # c => pc'[d] = pc[d]
    BY DEF TypeOK, Goto, callVars
<1>2. CallHasSession'
    BY <1>1 DEF CallHasSession
<1>3. QED
    BY <1>1, <1>2 DEF TypeOK, Goto

(* The lookup of EndReport (bandwidth_report_manager.go:80-84). *)
LEMMA EndLookupStep ==
    ASSUME IInv, NEW c \in Callers, EndLookup(c)
    PROVE  IInv'
<1> USE ManagerAssumption DEF historyVars
<1>1. session[c] \in Sessions /\ CallHasSession /\ pc[c] = "lookup" /\ TypeOK
      /\ (~overlapped => SessionInvariant)
    BY DEF IInv, TypeOK, CallHasSession, EndLookup
<1>2. RunningRegistered => RunningRegistered'
    BY DEF EndLookup, RunningRegistered, taskVars
<1>3. CASE /\ tasks[session[c]] \in running
           /\ found' = [found EXCEPT ![c] = tasks[session[c]]]
           /\ pc' = [pc EXCEPT ![c] = "stop"]
           /\ UNCHANGED <<verb, session>>
    <2>1. /\ found'[c] = tasks[session[c]] /\ pc'[c] = "stop"
          /\ \A d \in Callers : d # c => pc'[d] = pc[d] /\ found'[d] = found[d]
          /\ tasks[session[c]] \in Task
        <3>1. running \subseteq Task
            BY <1>1 DEF TypeOK, Task
        <3>2. QED
            BY <1>1, <1>3, <3>1 DEF TypeOK
    <2>2. TypeOK'
        BY <1>3, <2>1, <1>1 DEF TypeOK, EndLookup, taskVars, engineVars
    <2>3. CallHasSession'
        BY <1>1, <1>3, <2>1 DEF CallHasSession
    <2>4. ASSUME ~overlapped PROVE SessionInvariant'
        <3>1. CallInvariant(c)'
            <4>1. tasks' = tasks
                BY DEF EndLookup
            <4>2. tasks[session[c]] # None
                BY <2>1 DEF Task, ManagerAssumption
            <4>3. QED
                BY <1>3, <2>1, <4>1, <4>2 DEF CallInvariant
        <3>2. RunningRegistered'
            BY <1>1, <1>2, <2>4 DEF SessionInvariant
        <3>3. QED
            BY <1>1, <1>3, <2>1, <2>4, <3>1, <3>2, OtherSessions DEF TypeOK, EndLookup, taskVars
    <2>5. QED
        BY <2>2, <2>3, <2>4, QuietStep DEF EndLookup
<1>4. CASE Return(c)
    <2>1. CallHasSession'
        BY <1>1, <1>4, Returned
    <2>2. TypeOK'
        BY <1>1, <1>4, Returned DEF TypeOK, EndLookup, taskVars, engineVars
    <2>3. ASSUME ~overlapped PROVE SessionInvariant'
        <3>1. RunningRegistered'
            BY <1>1, <1>2, <2>3 DEF SessionInvariant
        <3>2. QED
            BY <1>1, <1>4, <2>3, <3>1, Returned, OtherSessions DEF TypeOK, EndLookup, taskVars
    <2>4. QED
        BY <2>1, <2>2, <2>3, QuietStep DEF EndLookup
<1>5. QED
    BY <1>3, <1>4 DEF EndLookup

(* The runtime ends the process (bandwidth_report_manager.go:40, 81). *)
LEMMA LookupCrashesStep ==
    ASSUME IInv, NEW c \in Callers, LookupCrashes(c)
    PROVE  IInv'
<1> USE DEF LookupCrashes, taskVars, engineVars, callVars, historyVars
<1>1. TypeOK' /\ CallHasSession'
    BY DEF IInv, TypeOK, CallHasSession
<1>2. ~overlapped => SessionInvariant'
    BY DEF IInv, SessionInvariant, RunningRegistered, CallInvariant
<1>3. QED
    BY <1>1, <1>2, QuietStep

(* Both ways to the mutex (bandwidth_report_manager.go:44, 67). *)
LEMMA LockStep ==
    ASSUME IInv, NEW c \in Callers, RemoveLock(c) \/ StartLock(c)
    PROVE  IInv'
<1> USE DEF historyVars
<1>1. session[c] \in Sessions \cup {None} /\ CallHasSession /\ TypeOK /\ pc[c] # "idle"
      /\ (~overlapped => SessionInvariant)
    BY DEF IInv, TypeOK, RemoveLock, StartLock
<1>2. /\ \/ pc[c] = "remove" /\ pc'[c] = "removing"
         \/ pc[c] = "start" /\ pc'[c] = "starting"
      /\ session' = session /\ found' = found /\ verb' = verb
      /\ \A d \in Callers : d # c => pc'[d] = pc[d]
      /\ pc' \in [Callers -> {"idle", "lookup", "stop", "remove", "removing", "start",
                             "starting"}]
      /\ CallHasSession'
    BY <1>1, Went DEF RemoveLock, StartLock
<1>3. UNCHANGED <<alive, devices, tasks, taskVars, engineVars, historyVars>> /\ mutex' = c
    BY DEF RemoveLock, StartLock
<1>4. TypeOK'
    BY <1>1, <1>2, <1>3 DEF TypeOK, taskVars, engineVars
<1>5. ASSUME ~overlapped PROVE SessionInvariant'
    <2>1. CallInvariant(c)'
        BY <1>1, <1>2, <1>3, <1>5 DEF SessionInvariant, CallInvariant, taskVars
    <2>2. RunningRegistered'
        BY <1>1, <1>3, <1>5 DEF SessionInvariant, RunningRegistered, taskVars
    <2>3. QED
        BY <1>1, <1>2, <1>3, <1>5, <2>1, <2>2, ManagerAssumption, OtherSessions
        DEF TypeOK, taskVars
<1>6. QED
    BY <1>2, <1>3, <1>4, <1>5, QuietStep
-----------------------------------------------------------------------------
(* task.Stop before its callback (report_task.go:43-48). *)
LEMMA TaskStopStep ==
    ASSUME IInv, NEW c \in Callers, TaskStop(c)
    PROVE  IInv'
<1>1. TypeOK /\ CallHasSession /\ pc[c] = "stop" /\ (~overlapped => SessionInvariant)
    BY DEF IInv, TaskStop
<1>2. /\ pc'[c] = "remove" /\ session' = session /\ found' = found /\ verb' = verb
      /\ \A d \in Callers : d # c => pc'[d] = pc[d]
      /\ pc' \in [Callers -> {"idle", "lookup", "stop", "remove", "removing", "start",
                             "starting"}]
      /\ CallHasSession'
    BY <1>1, Went DEF TaskStop
<1>3. /\ UNCHANGED <<alive, devices, mutex, tasks, started, key, uses, engineVars, historyVars>>
      /\ running' = running \ {found[c]}
    BY DEF TaskStop
<1>4. TypeOK'
    BY <1>1, <1>2, <1>3 DEF TypeOK, engineVars, historyVars
<1>5. EngineIffTasks' /\ NoEngineLeft'
    BY <1>3 DEF IInv, EngineIffTasks, NoEngineLeft, Registered, engineVars
<1>6. ASSUME ~overlapped PROVE SessionInvariant'
    <2>1. CallInvariant(c)'
        BY <1>1, <1>2, <1>3, <1>6 DEF SessionInvariant, CallInvariant
    <2>2. RunningRegistered'
        BY <1>1, <1>3, <1>6 DEF SessionInvariant, RunningRegistered, historyVars
    <2>3. QED
        BY <1>1, <1>2, <1>3, <1>6, <2>1, <2>2, ManagerAssumption, OtherSessions DEF TypeOK
<1>7. RunningHasEngine' /\ NilEngineNeverStopped' /\ RunningHasKey'
    BY <1>3 DEF IInv, RunningHasEngine, NilEngineNeverStopped, RunningHasKey, engineVars,
                historyVars
<1>8. QED
    BY <1>2, <1>3, <1>4, <1>5, <1>6, <1>7 DEF IInv, engineVars, historyVars

(* Where RemoveTask leaves its caller. *)
LEMMA AfterRemove ==
    ASSUME TypeOK, CallHasSession, NEW c \in Callers, pc[c] # "idle",
           IF verb[c] = "StartReport" THEN Goto(c, "start") ELSE Return(c)
    PROVE  /\ \/ pc'[c] = "start" /\ session'[c] = session[c]
              \/ pc'[c] = "idle" /\ session'[c] = None
           /\ \A d \in Callers : d # c =>
                 pc'[d] = pc[d] /\ session'[d] = session[d] /\ found'[d] = found[d]
           /\ pc' \in [Callers -> {"idle", "lookup", "stop", "remove", "removing", "start",
                                  "starting"}]
           /\ verb' \in [Callers -> {"StartReport", "EndReport"}]
           /\ session' \in [Callers -> Sessions \cup {None}]
           /\ found' \in [Callers -> Task \cup {None}]
           /\ CallHasSession'
<1>1. CASE Goto(c, "start")
    BY <1>1, Went DEF TypeOK
<1>2. CASE Return(c)
    BY <1>2, Returned
<1>3. QED
    BY <1>1, <1>2

(* What delete(tasks, key) does to the sessions: the task that is deleted    *)
(* does not run, the others stay (bandwidth_report_manager.go:69).           *)
LEMMA RemovedSessions ==
    ASSUME TypeOK, CallHasSession, RunningHasKey, SessionInvariant,
           NEW c \in Callers, pc[c] = "removing",
           tasks' = Removed(c), running' = running, key' = key, overlapped' = overlapped,
           \/ pc'[c] = "start" /\ session'[c] = session[c]
           \/ pc'[c] = "idle" /\ session'[c] = None,
           \A d \in Callers : d # c =>
               pc'[d] = pc[d] /\ session'[d] = session[d] /\ found'[d] = found[d]
    PROVE  SessionInvariant' /\ (~overlapped => \A t \in running : Removed(c)[key[t]] = t)
<1>1. session[c] \in Sessions
    BY DEF TypeOK, CallHasSession
<1>2. tasks[session[c]] \notin running /\ tasks[session[c]] # None
    BY DEF SessionInvariant, CallInvariant
<1>3. tasks'[session[c]] = None /\ \A k \in Sessions : k # session[c] => tasks'[k] = tasks[k]
    BY <1>1 DEF TypeOK, Removed
<1>4. ~overlapped => \A t \in running : Removed(c)[key[t]] = t
    BY <1>2, <1>3 DEF SessionInvariant, RunningRegistered, RunningHasKey
<1>5. RunningRegistered'
    BY <1>4 DEF RunningRegistered
<1>6. pc'[c] = "start" /\ session'[c] = session[c] => CallInvariant(c)'
    BY <1>3 DEF CallInvariant
<1>7. SessionInvariant'
    BY <1>3, <1>5, <1>6, ManagerAssumption, OtherSessions DEF TypeOK
<1>8. QED
    BY <1>4, <1>7

(* RemoveTask with other tasks left (bandwidth_report_manager.go:66-78). *)
LEMMA RemoveOneStep ==
    ASSUME IInv, NEW c \in Callers, RemoveOne(c)
    PROVE  IInv'
<1>1. TypeOK /\ CallHasSession /\ RunningHasKey /\ pc[c] = "removing"
      /\ (~overlapped => SessionInvariant)
    BY DEF IInv, RemoveOne
<1>2. /\ \/ pc'[c] = "start" /\ session'[c] = session[c]
         \/ pc'[c] = "idle" /\ session'[c] = None
      /\ \A d \in Callers : d # c =>
            pc'[d] = pc[d] /\ session'[d] = session[d] /\ found'[d] = found[d]
      /\ pc' \in [Callers -> {"idle", "lookup", "stop", "remove", "removing", "start",
                             "starting"}]
      /\ verb' \in [Callers -> {"StartReport", "EndReport"}]
      /\ session' \in [Callers -> Sessions \cup {None}]
      /\ found' \in [Callers -> Task \cup {None}]
      /\ CallHasSession'
    BY <1>1, AfterRemove DEF RemoveOne
<1>3. /\ UNCHANGED <<alive, devices, taskVars, engineVars, historyVars>>
      /\ tasks' = Removed(c) /\ mutex' = None /\ ~Emptied(c)
    BY DEF RemoveOne, Unlock
<1>4. TypeOK'
    <2>1. tasks' \in [Sessions -> (1 .. started) \cup {None}]
        BY <1>1, <1>3 DEF TypeOK, Removed
    <2>2. QED
        BY <1>1, <1>2, <1>3, <2>1 DEF TypeOK, taskVars, engineVars, historyVars
<1>5. EngineIffTasks' /\ NoEngineLeft'
    <2>1. PICK k \in Sessions : Removed(c)[k] # None
        BY <1>3 DEF Emptied
    <2>2. tasks[k] # None /\ tasks'[k] # None
        BY <1>1, <1>3, <2>1 DEF TypeOK, Removed
    <2>3. EngineIffTasks'
        BY <1>3, <2>2 DEF IInv, EngineIffTasks, Registered, engineVars
    <2>4. QED
        BY <1>3, <2>3 DEF IInv, NoEngineLeft, engineVars
<1>6. ~overlapped => SessionInvariant'
    BY <1>1, <1>2, <1>3, RemovedSessions DEF taskVars, historyVars
<1>7. RunningHasEngine' /\ NilEngineNeverStopped' /\ RunningHasKey'
    BY <1>3 DEF IInv, RunningHasEngine, NilEngineNeverStopped, RunningHasKey, engineVars,
                taskVars, historyVars
<1>8. QED
    BY <1>2, <1>3, <1>4, <1>5, <1>6, <1>7 DEF IInv, engineVars, historyVars

(* RemoveTask of the last task: no task runs, for a running one would still  *)
(* be in the map (bandwidth_report_manager.go:70-77).                        *)
LEMMA RemoveLastStep ==
    ASSUME IInv, NEW c \in Callers, RemoveLast(c)
    PROVE  IInv'
<1>1. TypeOK /\ CallHasSession /\ RunningHasKey /\ pc[c] = "removing"
      /\ (~overlapped => SessionInvariant)
    BY DEF IInv, RemoveLast
<1>2. /\ \/ pc'[c] = "start" /\ session'[c] = session[c]
         \/ pc'[c] = "idle" /\ session'[c] = None
      /\ \A d \in Callers : d # c =>
            pc'[d] = pc[d] /\ session'[d] = session[d] /\ found'[d] = found[d]
      /\ pc' \in [Callers -> {"idle", "lookup", "stop", "remove", "removing", "start",
                             "starting"}]
      /\ verb' \in [Callers -> {"StartReport", "EndReport"}]
      /\ session' \in [Callers -> Sessions \cup {None}]
      /\ found' \in [Callers -> Task \cup {None}]
      /\ CallHasSession'
    BY <1>1, AfterRemove DEF RemoveLast
<1>3. /\ UNCHANGED <<alive, devices, taskVars, made, historyVars>>
      /\ tasks' = Removed(c) /\ mutex' = None /\ Emptied(c) /\ engine # None
      /\ engines' = engines \ {engine}
      /\ capturing' = IF collectors THEN capturing \ {engine} ELSE capturing
      /\ engine' = None /\ collectors' = FALSE
    BY DEF RemoveLast, Unlock
<1>4. TypeOK'
    <2>1. tasks' \in [Sessions -> (1 .. started) \cup {None}]
        BY <1>1, <1>3 DEF TypeOK, Removed
    <2>2. engines' \in SUBSET (1 .. made) /\ capturing' \in SUBSET (1 .. made)
        BY <1>1, <1>3 DEF TypeOK
    <2>3. QED
        BY <1>1, <1>2, <1>3, <2>1, <2>2 DEF TypeOK, taskVars, historyVars
<1>5. EngineIffTasks'
    BY <1>3 DEF EngineIffTasks, Registered, Emptied
<1>6. NoEngineLeft'
    BY <1>3 DEF IInv, NoEngineLeft
<1>7. ~overlapped => SessionInvariant' /\ running' = {}
    <2>1. ASSUME ~overlapped
          PROVE  SessionInvariant' /\ \A t \in running : Removed(c)[key[t]] = t
        BY <1>1, <1>2, <1>3, <2>1, RemovedSessions DEF taskVars, historyVars
    <2>2. ASSUME ~overlapped, NEW t \in running PROVE FALSE
        <3>1. Removed(c)[key[t]] = t /\ key[t] \in Sessions
            BY <1>1, <2>1, <2>2 DEF RunningHasKey
        <3>2. t # None
            BY <1>1, <2>2, ManagerAssumption DEF TypeOK
        <3>3. QED
            BY <1>3, <3>1, <3>2 DEF Emptied
    <2>3. QED
        BY <1>3, <2>1, <2>2 DEF taskVars
<1>8. RunningHasEngine' /\ NilEngineNeverStopped' /\ RunningHasKey'
    BY <1>3, <1>7 DEF IInv, RunningHasEngine, NilEngineNeverStopped, RunningHasKey,
                      taskVars, historyVars
<1>9. QED
    BY <1>2, <1>3, <1>4, <1>5, <1>6, <1>7, <1>8 DEF IInv, historyVars

(* Without overlapping events the engine is still there: the task of the     *)
(* session is in the map (bandwidth_report_manager.go:74).                   *)
LEMMA RemovePanicsStep ==
    ASSUME IInv, NEW c \in Callers, RemovePanics(c)
    PROVE  IInv'
<1>1. TypeOK /\ CallHasSession /\ RunningHasKey /\ pc[c] = "removing" /\ Return(c)
      /\ (~overlapped => SessionInvariant)
    BY DEF IInv, RemovePanics
<1>2. /\ UNCHANGED <<devices, taskVars, engineVars, overlapped>>
      /\ tasks' = Removed(c) /\ mutex' = None /\ Emptied(c) /\ engine = None
      /\ nilEngine' = TRUE /\ alive' \in BOOLEAN
    BY DEF RemovePanics, Unlock
<1>3. overlapped
    <2>1. SUFFICES ASSUME ~overlapped PROVE FALSE
        OBVIOUS
    <2>2. session[c] \in Sessions /\ tasks[session[c]] # None
        BY <1>1, <2>1 DEF SessionInvariant, CallInvariant, CallHasSession, TypeOK
    <2>3. QED
        BY <1>2, <2>2 DEF IInv, EngineIffTasks, Registered
<1>4. TypeOK'
    <2>1. tasks' \in [Sessions -> (1 .. started) \cup {None}]
        BY <1>1, <1>2 DEF TypeOK, Removed
    <2>2. nilEngine' \in BOOLEAN
        BY <1>2
    <2>3. QED
        BY <1>1, <1>2, <2>1, <2>2, Returned DEF TypeOK, taskVars, engineVars
<1>5. EngineIffTasks' /\ NoEngineLeft'
    BY <1>2 DEF IInv, EngineIffTasks, Registered, Emptied, NoEngineLeft, engineVars
<1>6. CallHasSession'
    BY <1>1, Returned
<1>7. QED
    BY <1>2, <1>3, <1>4, <1>5, <1>6
    DEF IInv, RunningHasEngine, NilEngineNeverStopped, RunningHasKey, taskVars, engineVars
-----------------------------------------------------------------------------
(* What initialization leaves (bandwidth_report_manager.go:46-51, 88-129). *)
LEMMA InitializeStep ==
    ASSUME IInv, Initialize, UNCHANGED devices
    PROVE  /\ engine' \in Nat /\ collectors' \in BOOLEAN /\ made' \in Nat
           /\ engines' \in SUBSET (1 .. made') /\ capturing' \in SUBSET (1 .. made')
           /\ engine' \in engines' /\ engines \subseteq engines'
           /\ engine' # None
           /\ NoEngineLeft'
           /\ devices' => (collectors' <=> engine' # None)
<1> USE ManagerAssumption
<1>1. CASE collectors
    <2>1. UNCHANGED <<engine, collectors, engines, made, capturing>>
        BY <1>1 DEF Initialize, engineVars
    <2>2. engine # None /\ engine \in engines
        BY <1>1 DEF IInv
    <2>3. NoEngineLeft'
        BY <2>1 DEF IInv, NoEngineLeft
    <2>4. /\ engine' \in Nat /\ collectors' \in BOOLEAN /\ made' \in Nat
          /\ engines' \in SUBSET (1 .. made') /\ capturing' \in SUBSET (1 .. made')
        BY <2>1, <2>2 DEF IInv, TypeOK
    <2>5. QED
        BY <1>1, <2>1, <2>2, <2>3, <2>4
<1>2. CASE ~collectors
    <2>1. /\ made' = made + 1 /\ engine' = made' /\ engines' = engines \cup {made'}
          /\ collectors' = devices
          /\ capturing' = IF devices THEN capturing \cup {made'} ELSE capturing
        BY <1>2 DEF Initialize, InitializeAgain
    <2>2. made' \in Nat /\ engine' # None
        BY <2>1 DEF IInv, TypeOK
    <2>3. engines' \in SUBSET (1 .. made') /\ capturing' \in SUBSET (1 .. made')
        BY <2>1 DEF IInv, TypeOK
    <2>4. NoEngineLeft'
        <3>1. SUFFICES ASSUME devices
                       PROVE  engines' = {engine'} \ {None} /\ capturing' = engines'
            BY DEF NoEngineLeft
        <3>2. engine = None /\ engines = {} /\ capturing = {}
            BY <1>2, <3>1 DEF IInv, NoEngineLeft
        <3>3. QED
            BY <2>1, <2>2, <3>1, <3>2
    <2>5. collectors' \in BOOLEAN
        BY <2>1 DEF IInv, TypeOK
    <2>6. QED
        BY <2>1, <2>2, <2>3, <2>4, <2>5
<1>3. QED
    BY <1>1, <1>2

(* The new task is registered in place of none                               *)
(* (bandwidth_report_manager.go:52-58).                                      *)
LEMMA StartTaskStep ==
    ASSUME IInv, NEW c \in Callers, StartTask(c)
    PROVE  IInv'
<1> DEFINE new == started + 1
<1> USE ManagerAssumption
<1>1. TypeOK /\ CallHasSession /\ RunningHasKey /\ pc[c] = "starting" /\ Return(c)
      /\ session[c] \in Sessions /\ (~overlapped => SessionInvariant)
    BY DEF IInv, StartTask, CallHasSession, TypeOK
<1>2. /\ UNCHANGED <<alive, devices, historyVars>> /\ mutex' = None /\ Initialize
      /\ started' = new /\ running' = running \cup {new} /\ started < MaxTasks
      /\ key' = [key EXCEPT ![new] = session[c]]
      /\ uses' = [uses EXCEPT ![new] = engine']
      /\ tasks' = [tasks EXCEPT ![session[c]] = new]
    BY DEF StartTask, Unlock
<1>3. new \in Task /\ new \notin running /\ running \subseteq Task /\ new # None
    BY <1>1, <1>2 DEF TypeOK, Task
<1>4. /\ key'[new] = session[c] /\ uses'[new] = engine'
      /\ \A t \in running : key'[t] = key[t] /\ uses'[t] = uses[t]
      /\ tasks'[session[c]] = new
      /\ \A k \in Sessions : k # session[c] => tasks'[k] = tasks[k]
    BY <1>1, <1>2, <1>3 DEF TypeOK
<1>5. /\ engine' \in Nat /\ collectors' \in BOOLEAN /\ made' \in Nat
      /\ engines' \in SUBSET (1 .. made') /\ capturing' \in SUBSET (1 .. made')
      /\ engine' \in engines' /\ engines \subseteq engines' /\ engine' # None
      /\ NoEngineLeft' /\ (devices' => (collectors' <=> engine' # None))
    BY <1>2, InitializeStep
<1>6. TypeOK'
    <2>1. tasks' \in [Sessions -> (1 .. started') \cup {None}]
        BY <1>1, <1>2 DEF TypeOK
    <2>2. started' \in 0 .. MaxTasks /\ running' \in SUBSET (1 .. started')
        BY <1>1, <1>2 DEF TypeOK
    <2>3. key' \in [Task -> Sessions \cup {None}] /\ uses' \in [Task -> Nat \cup {None}]
        BY <1>1, <1>2, <1>5 DEF TypeOK
    <2>4. QED
        BY <1>1, <1>2, <1>5, <2>1, <2>2, <2>3, Returned DEF TypeOK, historyVars
<1>7. EngineIffTasks'
    BY <1>1, <1>3, <1>4, <1>5 DEF EngineIffTasks, Registered
<1>8. ASSUME ~overlapped PROVE SessionInvariant'
    <2>1. SessionInvariant /\ tasks[session[c]] = None
        BY <1>1, <1>8 DEF SessionInvariant, CallInvariant
    <2>2. ASSUME NEW t \in running PROVE tasks'[key'[t]] = t
        <3>1. tasks[key[t]] = t /\ t # None /\ key[t] \in Sessions
            BY <1>1, <1>8, <2>1, <2>2 DEF SessionInvariant, RunningRegistered, RunningHasKey, TypeOK
        <3>2. QED
            BY <1>4, <2>1, <3>1
    <2>3. RunningRegistered'
        BY <1>2, <1>4, <2>2 DEF RunningRegistered
    <2>4. \A k \in Sessions : tasks[k] # new
        BY <1>1 DEF TypeOK
    <2>5. QED
        BY <1>1, <1>2, <1>4, <2>1, <2>3, <2>4, Returned, OtherSessions DEF TypeOK
<1>9. RunningHasEngine' /\ NilEngineNeverStopped' /\ RunningHasKey'
    <2>1. RunningHasEngine'
        <3>1. ~overlapped => \A t \in running : uses[t] \in engines
            BY DEF IInv, RunningHasEngine
        <3>2. overlapped' = overlapped /\ running' = running \cup {new}
            BY <1>2 DEF historyVars
        <3>3. ASSUME ~overlapped, NEW t \in running \cup {new} PROVE uses'[t] \in engines'
            BY <1>4, <1>5, <3>1, <3>3
        <3>4. QED
            BY <3>2, <3>3 DEF RunningHasEngine
    <2>2. QED
        BY <1>1, <1>2, <1>4, <2>1 DEF IInv, NilEngineNeverStopped, RunningHasKey, historyVars
<1>10. CallHasSession'
    BY <1>1, Returned
<1>11. QED
    BY <1>2, <1>5, <1>6, <1>7, <1>8, <1>9, <1>10 DEF IInv, historyVars

(* initialization gives up (bandwidth_report_manager.go:48-50). *)
LEMMA InitializationFailsStep ==
    ASSUME IInv, NEW c \in Callers, InitializationFails(c)
    PROVE  IInv'
<1>1. TypeOK /\ CallHasSession /\ pc[c] = "starting" /\ Return(c)
      /\ (~overlapped => SessionInvariant)
    BY DEF IInv, InitializationFails
<1>2. /\ UNCHANGED <<devices, tasks, taskVars, engineVars, historyVars>>
      /\ mutex' = None /\ alive' \in BOOLEAN
    BY DEF InitializationFails, Unlock
<1>3. TypeOK'
    BY <1>1, <1>2, Returned DEF TypeOK, taskVars, engineVars, historyVars
<1>4. ASSUME ~overlapped PROVE SessionInvariant'
    <2>1. RunningRegistered'
        BY <1>1, <1>2, <1>4 DEF SessionInvariant, RunningRegistered, taskVars
    <2>2. QED
        BY <1>1, <1>2, <1>4, <2>1, ManagerAssumption, Returned, OtherSessions DEF TypeOK, taskVars
<1>5. QED
    BY <1>1, <1>2, <1>3, <1>4, Returned, QuietStep
-----------------------------------------------------------------------------
(* Every step keeps the inductive invariant. *)
LEMMA NextIInv == IInv /\ [Next]_vars => IInv'
<1> SUFFICES ASSUME IInv, [Next]_vars PROVE IInv'
    OBVIOUS
<1>1. CASE UNCHANGED vars
    BY <1>1, StutterIInv
<1>2. ASSUME NEW c \in Callers, NEW k \in Sessions, Call(c, k) PROVE IInv'
    BY <1>2, CallStep
<1>3. ASSUME NEW c \in Callers, Proceed(c) PROVE IInv'
    <2>1. CASE StartLookup(c) \/ EndLookup(c) \/ LookupCrashes(c)
        BY <2>1, StartLookupStep, EndLookupStep, LookupCrashesStep
    <2>2. CASE TaskStop(c)
        BY <2>2, TaskStopStep
    <2>3. CASE RemoveTask(c)
        BY <2>3, LockStep, RemoveOneStep, RemoveLastStep, RemovePanicsStep DEF RemoveTask
    <2>4. CASE StartLock(c)
        BY <2>4, LockStep
    <2>5. CASE StartTask(c) \/ InitializationFails(c)
        BY <2>5, StartTaskStep, InitializationFailsStep
    <2>6. QED
        BY <1>3, <2>1, <2>2, <2>3, <2>4, <2>5 DEF Proceed
<1>4. QED
    BY <1>1, <1>2, <1>3 DEF Next

(* The invariant holds in every reachable state, for any number of callers   *)
(* and sessions (bandwidth_report_manager.go:39-128).                        *)
THEOREM Invariant == Spec => []IInv
<1>1. Init => IInv
    BY InitIInv
<1>2. IInv /\ [Next]_vars => IInv'
    BY NextIInv
<1>3. QED
    BY <1>1, <1>2, PTL DEF Spec

(* Engine and tasks come and go together, whatever calls overlap             *)
(* (bandwidth_report_manager.go:46-58, 66-78).                               *)
THEOREM EngineMatchesTasks == Spec => []EngineIffTasks
BY Invariant, PTL DEF IInv

(* No engine and no collector is left behind on a host with devices          *)
(* (bandwidth_report_manager.go:46-51, 70-77).                               *)
THEOREM EnginesAreManaged == Spec => []NoEngineLeft
BY Invariant, PTL DEF IInv

(* No orphan task when the events of a session do not overlap                *)
(* (bandwidth_report_manager.go:40, 57, 69).                                 *)
THEOREM NoOrphan == Spec => []RunningRegistered
<1>1. IInv => RunningRegistered
    BY DEF IInv, SessionInvariant, RunningRegistered
<1>2. QED
    BY <1>1, Invariant, PTL

(* Under the same condition nobody takes away the engine of a running task   *)
(* (bandwidth_report_manager.go:70-77).                                      *)
THEOREM RunningTaskHasEngine == Spec => []RunningHasEngine
BY Invariant, PTL DEF IInv

(* ... and RemoveTask finds an engine (bandwidth_report_manager.go:74). *)
THEOREM NilEngineIsNotStopped == Spec => []NilEngineNeverStopped
BY Invariant, PTL DEF IInv

(* All of this together: tasks, engine and map belong together               *)
(* (bandwidth_report_manager.go:39-86).                                      *)
THEOREM ManagedTasks == Spec => []TasksManaged
BY EngineMatchesTasks, EnginesAreManaged, NoOrphan, RunningTaskHasEngine,
   NilEngineIsNotStopped, PTL DEF TasksManaged
-----------------------------------------------------------------------------
(* Only StartReport goes on after RemoveTask. *)
OnlyStartReportStarts ==
    \A c \in Callers : pc[c] \in {"start", "starting"} => verb[c] = "StartReport"

(* (bandwidth_report_manager.go:39-59, 80-86) *)
LEMMA OnlyStartReportStartsAlways == Spec => []OnlyStartReportStarts
<1>1. Init => OnlyStartReportStarts
    BY DEF Init, OnlyStartReportStarts
<1>2. ASSUME IInv, OnlyStartReportStarts, [Next]_vars
      PROVE  OnlyStartReportStarts'
    <2> USE <1>2 DEF OnlyStartReportStarts
    <2>1. pc \in [Callers -> {"idle", "lookup", "stop", "remove", "removing", "start", "starting"}]
          /\ verb \in [Callers -> {"StartReport", "EndReport"}]
        BY DEF IInv, TypeOK
    <2>2. ASSUME NEW c \in Callers, Return(c) PROVE OnlyStartReportStarts'
        BY <2>1, <2>2 DEF Return
    <2>3. ASSUME NEW c \in Callers, NEW place, Goto(c, place),
                 place \in {"start", "starting"} => verb[c] = "StartReport"
          PROVE  OnlyStartReportStarts'
        BY <2>1, <2>3 DEF Goto, callVars
    <2>4. CASE UNCHANGED vars
        BY <2>4 DEF vars, callVars
    <2>5. ASSUME NEW c \in Callers, NEW k \in Sessions, Call(c, k) PROVE OnlyStartReportStarts'
        BY <2>1, <2>5 DEF Call
    <2>6. ASSUME NEW c \in Callers, Proceed(c) PROVE OnlyStartReportStarts'
        <3>1. CASE StartLookup(c)
            BY <2>1, <3>1 DEF StartLookup
        <3>2. CASE EndLookup(c)
            BY <2>1, <2>2, <3>2 DEF EndLookup
        <3>3. CASE LookupCrashes(c)
            BY <3>3 DEF LookupCrashes, callVars
        <3>4. CASE TaskStop(c)
            BY <2>3, <3>4 DEF TaskStop
        <3>5. CASE RemoveLock(c)
            BY <2>3, <3>5 DEF RemoveLock
        <3>6. CASE RemoveOne(c) \/ RemoveLast(c)
            BY <2>2, <2>3, <3>6 DEF RemoveOne, RemoveLast
        <3>7. CASE RemovePanics(c) \/ StartTask(c) \/ InitializationFails(c)
            BY <2>2, <3>7 DEF RemovePanics, StartTask, InitializationFails
        <3>8. CASE StartLock(c)
            BY <2>3, <3>8 DEF StartLock
        <3>9. QED
            BY <2>6, <3>1, <3>2, <3>3, <3>4, <3>5, <3>6, <3>7, <3>8 DEF Proceed, RemoveTask
    <2>7. QED
        BY <2>4, <2>5, <2>6 DEF Next
<1>3. QED
    BY <1>1, <1>2, Invariant, PTL DEF Spec

(* A step of c leaves the places of the others alone. *)
LEMMA OthersStay ==
    ASSUME IInv, NEW c \in Callers, NEW d \in Callers, c # d,
           Proceed(d) \/ \E k \in Sessions : Call(d, k)
    PROVE  pc'[c] = pc[c]
<1> USE DEF IInv, TypeOK
<1>1. CASE \E k \in Sessions : Call(d, k)
    BY <1>1 DEF Call
<1>2. CASE StartLookup(d) \/ EndLookup(d) \/ LookupCrashes(d) \/ TaskStop(d)
    BY <1>2 DEF StartLookup, EndLookup, LookupCrashes, TaskStop, Goto, Return
<1>3. CASE RemoveTask(d)
    BY <1>3 DEF RemoveTask, RemoveLock, RemoveOne, RemoveLast, RemovePanics, Goto, Return
<1>4. CASE StartLock(d) \/ StartTask(d) \/ InitializationFails(d)
    BY <1>4 DEF StartLock, StartTask, InitializationFails, Goto, Return
<1>5. QED
    BY <1>1, <1>2, <1>3, <1>4 DEF Proceed

(* After EndReport no task of its session runs                               *)
(* (bandwidth_report_manager.go:80-86).                                      *)
THEOREM EndReportEndsTheTask == Spec => EndReportEnds
<1> DEFINE Ended(c) == \A t \in running' : key[t] # session[c]
<1>1. ASSUME IInv, OnlyStartReportStarts, [Next]_vars, NEW c \in Callers,
             pc[c] # "idle", pc'[c] = "idle", verb[c] = "EndReport", ~overlapped
      PROVE  Ended(c)
    <2> USE <1>1
    <2>1. /\ SessionInvariant /\ CallInvariant(c) /\ session[c] \in Sessions
          /\ RunningRegistered
        BY DEF IInv, SessionInvariant, CallHasSession, TypeOK
    <2>2. tasks[session[c]] \notin running => \A t \in running : key[t] # session[c]
        BY <2>1 DEF RunningRegistered
    <2>3. Proceed(c)
        BY OthersStay DEF Next, vars, Call
    <2>4. CASE EndLookup(c)
        BY <2>2, <2>4 DEF EndLookup, taskVars, IInv, TypeOK
    <2>5. CASE RemoveOne(c) \/ RemoveLast(c) \/ RemovePanics(c)
        <3>1. running' = running /\ pc[c] = "removing"
            BY <2>5 DEF RemoveOne, RemoveLast, RemovePanics, taskVars
        <3>2. QED
            BY <2>1, <2>2, <3>1 DEF CallInvariant
    <2>6. CASE StartTask(c) \/ InitializationFails(c)
        BY <2>6 DEF OnlyStartReportStarts, StartTask, InitializationFails
    <2>7. CASE StartLookup(c) \/ LookupCrashes(c) \/ TaskStop(c) \/ RemoveLock(c) \/ StartLock(c)
        BY <2>7 DEF StartLookup, LookupCrashes, TaskStop, RemoveLock, StartLock, Goto, IInv, TypeOK
    <2>8. QED
        BY <2>3, <2>4, <2>5, <2>6, <2>7 DEF Proceed, RemoveTask
<1>2. IInv /\ OnlyStartReportStarts /\ [Next]_vars =>
          [\A c \in Callers :
              pc[c] # "idle" /\ pc'[c] = "idle" /\ verb[c] = "EndReport" /\ ~overlapped
              => Ended(c)]_vars
    BY <1>1
<1>3. QED
    BY <1>2, Invariant, OnlyStartReportStartsAlways, PTL DEF Spec, EndReportEnds
=============================================================================
