----------------------------- MODULE ReportJob -----------------------------
(* report/report_job.go: one job per process takes report requests from the  *)
(* tasks (Add), delivers them one by one to creport (loopReport), keeps what *)
(* does not fit in the ring in tmp and, BufLen at a time, in the FileStore,  *)
(* and rewrites the file on Stop so that a restart can continue.             *)
(*                                                                           *)
(* The ring is used at the level of BoundedQueue (RingBuff implements it).   *)
(* Add and the steps of tryLoadData hold job.mutex; Stop holds no lock at    *)
(* all.  A request is its number in the order in which Add took the lock.    *)
EXTENDS Integers, Sequences, SequencesExt

CONSTANTS BufLen, Chunk, CleanThreshold, ReadsFail,  \* see FileStore
          MaxRequests,  \* bound: requests added over all processes
          MaxFaults,    \* bound: failing system calls and lost answers
          MaxProcesses, \* bound: processes run one after the other
          Crashes,      \* when a process may die: "never", "outside Truncate", "always"
          Stops,        \* whether Stop is called
          EarlyAdds     \* whether tasks add before Start has returned

ASSUME JobAssumption ==
    /\ Chunk \in Nat \ {0} /\ CleanThreshold \in Nat
    /\ MaxFaults \in Nat /\ ReadsFail \in BOOLEAN
    /\ BufLen \in Nat \ {0} /\ MaxRequests \in Nat /\ MaxProcesses \in Nat \ {0}
    /\ Crashes \in {"never", "outside Truncate", "always"}
    /\ Stops \in BOOLEAN /\ EarlyAdds \in BOOLEAN

VARIABLES
    recs, offset, pos, open, trunc, loaded, faults,   \* job.store
    next,          \* the next request that a task adds
    ring,          \* job.ringBuff, the oldest first
    tmp,           \* job.tmp
    dataBuffOnly,  \* job.dataBuffOnly
    isRunnable,    \* job.isRunnable
    locked,        \* tryLoadData holds job.mutex
    mpc,           \* the goroutine of Start and Stop
    surplus,       \* Stop's snapshot of the ring
    lpc, req,      \* the goroutine of loopReport, the request it delivers
    delivered,     \* history: what creport received
    process,       \* history: the number of this process
    stopHeld,      \* history: what the job held when Stop was called
    stopRaced,     \* history: tryLoadData moved requests while Stop was running
    stored         \* history: requests that Add completely wrote to the file

fileVars == <<recs, offset, pos, open, trunc, loaded, faults>>
jobVars == <<ring, tmp, dataBuffOnly, isRunnable, locked>>
mainVars == <<mpc, surplus, stopHeld>>
loopVars == <<lpc, req, stopRaced>>
vars == <<fileVars, next, jobVars, mainVars, loopVars, delivered, process, stored>>

File == INSTANCE FileStore WITH Rows <- BufLen, MaxRecords <- MaxRequests

Lesser(a, b) == IF a < b THEN a ELSE b
SurplusCount == BufLen - Len(ring)
NoRequest == 0

(* The requests in the hands of the job.                                     *)
Held == ToSet(ring) \cup ToSet(tmp) \cup ToSet(loaded) \cup ToSet(File!Backlog)

TypeOK ==
    /\ File!TypeOK
    /\ ring \in Seq(0 .. MaxRequests) /\ Len(ring) <= BufLen
    /\ tmp \in Seq(0 .. MaxRequests)
    /\ dataBuffOnly \in BOOLEAN /\ isRunnable \in BOOLEAN /\ locked \in BOOLEAN
    /\ mpc \in {"new", "load", "fill", "failed", "up", "surplus", "truncate",
                "truncating", "stopped"}
    /\ surplus \in Seq(0 .. MaxRequests)
    /\ lpc \in {"off", "check", "current", "report", "dequeue", "try", "move"}
    /\ req \in 0 .. MaxRequests
    /\ delivered \in Seq(0 .. MaxRequests)
    /\ process \in 1 .. MaxProcesses
    /\ stopHeld \in SUBSET (0 .. MaxRequests)
    /\ stopRaced \in BOOLEAN
    /\ stored \in SUBSET (1 .. MaxRequests)

Init ==
    /\ File!Init
    /\ ring = <<>> /\ tmp = <<>>
    /\ dataBuffOnly = FALSE /\ isRunnable = FALSE /\ locked = FALSE
    /\ mpc = "new" /\ surplus = <<>> /\ stopHeld = {}
    /\ lpc = "off" /\ req = NoRequest /\ stopRaced = FALSE
    /\ delivered = <<>> /\ process = 1 /\ stored = {}
-----------------------------------------------------------------------------
(* Start: open the file, load what a former process left, fill the ring      *)
(* (at most BufLen rows: every forced Add finds room), start loopReport.     *)
StartOpen ==
    /\ mpc = "new"
    /\ isRunnable' = TRUE
    /\ \/ File!OpenFile /\ mpc' = "load"
       \/ File!OpenFails /\ mpc' = "failed"
    /\ UNCHANGED <<next, ring, tmp, dataBuffOnly, locked, surplus, stopHeld, loopVars,
                   delivered, process, stored>>

StartLoad ==
    /\ mpc = "load"
    /\ File!LoadRows(BufLen) \/ File!LoadFails(BufLen)
    /\ mpc' = "fill"
    /\ UNCHANGED <<next, jobVars, surplus, stopHeld, loopVars, delivered, process, stored>>

StartFill ==
    /\ mpc = "fill" /\ File!MutexFree
    /\ ring' = ring \o loaded
    /\ loaded' = <<>>
    /\ dataBuffOnly' = (Len(ring') < BufLen \/ dataBuffOnly)
    /\ mpc' = "up" /\ lpc' = "check"
    /\ UNCHANGED <<recs, offset, pos, open, trunc, faults, next, tmp, isRunnable, locked,
                   surplus, stopHeld, req, stopRaced, delivered, process, stored>>
-----------------------------------------------------------------------------
(* Add of the next request by some task: into the ring if only the ring has  *)
(* data, else into tmp, and a tmp of BufLen goes to the file.                *)
Adds ==
    /\ ~locked /\ next <= MaxRequests
    /\ mpc \in {"new", "load", "fill"} => EarlyAdds

AddToRing ==
    /\ Adds
    /\ dataBuffOnly /\ SurplusCount > 0
    /\ ring' = Append(ring, next)
    /\ next' = next + 1
    /\ UNCHANGED <<fileVars, tmp, dataBuffOnly, isRunnable, locked, mainVars, loopVars,
                   delivered, process, stored>>

BatchPrepended == <<next>> \o tmp
Batch == Append(tmp, next)

AddToTmp ==
    /\ Adds /\ (dataBuffOnly => SurplusCount = 0)
    /\ \/ /\ Len(Batch) < BufLen
          /\ tmp' = Batch
          /\ UNCHANGED <<fileVars, stored>>
       \/ /\ Len(Batch) >= BufLen
          /\ File!Store(Batch)
          /\ tmp' = <<>>
          /\ stored' = stored \cup ToSet(Batch)
       \/ /\ Len(Batch) >= BufLen
          /\ File!StoreFails(Batch)
          /\ tmp' = Batch
          /\ UNCHANGED stored
    /\ dataBuffOnly' = FALSE
    /\ next' = next + 1
    /\ UNCHANGED <<ring, isRunnable, locked, mainVars, loopVars, delivered, process>>
-----------------------------------------------------------------------------
(* loopReport. *)
LoopCheck ==
    /\ lpc = "check"
    /\ lpc' = IF isRunnable THEN "current" ELSE "off"
    /\ UNCHANGED <<fileVars, next, jobVars, mainVars, req, stopRaced, delivered, process, stored>>

LoopCurrentNeverLoads ==
    /\ lpc = "current"
    /\ IF ring = <<>>
       THEN lpc' = "check" /\ UNCHANGED req
       ELSE lpc' = "report" /\ req' = Head(ring)
    /\ UNCHANGED <<fileVars, next, jobVars, mainVars, stopRaced, delivered, process, stored>>

LoopCurrent ==
    /\ lpc = "current"
    /\ IF ring = <<>>
       THEN lpc' = "try" /\ UNCHANGED req
       ELSE lpc' = "report" /\ req' = Head(ring)
    /\ UNCHANGED <<fileVars, next, jobVars, mainVars, stopRaced, delivered, process, stored>>

ReportOKWithoutDequeue ==
    /\ lpc = "report"
    /\ delivered' = Append(delivered, req)
    /\ lpc' = "check"
    /\ UNCHANGED <<fileVars, next, jobVars, mainVars, req, stopRaced, process, stored>>

ReportOK ==
    /\ lpc = "report"
    /\ delivered' = Append(delivered, req)
    /\ lpc' = "dequeue"
    /\ UNCHANGED <<fileVars, next, jobVars, mainVars, req, stopRaced, process,
                   stored>>

ReportFailsAndDrops ==
    /\ lpc = "report"
    /\ lpc' = "dequeue"
    /\ UNCHANGED <<fileVars, next, jobVars, mainVars, req, stopRaced, delivered, process,
                   stored>>

(* creport does not answer, or its answer is lost, or the call panics. *)
ReportFails ==
    /\ lpc = "report"
    /\ \/ UNCHANGED <<delivered, faults>>
       \/ File!Fault /\ delivered' = Append(delivered, req)
    /\ lpc' = "check" /\ req' = NoRequest
    /\ UNCHANGED <<recs, offset, pos, open, trunc, loaded, next, jobVars, mainVars,
                   stopRaced, process, stored>>

LoopDequeue ==
    /\ lpc = "dequeue"
    /\ ring' = IF ring = <<>> THEN ring ELSE Tail(ring)
    /\ lpc' = "check" /\ req' = NoRequest
    /\ UNCHANGED <<fileVars, next, tmp, dataBuffOnly, isRunnable, locked, mainVars,
                   stopRaced, delivered, process, stored>>

(* tryLoadData takes job.mutex and asks the file for as many rows as fit. *)
Stopping == mpc \in {"surplus", "truncate", "truncating", "stopped"}

TryFull ==
    /\ lpc = "try" /\ ~locked
    /\ SurplusCount = 0
    /\ lpc' = "check"
    /\ UNCHANGED <<fileVars, next, jobVars, mainVars, req, stopRaced, delivered, process, stored>>

TryLoad ==
    /\ lpc = "try" /\ ~locked
    /\ SurplusCount > 0
    /\ File!LoadRows(SurplusCount) \/ File!LoadFails(SurplusCount)
    /\ locked' = TRUE
    /\ lpc' = "move"
    /\ stopRaced' = (stopRaced \/ Stopping)
    /\ UNCHANGED <<next, ring, tmp, dataBuffOnly, isRunnable, mainVars, req, delivered,
                   process, stored>>

(* How much of tmp finds room after the loaded rows, and what is left of it. *)
MovedForgettingRows == Lesser(SurplusCount, Len(tmp))
Moved == Lesser(SurplusCount - Len(loaded), Len(tmp))
TmpLeft == SubSeq(tmp, Moved + 1, Len(tmp))

(* The loaded rows, then tmp, go to the ring; room is never short for rows. *)
TryMove ==
    /\ lpc = "move" /\ File!MutexFree
    /\ ring' = ring \o loaded \o SubSeq(tmp, 1, Moved)
    /\ tmp' = TmpLeft
    /\ dataBuffOnly' = (dataBuffOnly \/ Moved = Len(tmp))
    /\ loaded' = <<>>
    /\ locked' = FALSE
    /\ lpc' = "check"
    /\ stopRaced' = (stopRaced \/ Stopping)
    /\ UNCHANGED <<recs, offset, pos, open, trunc, faults, next, isRunnable, mainVars, req,
                   delivered, process, stored>>

(* The Truncate inside Load.  A panic there leaves tryLoadData, and its       *)
(* deferred calls release the mutexes.                                       *)
LoadTruncate ==
    /\ File!TruncateStep("load") \/ File!TruncateFails("load")
    /\ UNCHANGED <<next, jobVars, mainVars, loopVars, delivered, process, stored>>

TryPanics ==
    /\ lpc = "move"
    /\ File!TruncatePanics("load")
    /\ locked' = FALSE
    /\ lpc' = "check"
    /\ UNCHANGED <<next, ring, tmp, dataBuffOnly, isRunnable, mainVars, req, stopRaced,
                   delivered, process, stored>>
-----------------------------------------------------------------------------
(* Stop, without job.mutex and without fs.mutex. *)
StopCalled ==
    /\ Stops /\ mpc = "up"
    /\ isRunnable' = FALSE
    /\ stopHeld' = Held
    /\ mpc' = "surplus"
    /\ stopRaced' = locked
    /\ UNCHANGED <<fileVars, next, ring, tmp, dataBuffOnly, locked, surplus, lpc, req,
                   delivered, process, stored>>

StopSurplus ==
    /\ mpc = "surplus"
    /\ surplus' = ring
    /\ mpc' = "truncate"
    /\ UNCHANGED <<fileVars, next, jobVars, stopHeld, loopVars, delivered, process, stored>>

StopTruncateWithoutTmp ==
    /\ mpc = "truncate"
    /\ trunc' = [trunc EXCEPT !["stop"] = File!TruncateCall(surplus, <<>>)]
    /\ mpc' = "truncating"
    /\ UNCHANGED <<recs, offset, pos, open, loaded, faults, next, jobVars, surplus, stopHeld,
                   loopVars, delivered, process, stored>>

StopTruncate ==
    /\ mpc = "truncate"
    /\ trunc' = [trunc EXCEPT !["stop"] = File!TruncateCall(surplus, tmp)]
    /\ mpc' = "truncating"
    /\ UNCHANGED <<recs, offset, pos, open, loaded, faults, next, jobVars, surplus, stopHeld,
                   loopVars, delivered, process, stored>>

StopTruncating ==
    /\ mpc = "truncating"
    /\ File!TruncateStep("stop") \/ File!TruncateFails("stop")
    /\ UNCHANGED <<next, jobVars, mainVars, loopVars, delivered, process, stored>>

(* A panic there leaves Stop, which does not close the file.                 *)
StopPanics ==
    /\ mpc = "truncating"
    /\ File!TruncatePanics("stop")
    /\ mpc' = "stopped"
    /\ UNCHANGED <<next, jobVars, surplus, stopHeld, loopVars, delivered, process, stored>>

StopClose ==
    /\ mpc = "truncating" /\ trunc["stop"].at = "idle"
    /\ File!Close
    /\ mpc' = "stopped"
    /\ UNCHANGED <<next, jobVars, surplus, stopHeld, loopVars, delivered, process, stored>>
-----------------------------------------------------------------------------
(* The process ends, after Stop or by a crash, and another one starts: only  *)
(* the file is left.                                                         *)
Truncating == \E c \in File!Callers : trunc[c].at \notin {"idle", "read"}

Restart ==
    /\ process < MaxProcesses
    /\ \/ mpc \in {"stopped", "failed"}
       \/ Crashes = "always"
       \/ Crashes = "outside Truncate" /\ ~Truncating
    /\ process' = process + 1
    /\ File!Forget
    /\ ring' = <<>> /\ tmp' = <<>>
    /\ dataBuffOnly' = FALSE /\ isRunnable' = FALSE /\ locked' = FALSE
    /\ mpc' = "new" /\ surplus' = <<>> /\ stopHeld' = {}
    /\ lpc' = "off" /\ req' = NoRequest /\ stopRaced' = FALSE
    /\ UNCHANGED <<next, delivered, stored>>
-----------------------------------------------------------------------------
Start == StartOpen \/ StartLoad \/ StartFill
Add == AddToRing \/ AddToTmp
TryLoadData == TryFull \/ TryLoad \/ TryMove \/ TryPanics
LoopReport ==
    LoopCheck \/ LoopCurrent \/ ReportOK \/ ReportFails \/ LoopDequeue \/ TryLoadData
Stop ==
    \/ StopCalled \/ StopSurplus \/ StopTruncate
    \/ StopTruncating \/ StopPanics \/ StopClose

Next == Start \/ Add \/ LoopReport \/ LoadTruncate \/ Stop \/ Restart

Spec == Init /\ [][Next]_vars

(* Start and the loop goroutine keep running; creport recovers every time.   *)
FairSpec ==
    /\ Spec
    /\ WF_vars(Start) /\ WF_vars(LoopReport) /\ WF_vars(LoadTruncate)
    /\ SF_vars(ReportOK)
-----------------------------------------------------------------------------
(* An accepted request is kept, in the ring, in tmp, on file or on its way   *)
(* between them, until creport received it (README.md:28-33).                *)
Box == INSTANCE Outbox WITH
           Request <- 1 .. MaxRequests,
           pending <- Held \ ToSet(delivered),
           received <- ToSet(delivered)
ImplementsOutbox == Box!Spec

(* The same for a single process that is not stopped, as an invariant.       *)
NothingLost == 1 .. next - 1 \subseteq Held \cup ToSet(delivered)

(* Without failures nothing is delivered twice (report_job.go:79-87): no     *)
(* request is in two places at a time, and Dequeue removes what was sent.    *)
AtMostOnce == faults = 0 /\ process = 1 => IsInjective(delivered)

(* What is not in the ring is kept in the order in which it was accepted:    *)
(* first the rows just loaded, then the file, then tmp (report_job.go:117).  *)
BacklogOrdered ==
    LET backlog == loaded \o File!Backlog \o tmp
    IN  faults = 0 /\ process = 1 /\ ~Stopping =>
            \A i, j \in DOMAIN backlog : i < j => backlog[i] < backlog[j]

(* The two promises about the order in which creport gets requests.          *)
DeliveredRight == AtMostOnce /\ BacklogOrdered

(* Whatever the file does, a request leaves the memory of a process only for *)
(* the file or for creport (report_job.go:79-87, 105-113, 130-145).          *)
MemoryKept ==
    [][process' = process =>
        ToSet(ring) \cup ToSet(tmp) \subseteq
            ToSet(ring') \cup ToSet(tmp') \cup ToSet(recs') \cup ToSet(delivered')]_vars

(* What was written to the file survives the end of the process: it is on    *)
(* its way to creport in this process, or was received (README.md:32).       *)
StoredSurvives ==
    stored \subseteq Held \cup ToSet(recs) \cup ToSet(delivered)

(* When Stop returns, the file holds what the job held when it was called,   *)
(* less what creport received (report_job.go:63-68, README.md:32).           *)
StopKeepsAll ==
    mpc = "stopped" /\ faults = 0 =>
        stopHeld \subseteq ToSet(recs) \cup ToSet(delivered)
(* It does, unless tryLoadData was running meanwhile.                        *)
StopKeeps == ~stopRaced => StopKeepsAll

(* Every accepted request reaches creport in the end, if creport recovers    *)
(* again and again (README.md:32).                                           *)
AllDelivered ==
    \A r \in 1 .. MaxRequests : (r < next) ~> (r \in ToSet(delivered) \/ mpc = "failed")

(* A crash delays what is on file and does not lose it.                      *)
StoredDelivered ==
    \A r \in 1 .. MaxRequests : (r \in stored) ~> (r \in ToSet(delivered))
=============================================================================
