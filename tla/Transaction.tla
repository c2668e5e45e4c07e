----------------------------- MODULE Transaction -----------------------------
(* DoTransaction of middleware/orm/tx.go: callers run a function in a        *)
(* transaction each, at the same time, over the connections of one pool.     *)
(* A transaction keeps its connection until it is committed or rolled back.  *)
EXTENDS Naturals, FiniteSets

CONSTANTS
    Callers,
    MaxConns            \* connections of the pool

VARIABLES
    pc,                 \* where a caller is
    tx,                 \* what became of its transaction
    panicked,           \* its function panicked (history)
    result              \* what DoTransaction returned: nil or an error

txvars == <<pc, tx, panicked, result>>

(* "unknown": the answer to Commit was lost, the server may have committed.  *)
TypeOK ==
    /\ pc \in [Callers -> {"begin", "fn", "commit", "rollback", "recover", "returned"}]
    /\ tx \in [Callers -> {"none", "invalid", "open", "committed", "rolled back", "unknown"}]
    /\ panicked \in [Callers -> BOOLEAN]
    /\ result \in [Callers -> {"none", "nil", "error"}]

Init ==
    /\ pc = [c \in Callers |-> "begin"]
    /\ tx = [c \in Callers |-> "none"]
    /\ panicked = [c \in Callers |-> FALSE]
    /\ result = [c \in Callers |-> "none"]

Goto(c, step) == pc' = [pc EXCEPT ![c] = step]
Becomes(c, state) == tx' = [tx EXCEPT ![c] = state]
Return(c, value) == Goto(c, "returned") /\ result' = [result EXCEPT ![c] = value]

(* Begin waits for a connection.  Its error is not looked at: the function   *)
(* runs with a *gorm.DB whose Error is set, and Commit reports it.           *)
InUse == {c \in Callers : tx[c] = "open"}
Begin(c) ==
    /\ pc[c] = "begin"
    /\ Cardinality(InUse) < MaxConns
    /\ Becomes(c, "open") \/ Becomes(c, "invalid")
    /\ Goto(c, "fn")
    /\ UNCHANGED <<panicked, result>>

Fn(c) ==
    /\ pc[c] = "fn"
    /\ \/ Goto(c, "commit") /\ UNCHANGED panicked
       \/ Goto(c, "rollback") /\ UNCHANGED panicked
       \/ Goto(c, "recover") /\ panicked' = [panicked EXCEPT ![c] = TRUE]
    /\ UNCHANGED <<tx, result>>

(* database/sql gives the connection back whatever Rollback and Commit say.  *)
Finish(c, state) == Becomes(c, IF tx[c] = "open" THEN state ELSE tx[c])

Rollback(c) == Finish(c, "rolled back")
FnFailed(c) ==
    /\ pc[c] = "rollback"
    /\ Rollback(c)
    /\ Return(c, "error")
    /\ UNCHANGED panicked

(* The deferred function rolls back, and nobody sets a result: nil.          *)
Recover(c) ==
    /\ pc[c] = "recover"
    /\ Rollback(c)
    /\ Return(c, "nil")
    /\ UNCHANGED panicked

CommitFailedAnswer == "nil"
CommitFailed == "error"
Commit(c) ==
    /\ pc[c] = "commit"
    /\ \/ tx[c] = "open" /\ Becomes(c, "committed") /\ Return(c, "nil")
       \/ Finish(c, "unknown") /\ Return(c, CommitFailed)
    /\ UNCHANGED panicked

Step(c) == Begin(c) \/ Fn(c) \/ FnFailed(c) \/ Recover(c) \/ Commit(c)
Next == \E c \in Callers : Step(c)

(* A caller goes on when it can, and gets a connection in its turn.          *)
Fairness == \A c \in Callers : SF_txvars(Step(c))
Spec == Init /\ [][Next]_txvars /\ Fairness

-----------------------------------------------------------------------------
(* nil is returned for a committed transaction only, or after a panic, which *)
(* the caller does not learn of.                                             *)
NilMeansCommitted == \A c \in Callers :
    result[c] = "nil" => tx[c] = "committed" \/ panicked[c]

(* Every call returns: no path of another call keeps a connection, so nobody *)
(* waits in Begin for ever.                                                  *)
EveryCallReturns == \A c \in Callers : <>(pc[c] = "returned")

-----------------------------------------------------------------------------
(* A transaction is committed by the step that returns nil only, and the     *)
(* deferred function that also returns nil is reached by a panic only.       *)
IInv ==
    /\ TypeOK
    /\ \A c \in Callers :
          /\ pc[c] = "recover" => panicked[c]
          /\ pc[c] # "returned" => result[c] = "none"
    /\ NilMeansCommitted
=============================================================================
