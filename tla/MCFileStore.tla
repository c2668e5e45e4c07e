---------------------------- MODULE MCFileStore ----------------------------
(* What keeps data outside the process: the file store, with batches and     *)
(* loads of one or two records, so that loads end before, at and after the   *)
(* end of the file; the logs of one flow, two of them, with two calls of     *)
(* UploadLog; and transactions of three callers over one connection.  They   *)
(* share nothing, so a behaviour is a behaviour of one of them (`part`).     *)
EXTENDS FileStore, FiniteSets

CONSTANTS
    Files, Calls, Attempts, MaxLogFaults, MaxAgeing, \* of LogPipeline
    TxCallers, MaxConns                              \* of Transaction

VARIABLES
    part,
    isDeleteSourceFile, client, old, source, dir, tmp, zip, expired, cleaners,
    listed, pc, todo, attempt, uploaded, log_faults, ageing, swept, torn, reused,
    tx_pc, tx, panicked, result

Logs == INSTANCE LogPipeline WITH MaxFaults <- MaxLogFaults, faults <- log_faults

Tx == INSTANCE Transaction WITH Callers <- TxCallers, pc <- tx_pc

ASSUME StorageAssumption == Logs!LogAssumption

logVars == <<isDeleteSourceFile, client, old, source, dir, tmp, zip, expired, cleaners,
             listed, pc, todo, attempt, uploaded, log_faults, ageing, swept, torn, reused>>
txVars == <<tx_pc, tx, panicked, result>>
storageVars == <<part, vars, logVars, txVars>>

StorageInit ==
    /\ part \in {"store", "logs", "tx"}
    /\ Init /\ Logs!Init /\ Tx!Init
    /\ part # "logs" => isDeleteSourceFile /\ ~client /\ old = {}

StoreNext == part = "store" /\ Next /\ UNCHANGED <<part, logVars, txVars>>
LogsDo(A) == part = "logs" /\ A /\ UNCHANGED <<part, vars, txVars>>
TxDo(A) == part = "tx" /\ A /\ UNCHANGED <<part, vars, logVars>>

StorageNext == StoreNext \/ LogsDo(Logs!Next) \/ TxDo(Tx!Next)
StorageSpec ==
    /\ StorageInit /\ [][StorageNext]_storageVars
    /\ \A c \in Calls : WF_storageVars(LogsDo(Logs!Step(c)))
    /\ \A c \in TxCallers : SF_storageVars(TxDo(Tx!Step(c)))

-----------------------------------------------------------------------------
(* The properties of the parts, stated and explained in their modules.       *)

\* The variables of every part have their types (file, directories, pool).
TypesOK == TypeOK /\ Logs!TypeOK /\ Tx!TypeOK

\* A log file that is gone from its place is kept or uploaded (archive.go, move.go).
NotLost == Logs!NotLost
\* What UploadLog calls a success is one (pipeline.go).
SuccessMeansUploaded == Logs!SuccessMeansUploaded
\* DoTransaction returns nil for what was committed (tx.go).
NilMeansCommitted == Tx!NilMeansCommitted
\* UploadLog and its goroutine end (pipeline.go); DoTransaction returns, and
\* gives its connection back (tx.go).
CallsEnd == (part = "logs" => Logs!EveryCallEnds) /\ (part = "tx" => Tx!EveryCallReturns)
=============================================================================
