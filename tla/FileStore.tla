----------------------------- MODULE FileStore -----------------------------
(* store/store.go: the file in which the report job keeps requests that do   *)
(* not fit in memory.  The unit is a record.  The file is read from offset   *)
(* (only kept in memory) and written at the position of the file descriptor, *)
(* which Load leaves wherever its buffered reader stopped.                   *)
(*                                                                           *)
(* Bounds and units: Chunk is the number of records in one 4096-byte read of *)
(* bufio.Reader (2048 records of two bytes: Encode of this repository writes *)
(* only the length), CleanThreshold is cleanOffsetThreshold in records.      *)
EXTENDS Integers, Sequences

CONSTANTS Chunk, CleanThreshold,
          Rows,        \* most rows one Load asks for, most requests one Store gets
          MaxRecords,  \* bound: records stored
          MaxFaults,   \* bound: failing system calls
          ReadsFail    \* whether reads of the file are among them

ASSUME FileAssumption ==
    /\ Chunk \in Nat \ {0} /\ CleanThreshold \in Nat /\ Rows \in Nat \ {0}
    /\ MaxRecords \in Nat /\ MaxFaults \in Nat /\ ReadsFail \in BOOLEAN

VARIABLES
    recs,    \* the records in the file
    offset,  \* fs.offset: records already loaded
    pos,     \* position of the file descriptor
    open,    \* fs.store is an open file
    trunc,   \* per caller: its place in Truncate and what it has still to write
    loaded,  \* what the last Load returned
    faults,  \* failing system calls so far
    next     \* the next record a client stores: records are 1, 2, 3, ...

fileVars == <<recs, offset, pos, open, trunc, loaded, faults>>
vars == <<fileVars, next>>

Hole == 0             \* what a reader finds in bytes that nobody wrote
Callers == {"load", "stop"}
Idle == [at |-> "idle", before |-> <<>>, keep |-> <<>>, after |-> <<>>]
TruncateCall(b, a) == [at |-> "read", before |-> b, keep |-> <<>>, after |-> a]

Lesser(a, b) == IF a < b THEN a ELSE b
Greater(a, b) == IF a < b THEN b ELSE a

(* The records that Load has not returned yet. *)
Unread == SubSeq(recs, offset + 1, Len(recs))

(* The file r after a write of batch at position p. *)
Written(r, p, batch) ==
    [i \in 1 .. Greater(Len(r), IF batch = <<>> THEN 0 ELSE p + Len(batch)) |->
        IF i > p /\ i <= p + Len(batch) THEN batch[i - p]
        ELSE IF i <= Len(r) THEN r[i] ELSE Hole]

(* Where a Load of rows leaves the file position: it seeks to offset, reads  *)
(* whole chunks until it has one record more than it needs, or the end.      *)
ReadEnd(rows) ==
    LET available == Len(recs) - offset
        wanted == Lesser(rows + 1, available)
        chunks == (wanted + Chunk - 1) \div Chunk
    IN  IF available <= 0 THEN offset ELSE Lesser(Len(recs), offset + chunks * Chunk)

(* fs.mutex is held across a Load, the Truncate it may call included; the    *)
(* Truncate of Stop does not take it.                                        *)
MutexFree == trunc["load"].at = "idle"

TypeOK ==
    /\ recs \in Seq(0 .. MaxRecords)
    /\ offset \in Nat /\ pos \in Nat
    /\ open \in BOOLEAN
    /\ trunc \in [Callers -> 
            [at : {"idle", "read", "zero", "before", "keep", "after", "reset"},
             before : Seq(0 .. MaxRecords),
             keep : Seq(0 .. MaxRecords),
             after : Seq(0 .. MaxRecords)]]
    /\ loaded \in Seq(0 .. MaxRecords)
    /\ faults \in 0 .. MaxFaults
    /\ next \in 1 .. MaxRecords + 1

Init ==
    /\ recs = <<>> /\ offset = 0 /\ pos = 0
    /\ open = FALSE
    /\ trunc = [c \in Callers |-> Idle]
    /\ loaded = <<>>
    /\ faults = 0
    /\ next = 1
-----------------------------------------------------------------------------
Fault == faults < MaxFaults /\ faults' = faults + 1

OpenFileTruncating ==
    /\ ~open
    /\ open' = TRUE /\ pos' = 0
    /\ recs' = <<>>
    /\ UNCHANGED <<offset, trunc, loaded, faults>>

(* Open of a file that is there or not; the position is its beginning. *)
OpenFile ==
    /\ ~open
    /\ open' = TRUE /\ pos' = 0
    /\ UNCHANGED <<recs, offset, trunc, loaded, faults>>

OpenFails ==
    /\ ~open
    /\ Fault
    /\ UNCHANGED <<recs, offset, pos, open, trunc, loaded>>

Close ==
    /\ open' = FALSE
    /\ UNCHANGED <<recs, offset, pos, trunc, loaded, faults>>

(* A write at the current position, not at the end. *)
Write(batch) ==
    /\ recs' = Written(recs, pos, batch)
    /\ pos' = pos + Len(batch)

Store(batch) ==
    /\ MutexFree /\ open
    /\ Write(batch)
    /\ UNCHANGED <<offset, open, trunc, loaded, faults>>

(* A closed file takes nothing; a failing one takes a prefix. *)
StoreFails(batch) ==
    /\ MutexFree
    /\ \/ ~open /\ UNCHANGED <<recs, pos, faults>>
       \/ open /\ Fault /\ \E k \in 0 .. Len(batch) - 1 : Write(SubSeq(batch, 1, k))
    /\ UNCHANGED <<offset, open, trunc, loaded>>

(* The rows are returned and passed over; a long read prefix is cut off. *)
LoadRows(rows) ==
    /\ MutexFree /\ open
    /\ LET n == Greater(0, Lesser(rows, Len(recs) - offset))
       IN  /\ loaded' = SubSeq(recs, offset + 1, offset + n)
           /\ offset' = offset + n
    /\ pos' = ReadEnd(rows)
    /\ trunc' = IF CleanThreshold < offset'
                THEN [trunc EXCEPT !["load"] = TruncateCall(<<>>, <<>>)]
                ELSE trunc
    /\ UNCHANGED <<recs, open, faults>>

(* A read that fails is taken for the end of the file: Load returns the rows *)
(* of the chunks before it and no error.  A closed file returns none.        *)
LoadFails(rows) ==
    /\ MutexFree
    /\ \/ ~open /\ loaded' = <<>> /\ UNCHANGED <<offset, pos, faults>>
       \/ /\ open /\ ReadsFail /\ Fault
          /\ \E j \in 0 .. rows \div Chunk :
                /\ offset + j * Chunk < Len(recs)
                /\ loaded' = SubSeq(recs, offset + 1, offset + j * Chunk)
                /\ offset' = offset + j * Chunk
                /\ pos' = offset'
    /\ trunc' = IF open /\ CleanThreshold < offset'
                THEN [trunc EXCEPT !["load"] = TruncateCall(<<>>, <<>>)]
                ELSE trunc
    /\ UNCHANGED <<recs, open>>
-----------------------------------------------------------------------------
(* Truncate rewrites the file in place: read what is unread, cut the file to *)
(* nothing, write what comes before, what was unread, what comes after.      *)
TruncateRead(c) ==
    /\ trunc[c].at = "read" /\ open
    /\ offset <= Len(recs)
    /\ trunc' = [trunc EXCEPT ![c].at = "zero", ![c].keep = Unread]
    /\ UNCHANGED <<recs, offset, pos, open, loaded, faults>>

(* A file shorter than offset makes a negative length and Go panics. *)
TruncatePanics(c) ==
    /\ trunc[c].at = "read" /\ open
    /\ offset > Len(recs)
    /\ trunc' = [trunc EXCEPT ![c] = Idle]
    /\ loaded' = IF c = "load" THEN <<>> ELSE loaded
    /\ UNCHANGED <<recs, offset, pos, open, faults>>

TruncateZero(c) ==
    /\ trunc[c].at = "zero" /\ open
    /\ recs' = <<>> /\ pos' = 0
    /\ trunc' = [trunc EXCEPT ![c].at = "before"]
    /\ UNCHANGED <<offset, open, loaded, faults>>

TruncateWrite(c) ==
    \E part \in {"before", "keep", "after"} :
        /\ trunc[c].at = part /\ open
        /\ Write(trunc[c][part])
        /\ trunc' = [trunc EXCEPT ![c].at =
               CASE part = "before" -> "keep" [] part = "keep" -> "after"
                 [] part = "after" -> "reset"]
        /\ UNCHANGED <<offset, open, loaded, faults>>

TruncateResetForgotten(c) ==
    /\ trunc[c].at = "reset"
    /\ trunc' = [trunc EXCEPT ![c] = Idle]
    /\ UNCHANGED <<recs, offset, pos, open, loaded, faults>>

TruncateReset(c) ==
    /\ trunc[c].at = "reset"
    /\ offset' = 0
    /\ trunc' = [trunc EXCEPT ![c] = Idle]
    /\ UNCHANGED <<recs, pos, open, loaded, faults>>

(* A failing system call, or a closed file, leaves the rest undone. *)
TruncateFails(c) ==
    /\ trunc[c].at \notin {"idle", "reset"}
    /\ \/ open /\ Fault
       \/ ~open /\ UNCHANGED faults
    /\ trunc' = [trunc EXCEPT ![c] = Idle]
    /\ UNCHANGED <<recs, offset, pos, open, loaded>>

TruncateStep(c) ==
    TruncateRead(c) \/ TruncateZero(c) \/ TruncateWrite(c) \/ TruncateReset(c)

(* The process dies: the file stays, everything else is gone. *)
Forget ==
    /\ offset' = 0 /\ pos' = 0 /\ open' = FALSE
    /\ trunc' = [c \in Callers |-> Idle]
    /\ loaded' = <<>>
    /\ UNCHANGED <<recs, faults>>
-----------------------------------------------------------------------------
(* The store by itself, under any sequence of locked calls. *)
Batch(n) == [i \in 1 .. n |-> next + i - 1]

ClientStore ==
    \E n \in 1 .. Rows :
        /\ next + n <= MaxRecords + 1
        /\ Store(Batch(n))
        /\ next' = next + n

ClientLoad == (\E rows \in 1 .. Rows : LoadRows(rows)) /\ UNCHANGED next

Next ==
    \/ (OpenFile /\ UNCHANGED next)
    \/ ClientStore
    \/ ClientLoad
    \/ (TruncateStep("load") /\ UNCHANGED next)

Spec == Init /\ [][Next]_vars
-----------------------------------------------------------------------------
(* What is unread, wherever a Truncate in progress holds it. *)
Backlog ==
    IF trunc["load"].at \in {"idle", "read"} THEN Unread ELSE trunc["load"].keep

(* The store is a FIFO queue on disk: a Store appends, a Load takes from the *)
(* front, and nothing else changes what is unread (store.go:50-134).         *)
Disk == INSTANCE DiskQueue WITH unread <- Backlog, out <- loaded
ImplementsDiskQueue == Disk!Spec
=============================================================================
