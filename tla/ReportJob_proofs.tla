-------------------------- MODULE ReportJob_proofs --------------------------
(* What the report job promises, for every BufLen, every number of requests, *)
(* processes and failing system calls, and every size of the file.           *)
EXTENDS ReportJob, SequenceTheorems, TLAPS

(* What is unconditional: the types, which goroutine is where when the locks *)
(* and the file are in use, and that what the loop delivers is the head of   *)
(* the ring.                                                                 *)
Requests == 0 .. MaxRequests
TruncateState ==
    [at : {"idle", "read", "zero", "before", "keep", "after", "reset"},
     before : Seq(Requests), keep : Seq(Requests), after : Seq(Requests)]

FileTypes ==
    /\ recs \in Seq(Requests)
    /\ offset \in Nat /\ pos \in Nat
    /\ open \in BOOLEAN
    /\ trunc \in [{"load", "stop"} -> TruncateState]
    /\ loaded \in Seq(Requests)
    /\ faults \in 0 .. MaxFaults

JobTypes ==
    /\ next \in 1 .. MaxRequests + 1
    /\ ring \in Seq(Requests) /\ Len(ring) <= BufLen
    /\ tmp \in Seq(1 .. MaxRequests)
    /\ dataBuffOnly \in BOOLEAN /\ isRunnable \in BOOLEAN /\ locked \in BOOLEAN
    /\ delivered \in Seq(Requests)
    /\ process \in 1 .. MaxProcesses
    /\ stored \in SUBSET (1 .. MaxRequests)

ThreadTypes ==
    /\ mpc \in {"new", "load", "fill", "failed", "up", "surplus", "truncate",
                "truncating", "stopped"}
    /\ surplus \in Seq(Requests)
    /\ lpc \in {"off", "check", "current", "report", "dequeue", "try", "move"}
    /\ req \in Requests
    /\ stopHeld \in SUBSET Requests
    /\ stopRaced \in BOOLEAN

NotUp == mpc \in {"new", "load", "fill", "failed"}
Loading == lpc = "move" \/ mpc = "fill"

StartInv ==
    /\ NotUp => lpc = "off" /\ ring = <<>> /\ ~dataBuffOnly
    /\ mpc = "new" => ~open /\ loaded = <<>>
    /\ mpc \in {"load", "fill", "up", "surplus", "truncate", "truncating"} => open
    /\ mpc = "failed" => ~open

LoadInv ==
    /\ locked <=> lpc = "move"
    /\ trunc["load"].at # "idle" => Loading
    /\ loaded # <<>> => Loading
    /\ Loading => Len(ring) + Len(loaded) <= BufLen
    /\ trunc["stop"].at # "idle" => mpc = "truncating"

LoopInv ==
    /\ lpc \in {"report", "dequeue"} => ring # <<>> /\ req = Head(ring)
    /\ lpc = "dequeue" => req \in ToSet(delivered)

Inv ==
    /\ FileTypes /\ JobTypes /\ ThreadTypes
    /\ StartInv /\ LoadInv /\ LoopInv
-----------------------------------------------------------------------------
(* The numbers among the constants.                                          *)
LEMMA Bounds ==
    /\ Chunk \in Nat \ {0} /\ CleanThreshold \in Nat /\ MaxFaults \in Nat
    /\ BufLen \in Nat \ {0} /\ MaxRequests \in Nat /\ MaxProcesses \in Nat \ {0}
BY JobAssumption

(* The elements of a sequence, as a set.                                     *)
LEMMA ToSetType ==
    ASSUME NEW S, NEW s \in Seq(S)
    PROVE  ToSet(s) \subseteq S
BY DEF ToSet

LEMMA ToSetEmpty == ToSet(<<>>) = {}
BY DEF ToSet

LEMMA ToSetConcat ==
    ASSUME NEW S, NEW s \in Seq(S), NEW t \in Seq(S)
    PROVE  ToSet(s \o t) = ToSet(s) \cup ToSet(t)
<1>1. \A u : ToSet(u) = Range(u)
    BY DEF ToSet, Range
<1>2. QED
    BY <1>1, RangeConcatenation

LEMMA ToSetAppend ==
    ASSUME NEW S, NEW s \in Seq(S), NEW e \in S
    PROVE  ToSet(Append(s, e)) = ToSet(s) \cup {e}
<1>1. Append(s, e) = s \o <<e>>
    BY AppendIsConcat
<1>2. <<e>> \in Seq(S)
    OBVIOUS
<1>3. ToSet(<<e>>) = {e}
    BY DEF ToSet
<1> DEFINE u == <<e>>
<1> HIDE DEF u
<1>4. ToSet(s \o u) = ToSet(s) \cup ToSet(u)
    BY <1>2, ToSetConcat DEF u
<1>5. QED
    BY <1>1, <1>3, <1>4 DEF u

LEMMA Split ==
    ASSUME NEW S, NEW s \in Seq(S), NEW n \in 0 .. Len(s)
    PROVE  /\ SubSeq(s, 1, n) \in Seq(S) /\ Len(SubSeq(s, 1, n)) = n
           /\ SubSeq(s, n + 1, Len(s)) \in Seq(S)
           /\ Len(SubSeq(s, n + 1, Len(s))) = Len(s) - n
           /\ SubSeq(s, 1, n) \o SubSeq(s, n + 1, Len(s)) = s
           /\ ToSet(SubSeq(s, 1, n)) \cup ToSet(SubSeq(s, n + 1, Len(s))) = ToSet(s)
<1> DEFINE a == SubSeq(s, 1, n)
<1> DEFINE b == SubSeq(s, n + 1, Len(s))
<1>1. a \in Seq(S) /\ Len(a) = n
    OBVIOUS
<1>2. b \in Seq(S) /\ Len(b) = Len(s) - n
    OBVIOUS
<1>3. a \o b = s
    <2>1. SubSeq(s, 1, Len(s)) = s
        BY SubSeqFull
    <2>2. SubSeq(s, 1, n) \o SubSeq(s, n + 1, Len(s)) = SubSeq(s, 1, Len(s))
        <3>1. 1 \in 1 .. Len(s) + 1 /\ n \in 1 - 1 .. Len(s) /\ Len(s) \in n .. Len(s)
            OBVIOUS
        <3>2. QED
            BY <3>1, ConcatAdjacentSubSeq
    <2>3. QED
        BY <2>1, <2>2
<1> HIDE DEF a, b
<1>4. ToSet(a) \cup ToSet(b) = ToSet(s)
    <2>1. ToSet(a \o b) = ToSet(a) \cup ToSet(b)
        BY <1>1, <1>2, ToSetConcat
    <2>2. QED
        BY <1>3, <2>1
<1>5. QED
    BY <1>1, <1>2, <1>3, <1>4 DEF a, b

LEMMA ToSetTail ==
    ASSUME NEW S, NEW s \in Seq(S), s # <<>>
    PROVE  /\ Tail(s) \in Seq(S) /\ Head(s) \in S
           /\ Len(Tail(s)) = Len(s) - 1
           /\ s = <<Head(s)>> \o Tail(s)
           /\ ToSet(s) = {Head(s)} \cup ToSet(Tail(s))
<1>1. Tail(s) \in Seq(S) /\ Head(s) \in S /\ Len(Tail(s)) = Len(s) - 1
    BY HeadTailProperties
<1>2. s = <<Head(s)>> \o Tail(s)
    OBVIOUS
<1>3. ToSet(<<Head(s)>>) = {Head(s)}
    BY DEF ToSet
<1>4. ToSet(s) = {Head(s)} \cup ToSet(Tail(s))
    <2> DEFINE h == Head(s)
    <2> DEFINE t == Tail(s)
    <2> HIDE DEF h, t
    <2>1. ToSet(<<h>> \o t) = ToSet(<<h>>) \cup ToSet(t)
        <3> DEFINE u == <<h>>
        <3>1. u \in Seq(S)
            BY <1>1 DEF h
        <3> HIDE DEF u
        <3>2. ToSet(u \o t) = ToSet(u) \cup ToSet(t)
            BY <1>1, <3>1, ToSetConcat DEF t
        <3>3. QED
            BY <3>2 DEF u
    <2>2. QED
        BY <1>2, <1>3, <2>1 DEF h, t
<1>5. QED
    BY <1>1, <1>2, <1>4
-----------------------------------------------------------------------------
(* The file after a write.                                                   *)
LEMMA WrittenType ==
    ASSUME NEW S, NEW r \in Seq(S), NEW p \in Nat, NEW b \in Seq(S), 0 \in S
    PROVE  /\ File!Written(r, p, b) \in Seq(S)
           /\ Len(File!Written(r, p, b)) =
                  (IF b = <<>> THEN Len(r) ELSE File!Greater(Len(r), p + Len(b)))
<1>1. Len(r) \in Nat /\ Len(b) \in Nat
    OBVIOUS
<1> DEFINE n == File!Greater(Len(r), IF b = <<>> THEN 0 ELSE p + Len(b))
<1> DEFINE w == [i \in 1 .. n |-> 
        IF i > p /\ i <= p + Len(b) THEN b[i - p]
        ELSE IF i <= Len(r) THEN r[i] ELSE 0]
<1>2. n \in Nat
    BY <1>1 DEF File!Greater
<1>3. ASSUME NEW i \in 1 .. n
      PROVE  (IF i > p /\ i <= p + Len(b) THEN b[i - p]
              ELSE IF i <= Len(r) THEN r[i] ELSE 0) \in S
    BY <1>1, <1>2
<1>4. w \in Seq(S) /\ Len(w) = n
    <2> HIDE DEF n
    <2>1. w \in [1 .. n -> S]
        BY <1>3
    <2>2. QED
        BY <1>2, <2>1
<1>5. n = IF b = <<>> THEN Len(r) ELSE File!Greater(Len(r), p + Len(b))
    BY <1>1 DEF File!Greater
<1>6. File!Written(r, p, b) = w
    BY DEF File!Written, File!Hole
<1>7. QED
    BY <1>4, <1>5, <1>6

LEMMA WrittenHolds ==
    ASSUME NEW S, NEW r \in Seq(S), NEW p \in Nat, NEW b \in Seq(S)
    PROVE  ToSet(b) \subseteq ToSet(File!Written(r, p, b))
<1> DEFINE w == File!Written(r, p, b)
<1>1. Len(r) \in Nat /\ Len(b) \in Nat /\ DOMAIN b = 1 .. Len(b)
    OBVIOUS
<1>2. SUFFICES ASSUME NEW i \in DOMAIN b PROVE b[i] \in ToSet(w)
    BY DEF ToSet
<1>3. p + i \in DOMAIN w /\ w[p + i] = b[i]
    BY <1>1 DEF File!Written, File!Greater
<1>4. QED
    BY <1>3 DEF ToSet

LEMMA WrittenAtEnd ==
    ASSUME NEW S, NEW r \in Seq(S), NEW b \in Seq(S)
    PROVE  File!Written(r, Len(r), b) = r \o b
<1> DEFINE n == File!Greater(Len(r), IF b = <<>> THEN 0 ELSE Len(r) + Len(b))
<1>1. Len(r) \in Nat /\ Len(b) \in Nat
    OBVIOUS
<1>2. n = Len(r) + Len(b)
    BY <1>1 DEF File!Greater
<1>3. /\ Len(r \o b) = n
      /\ \A i \in 1 .. n : (r \o b)[i] = IF i <= Len(r) THEN r[i] ELSE b[i - Len(r)]
      /\ r \o b \in Seq(S)
    BY <1>2, ConcatProperties
<1>4. File!Written(r, Len(r), b) =
          [i \in 1 .. n |-> IF i <= Len(r) THEN r[i] ELSE b[i - Len(r)]]
    BY <1>1, <1>2 DEF File!Written, File!Hole
<1> DEFINE w == r \o b
<1> HIDE DEF n
<1>5. w = [i \in 1 .. n |-> w[i]]
    <2> HIDE DEF w
    <2>1. w \in Seq(S) /\ Len(w) = n
        BY <1>3 DEF w
    <2>2. w \in [1 .. n -> S]
        BY <2>1, LenProperties
    <2>3. QED
        BY <2>2
<1>6. QED
    BY <1>3, <1>4, <1>5
-----------------------------------------------------------------------------
(* What the operations of the file leave in the types.                       *)
LEMMA UnreadType ==
    ASSUME FileTypes, NEW n \in Nat, offset + n <= Len(recs)
    PROVE  /\ SubSeq(recs, offset + 1, offset + n) \in Seq(Requests)
           /\ Len(SubSeq(recs, offset + 1, offset + n)) = n
<1>1. \A i \in offset + 1 .. offset + n : recs[i] \in Requests
    BY DEF FileTypes
<1> DEFINE a == offset + 1
<1> DEFINE b == offset + n
<1>2. a \in Int /\ b \in Int
    BY DEF FileTypes
<1> HIDE DEF a, b
<1>3. /\ SubSeq(recs, a, b) \in Seq(Requests)
      /\ Len(SubSeq(recs, a, b)) = IF a <= b THEN b - a + 1 ELSE 0
    BY <1>1, <1>2, SubSeqProperties DEF a, b
<1>4. QED
    BY <1>3 DEF FileTypes, a, b

LEMMA UnreadAllType ==
    ASSUME FileTypes
    PROVE  /\ File!Unread \in Seq(Requests)
           /\ offset <= Len(recs) => Len(File!Unread) = Len(recs) - offset
           /\ offset >= Len(recs) => File!Unread = <<>>
<1>1. \A i \in offset + 1 .. Len(recs) : recs[i] \in Requests
    BY DEF FileTypes
<1>2. offset + 1 \in Int /\ Len(recs) \in Int
    BY DEF FileTypes
<1>3. /\ File!Unread \in Seq(Requests)
      /\ Len(File!Unread) = IF offset + 1 <= Len(recs) THEN Len(recs) - (offset + 1) + 1 ELSE 0
    BY <1>1, <1>2, SubSeqProperties DEF File!Unread
<1>4. offset >= Len(recs) => File!Unread = <<>>
    BY <1>2, SubSeqEmpty DEF File!Unread, FileTypes
<1>5. QED
    BY <1>3, <1>4 DEF FileTypes

LEMMA LoadRowsTypes ==
    ASSUME FileTypes, NEW rows \in Nat, File!LoadRows(rows)
    PROVE  FileTypes' /\ Len(loaded') <= rows
<1> DEFINE n == File!Greater(0, File!Lesser(rows, Len(recs) - offset))
<1>1. /\ loaded' = SubSeq(recs, offset + 1, offset + n)
      /\ offset' = offset + n /\ pos' = File!ReadEnd(rows)
      /\ trunc' = IF CleanThreshold < offset'
                THEN [trunc EXCEPT !["load"] = File!TruncateCall(<<>>, <<>>)]
                ELSE trunc
      /\ UNCHANGED <<recs, open, faults>>
    BY DEF File!LoadRows
<1>2. n \in Nat /\ n <= rows /\ (offset + n <= Len(recs) \/ n = 0)
    BY DEF File!Greater, File!Lesser, FileTypes
<1>3. loaded' \in Seq(Requests) /\ Len(loaded') <= rows
    <2> HIDE DEF n
    <2>1. CASE offset + n <= Len(recs)
        BY <1>1, <1>2, <2>1, UnreadType
    <2>2. CASE n = 0
        <3>1. SubSeq(recs, offset + 1, offset + n) = <<>>
            BY <2>2, SubSeqEmpty DEF FileTypes
        <3>2. loaded' = <<>>
            BY <1>1, <3>1
        <3>3. QED
            BY <3>2, EmptySeq
    <2>3. QED
        BY <1>2, <2>1, <2>2
<1>4. pos' \in Nat
    <2> DEFINE w == File!Lesser(rows + 1, Len(recs) - offset)
    <2>1. CASE Len(recs) - offset <= 0
        BY <1>1, <2>1 DEF File!ReadEnd, FileTypes
    <2>2. CASE Len(recs) - offset > 0
        <3>1. w \in Nat /\ Len(recs) \in Nat /\ offset \in Nat
            BY <2>2 DEF File!Lesser, FileTypes
        <3> HIDE DEF w
        <3>2. (w + Chunk - 1) \div Chunk \in Nat
            BY <3>1, Bounds
        <3>3. ((w + Chunk - 1) \div Chunk) * Chunk \in Nat
            BY <3>2, Bounds
        <3>4. pos' = File!Lesser(Len(recs), offset + ((w + Chunk - 1) \div Chunk) * Chunk)
            BY <1>1, <2>2 DEF File!ReadEnd, FileTypes, w
        <3>5. QED
            BY <3>1, <3>3, <3>4 DEF File!Lesser
    <2>3. QED
        BY <2>1, <2>2 DEF FileTypes
<1>5. offset' \in Nat
    BY <1>1, <1>2 DEF FileTypes
<1>6. trunc' \in [{"load", "stop"} -> TruncateState]
    BY <1>1 DEF FileTypes, File!TruncateCall, TruncateState
<1>7. QED
    BY <1>1, <1>3, <1>4, <1>5, <1>6 DEF FileTypes

LEMMA LoadFailsTypes ==
    ASSUME FileTypes, NEW rows \in Nat, File!LoadFails(rows)
    PROVE  FileTypes' /\ Len(loaded') <= rows
<1>1. CASE ~open
    <2>1. loaded' = <<>> /\ UNCHANGED <<recs, offset, pos, open, faults, trunc>>
        BY <1>1 DEF File!LoadFails
    <2>2. loaded' \in Seq(Requests) /\ Len(loaded') <= rows
        BY <2>1, EmptySeq
    <2>3. QED
        BY <2>1, <2>2 DEF FileTypes
<1>2. CASE open
    <2>1. PICK j \in 0 .. rows \div Chunk :
              /\ offset + j * Chunk < Len(recs)
              /\ loaded' = SubSeq(recs, offset + 1, offset + j * Chunk)
              /\ offset' = offset + j * Chunk
              /\ pos' = offset'
        BY <1>2 DEF File!LoadFails
    <2>2. j * Chunk \in Nat /\ j * Chunk <= rows
        <3>1. rows \div Chunk \in Nat /\ (rows \div Chunk) * Chunk <= rows
            BY Bounds
        <3> DEFINE d == rows \div Chunk
        <3> HIDE DEF d
        <3>2. d \in Nat /\ d * Chunk \in Nat /\ d * Chunk <= rows /\ j \in 0 .. d
            BY <3>1, Bounds DEF d
        <3>3. j * Chunk <= d * Chunk /\ j * Chunk \in Nat
            BY <3>2, Bounds
        <3>4. QED
            BY <3>2, <3>3
    <2>3. UNCHANGED <<recs, open>> /\ faults' = faults + 1 /\ faults < MaxFaults
        BY <1>2 DEF File!LoadFails, File!Fault
    <2> DEFINE m == j * Chunk
    <2>4. loaded' \in Seq(Requests) /\ Len(loaded') = m
        <3> HIDE DEF m
        <3>1. m \in Nat /\ offset + m <= Len(recs)
            BY <2>1, <2>2 DEF m, FileTypes
        <3>2. QED
            BY <2>1, <3>1, UnreadType DEF m
    <2>5. offset' \in Nat /\ pos' \in Nat
        BY <2>1, <2>2 DEF FileTypes
    <2>6. trunc' \in [{"load", "stop"} -> TruncateState]
        BY DEF FileTypes, File!LoadFails, File!TruncateCall, TruncateState
    <2>7. faults' \in 0 .. MaxFaults
        BY <2>3, Bounds DEF FileTypes
    <2>8. QED
        BY <2>2, <2>3, <2>4, <2>5, <2>6, <2>7 DEF FileTypes
<1>3. QED
    BY <1>1, <1>2

LEMMA WriteTypes ==
    ASSUME FileTypes, NEW batch \in Seq(Requests), File!Write(batch)
    PROVE  recs' \in Seq(Requests) /\ pos' \in Nat
<1>1. 0 \in Requests
    BY Bounds DEF Requests
<1>2. recs' \in Seq(Requests)
    BY <1>1, WrittenType DEF FileTypes, File!Write
<1>3. pos' \in Nat
    BY DEF FileTypes, File!Write
<1>4. QED
    BY <1>2, <1>3

LEMMA StoreTypes ==
    ASSUME FileTypes, NEW batch \in Seq(Requests),
           File!Store(batch) \/ File!StoreFails(batch)
    PROVE  FileTypes' /\ UNCHANGED <<loaded, trunc, offset, open>>
<1>1. CASE File!Store(batch)
    BY <1>1, WriteTypes DEF FileTypes, File!Store
<1>2. CASE File!StoreFails(batch)
    <2>1. CASE ~open
        BY <1>2, <2>1 DEF FileTypes, File!StoreFails
    <2>2. CASE open
        <3>1. PICK k \in 0 .. Len(batch) - 1 : File!Write(SubSeq(batch, 1, k))
            BY <1>2, <2>2 DEF File!StoreFails
        <3>2. SubSeq(batch, 1, k) \in Seq(Requests)
            OBVIOUS
        <3>3. recs' \in Seq(Requests) /\ pos' \in Nat
            BY <3>1, <3>2, WriteTypes
        <3>4. faults' \in 0 .. MaxFaults
            BY <1>2, <2>2, Bounds DEF File!StoreFails, File!Fault, FileTypes
        <3>5. QED
            BY <1>2, <3>3, <3>4 DEF FileTypes, File!StoreFails
    <2>3. QED
        BY <2>1, <2>2 DEF FileTypes
<1>3. QED
    BY <1>1, <1>2

LEMMA TruncateTypes ==
    ASSUME FileTypes, NEW c \in {"load", "stop"},
           \/ File!TruncateStep(c) \/ File!TruncateFails(c) \/ File!TruncatePanics(c)
    PROVE  /\ FileTypes'
           /\ open' = open
           /\ loaded' = loaded \/ (c = "load" /\ File!TruncatePanics(c) /\ loaded' = <<>>)
           /\ \A d \in {"load", "stop"} : d # c => trunc'[d] = trunc[d]
           /\ trunc[c].at # "idle"
<1> USE DEF FileTypes, TruncateState
<1>1. CASE File!TruncateRead(c)
    <2>1. File!Unread \in Seq(Requests)
        BY UnreadAllType
    <2>2. QED
        BY <1>1, <2>1 DEF File!TruncateRead
<1>2. CASE File!TruncateZero(c)
    <2>1. /\ recs' = <<>> /\ pos' = 0 /\ trunc' = [trunc EXCEPT ![c].at = "before"]
          /\ UNCHANGED <<offset, open, loaded, faults>> /\ trunc[c].at = "zero"
        BY <1>2 DEF File!TruncateZero
    <2>2. recs' \in Seq(Requests)
        BY <2>1, EmptySeq
    <2>3. QED
        BY <2>1, <2>2
<1>3. CASE File!TruncateWrite(c)
    <2>1. PICK part \in {"before", "keep", "after"} :
              /\ trunc[c].at = part
              /\ File!Write(trunc[c][part])
              /\ trunc' = [trunc EXCEPT ![c].at =
                   CASE part = "before" -> "keep" [] part = "keep" -> "after"
                     [] part = "after" -> "reset"]
              /\ UNCHANGED <<offset, open, loaded, faults>>
        BY <1>3 DEF File!TruncateWrite
    <2>2. trunc[c][part] \in Seq(Requests)
        OBVIOUS
    <2>3. recs' \in Seq(Requests) /\ pos' \in Nat
        BY <2>1, <2>2, WriteTypes
    <2>4. QED
        BY <2>1, <2>3
<1>4. CASE File!TruncateReset(c)
    BY <1>4 DEF File!TruncateReset, File!Idle
<1>5. CASE File!TruncateFails(c)
    <2>1. faults' \in 0 .. MaxFaults
        BY <1>5, Bounds DEF File!TruncateFails, File!Fault
    <2>2. QED
        BY <1>5, <2>1 DEF File!TruncateFails, File!Idle
<1>6. CASE File!TruncatePanics(c)
    BY <1>6 DEF File!TruncatePanics, File!Idle
<1>7. QED
    BY <1>1, <1>2, <1>3, <1>4, <1>5, <1>6 DEF File!TruncateStep
-----------------------------------------------------------------------------
LEMMA IdleType == File!Idle \in TruncateState /\ File!Idle.at = "idle"
BY DEF File!Idle, TruncateState

LEMMA InvInit == Init => Inv
<1> SUFFICES ASSUME Init PROVE Inv
    OBVIOUS
<1> USE DEF Init, File!Init
<1>0. 0 \in Requests /\ 0 \in 0 .. MaxFaults /\ 1 \in 1 .. MaxRequests + 1
      /\ 1 \in 1 .. MaxProcesses /\ 0 <= BufLen
    BY Bounds DEF Requests
<1>1. FileTypes
    <2>1. trunc \in [{"load", "stop"} -> TruncateState]
        BY IdleType DEF File!Callers
    <2>2. QED
        BY <1>0, <2>1, EmptySeq DEF FileTypes
<1>2. JobTypes
    BY <1>0, EmptySeq DEF JobTypes
<1>3. ThreadTypes
    BY <1>0, EmptySeq DEF ThreadTypes, NoRequest
<1>4. StartInv
    BY DEF StartInv
<1>5. LoadInv
    BY DEF LoadInv, Loading, File!Idle, File!Callers
<1>6. LoopInv
    BY DEF LoopInv
<1>7. QED
    BY <1>1, <1>2, <1>3, <1>4, <1>5, <1>6 DEF Inv

(* What tryLoadData moves always finds room.                                 *)
LEMMA MovedFits ==
    ASSUME Inv, lpc = "move"
    PROVE  /\ Moved \in 0 .. Len(tmp)
           /\ Len(ring) + Len(loaded) + Moved <= BufLen
<1>1. Len(ring) \in Nat /\ Len(loaded) \in Nat /\ Len(tmp) \in Nat
    BY DEF Inv, FileTypes, JobTypes
<1>2. Len(ring) + Len(loaded) <= BufLen
    BY DEF Inv, LoadInv, Loading
<1> DEFINE room == BufLen - Len(ring) - Len(loaded)
<1>3. Moved = IF room < Len(tmp) THEN room ELSE Len(tmp)
    BY DEF Moved, Lesser, SurplusCount
<1>4. room \in Nat /\ Len(ring) + Len(loaded) + room = BufLen
    BY <1>1, <1>2, Bounds
<1> HIDE DEF room
<1>5. Moved \in 0 .. Len(tmp) /\ Moved <= room
    BY <1>1, <1>3, <1>4
<1>6. QED
    BY <1>1, <1>4, <1>5

(* What Add puts into tmp.                                                   *)
LEMMA BatchType ==
    ASSUME Inv, next <= MaxRequests
    PROVE  /\ next \in 1 .. MaxRequests /\ next \in Requests
           /\ tmp \in Seq(Requests)
           /\ Batch \in Seq(1 .. MaxRequests) /\ Batch \in Seq(Requests)
           /\ ToSet(Batch) = ToSet(tmp) \cup {next}
           /\ ToSet(Batch) \subseteq 1 .. MaxRequests
<1>1. next \in 1 .. MaxRequests /\ tmp \in Seq(1 .. MaxRequests)
    BY DEF Inv, JobTypes
<1> DEFINE S == 1 .. MaxRequests
<1>2. S \subseteq Requests
    BY DEF Requests
<1>3. next \in S /\ tmp \in Seq(S)
    BY <1>1
<1> HIDE DEF S
<1>4. Batch \in Seq(S) /\ ToSet(Batch) = ToSet(tmp) \cup {next}
    BY <1>3, AppendProperties, ToSetAppend DEF Batch
<1>5. Batch \in Seq(Requests) /\ tmp \in Seq(Requests)
    BY <1>2, <1>3, <1>4, SeqMonotonic
<1>6. ToSet(Batch) \subseteq S
    BY <1>4, ToSetType
<1>7. QED
    BY <1>2, <1>3, <1>4, <1>5, <1>6 DEF S

LEMMA InvStep == Inv /\ [Next]_vars => Inv'
<1> SUFFICES ASSUME Inv, [Next]_vars PROVE Inv'
    OBVIOUS
<1>0. /\ FileTypes /\ JobTypes /\ ThreadTypes
      /\ StartInv /\ LoadInv /\ LoopInv
    BY DEF Inv
<1>1. CASE StartOpen
    <2> USE <1>0, <1>1, Bounds DEF StartOpen, fileVars, jobVars, mainVars, loopVars, File!OpenFile, File!OpenFails, File!Fault
    <2>1. FileTypes'
        <3>1. CASE File!OpenFile
            BY <3>1 DEF FileTypes
        <3>2. CASE File!OpenFails
            BY <3>2 DEF FileTypes
        <3>3. QED
            BY <3>1, <3>2
    <2>2. JobTypes'
        BY DEF JobTypes
    <2>3. ThreadTypes'
        BY DEF ThreadTypes
    <2>4. StartInv'
        BY DEF StartInv, NotUp
    <2>5. LoadInv'
        BY DEF LoadInv, Loading
    <2>6. LoopInv'
        BY DEF LoopInv
    <2>7. QED
        BY <2>1, <2>2, <2>3, <2>4, <2>5, <2>6 DEF Inv
<1>2. CASE StartLoad
    <2> USE <1>0, <1>2, Bounds DEF StartLoad, fileVars, jobVars, mainVars, loopVars
    <2>0. FileTypes' /\ Len(loaded') <= BufLen /\ open' = open /\ trunc'["stop"] = trunc["stop"]
        <3>1. FileTypes' /\ Len(loaded') <= BufLen
            BY LoadRowsTypes, LoadFailsTypes
        <3>2. open' = open /\ trunc'["stop"] = trunc["stop"]
            BY DEF File!LoadRows, File!LoadFails, FileTypes
        <3>3. QED
            BY <3>1, <3>2
    <2>1. FileTypes'
        BY <2>0
    <2>2. JobTypes'
        BY DEF JobTypes
    <2>3. ThreadTypes'
        BY DEF ThreadTypes
    <2>4. StartInv'
        BY <2>0 DEF StartInv, NotUp
    <2>5. LoadInv'
        <3>1. ring = <<>> /\ Len(loaded') \in Nat
            BY <2>0 DEF StartInv, NotUp, FileTypes
        <3>2. QED
            BY <2>0, <3>1 DEF LoadInv, Loading
    <2>6. LoopInv'
        BY DEF LoopInv
    <2>7. QED
        BY <2>1, <2>2, <2>3, <2>4, <2>5, <2>6 DEF Inv
<1>3. CASE StartFill
    <2> USE <1>0, <1>3, Bounds DEF StartFill, fileVars, jobVars, mainVars, loopVars
    <2>1. FileTypes'
        BY DEF FileTypes
    <2>2. JobTypes'
        <3>1. ring \o loaded \in Seq(Requests) /\ Len(ring \o loaded) <= BufLen
            BY ConcatProperties DEF JobTypes, FileTypes, LoadInv, Loading
        <3>2. dataBuffOnly' \in BOOLEAN
            OBVIOUS
        <3>3. QED
            BY <3>1, <3>2 DEF JobTypes
    <2>3. ThreadTypes'
        BY DEF ThreadTypes
    <2>4. StartInv'
        BY DEF StartInv, NotUp
    <2>5. LoadInv'
        BY DEF LoadInv, Loading, StartInv, NotUp, File!MutexFree
    <2>6. LoopInv'
        BY DEF LoopInv
    <2>7. QED
        BY <2>1, <2>2, <2>3, <2>4, <2>5, <2>6 DEF Inv
<1>4. CASE AddToRing
    <2> USE <1>0, <1>4, Bounds DEF AddToRing, fileVars, jobVars, mainVars, loopVars, Adds, SurplusCount
    <2>1. FileTypes'
        BY DEF FileTypes
    <2>2. JobTypes'
        <3>1. next \in Requests /\ next + 1 \in 1 .. MaxRequests + 1
            BY DEF JobTypes, Requests
        <3>2. ring' \in Seq(Requests) /\ Len(ring') = Len(ring) + 1
            BY <3>1, AppendProperties DEF JobTypes
        <3>3. Len(ring) < BufLen
            BY DEF JobTypes
        <3>4. QED
            BY <3>1, <3>2, <3>3 DEF JobTypes
    <2>3. ThreadTypes'
        BY DEF ThreadTypes
    <2>4. StartInv'
        BY DEF StartInv, NotUp
    <2>5. LoadInv'
        BY DEF LoadInv, Loading, StartInv, NotUp
    <2>6. LoopInv'
        BY DEF LoopInv
    <2>7. QED
        BY <2>1, <2>2, <2>3, <2>4, <2>5, <2>6 DEF Inv
<1>5. CASE AddToTmp
    <2> USE <1>0, <1>5, Bounds DEF AddToTmp, fileVars, jobVars, mainVars, loopVars, Adds
    <2>1. FileTypes' /\ UNCHANGED <<loaded, trunc, offset, open>>
        <3>1. CASE UNCHANGED fileVars
            BY <3>1 DEF FileTypes
        <3>2. CASE File!Store(Batch) \/ File!StoreFails(Batch)
            BY <3>2, BatchType, StoreTypes
        <3>3. QED
            BY <3>1, <3>2
    <2>2. JobTypes'
        <3>0. next + 1 \in 1 .. MaxRequests + 1
            BY BatchType
        <3>1. tmp' \in Seq(1 .. MaxRequests)
            BY BatchType, EmptySeq
        <3>2. stored' \in SUBSET (1 .. MaxRequests)
            BY BatchType DEF JobTypes
        <3>3. QED
            BY <3>0, <3>1, <3>2 DEF JobTypes
    <2>3. ThreadTypes'
        BY DEF ThreadTypes
    <2>4. StartInv'
        BY <2>1 DEF StartInv, NotUp
    <2>5. LoadInv'
        BY <2>1 DEF LoadInv, Loading
    <2>6. LoopInv'
        BY DEF LoopInv
    <2>7. QED
        BY <2>1, <2>2, <2>3, <2>4, <2>5, <2>6 DEF Inv
<1>6. CASE LoopCheck
    <2> USE <1>0, <1>6, Bounds DEF LoopCheck, fileVars, jobVars, mainVars, loopVars
    <2>1. FileTypes'
        BY DEF FileTypes
    <2>2. JobTypes'
        BY DEF JobTypes
    <2>3. ThreadTypes'
        BY DEF ThreadTypes
    <2>4. StartInv'
        BY DEF StartInv, NotUp
    <2>5. LoadInv'
        BY DEF LoadInv, Loading
    <2>6. LoopInv'
        BY DEF LoopInv
    <2>7. QED
        BY <2>1, <2>2, <2>3, <2>4, <2>5, <2>6 DEF Inv
<1>7. CASE LoopCurrent
    <2> USE <1>0, <1>7, Bounds DEF LoopCurrent, fileVars, jobVars, mainVars, loopVars
    <2>1. FileTypes'
        BY DEF FileTypes
    <2>2. JobTypes'
        BY DEF JobTypes
    <2>3. ThreadTypes'
        <3>1. ring # <<>> => Head(ring) \in Requests
            BY HeadTailProperties DEF JobTypes
        <3>2. QED
            BY <3>1 DEF ThreadTypes
    <2>4. StartInv'
        BY DEF StartInv, NotUp
    <2>5. LoadInv'
        BY DEF LoadInv, Loading
    <2>6. LoopInv'
        BY DEF LoopInv
    <2>7. QED
        BY <2>1, <2>2, <2>3, <2>4, <2>5, <2>6 DEF Inv
<1>8. CASE ReportOK
    <2> USE <1>0, <1>8, Bounds DEF ReportOK, fileVars, jobVars, mainVars, loopVars
    <2>1. FileTypes'
        BY DEF FileTypes
    <2>2. JobTypes'
        BY AppendProperties DEF JobTypes, ThreadTypes
    <2>3. ThreadTypes'
        BY DEF ThreadTypes
    <2>4. StartInv'
        BY DEF StartInv, NotUp
    <2>5. LoadInv'
        BY DEF LoadInv, Loading
    <2>6. LoopInv'
        BY ToSetAppend DEF LoopInv, JobTypes, ThreadTypes
    <2>7. QED
        BY <2>1, <2>2, <2>3, <2>4, <2>5, <2>6 DEF Inv
<1>9. CASE ReportFails
    <2> USE <1>0, <1>9, Bounds DEF ReportFails, fileVars, jobVars, mainVars, loopVars
    <2>1. FileTypes'
        BY DEF FileTypes, File!Fault
    <2>2. JobTypes'
        <3>1. Append(delivered, req) \in Seq(Requests)
            BY AppendProperties DEF JobTypes, ThreadTypes
        <3>2. delivered' \in {delivered, Append(delivered, req)}
            OBVIOUS
        <3>3. delivered' \in Seq(Requests)
            BY <3>1, <3>2 DEF JobTypes
        <3>4. QED
            BY <3>3 DEF JobTypes
    <2>3. ThreadTypes'
        BY DEF ThreadTypes, NoRequest, Requests
    <2>4. StartInv'
        BY DEF StartInv, NotUp
    <2>5. LoadInv'
        BY DEF LoadInv, Loading
    <2>6. LoopInv'
        BY DEF LoopInv
    <2>7. QED
        BY <2>1, <2>2, <2>3, <2>4, <2>5, <2>6 DEF Inv
<1>10. CASE LoopDequeue
    <2> USE <1>0, <1>10, Bounds DEF LoopDequeue, fileVars, jobVars, mainVars, loopVars
    <2>1. FileTypes'
        BY DEF FileTypes
    <2>2. JobTypes'
        BY DEF JobTypes
    <2>3. ThreadTypes'
        BY DEF ThreadTypes, NoRequest, Requests
    <2>4. StartInv'
        BY DEF StartInv, NotUp
    <2>5. LoadInv'
        BY DEF LoadInv, Loading
    <2>6. LoopInv'
        BY DEF LoopInv
    <2>7. QED
        BY <2>1, <2>2, <2>3, <2>4, <2>5, <2>6 DEF Inv
<1>11. CASE TryFull
    <2> USE <1>0, <1>11, Bounds DEF TryFull, fileVars, jobVars, mainVars, loopVars
    <2>1. FileTypes'
        BY DEF FileTypes
    <2>2. JobTypes'
        BY DEF JobTypes
    <2>3. ThreadTypes'
        BY DEF ThreadTypes
    <2>4. StartInv'
        BY DEF StartInv, NotUp
    <2>5. LoadInv'
        BY DEF LoadInv, Loading
    <2>6. LoopInv'
        BY DEF LoopInv
    <2>7. QED
        BY <2>1, <2>2, <2>3, <2>4, <2>5, <2>6 DEF Inv
<1>12. CASE TryLoad
    <2> USE <1>0, <1>12, Bounds DEF TryLoad, fileVars, jobVars, mainVars, loopVars
    <2>0. /\ FileTypes' /\ Len(loaded') <= BufLen - Len(ring)
          /\ open' = open /\ trunc'["stop"] = trunc["stop"]
        <3>1. SurplusCount \in Nat
            BY DEF SurplusCount, JobTypes
        <3>2. FileTypes' /\ Len(loaded') <= SurplusCount
            BY <3>1, LoadRowsTypes, LoadFailsTypes
        <3>3. open' = open /\ trunc'["stop"] = trunc["stop"]
            BY DEF File!LoadRows, File!LoadFails, FileTypes
        <3>4. QED
            BY <3>2, <3>3 DEF SurplusCount
    <2>1. FileTypes'
        BY <2>0
    <2>2. JobTypes'
        BY DEF JobTypes
    <2>3. ThreadTypes'
        BY DEF ThreadTypes
    <2>4. StartInv'
        BY <2>0 DEF StartInv, NotUp
    <2>5. LoadInv'
        <3>1. Len(ring) \in Nat /\ Len(loaded') \in Nat
            BY <2>0 DEF FileTypes, JobTypes
        <3>2. QED
            BY <2>0, <3>1 DEF LoadInv, Loading
    <2>6. LoopInv'
        BY DEF LoopInv
    <2>7. QED
        BY <2>1, <2>2, <2>3, <2>4, <2>5, <2>6 DEF Inv
<1>13. CASE TryMove
    <2> USE <1>0, <1>13, Bounds DEF TryMove, fileVars, jobVars, mainVars, loopVars
    <2>0. /\ Moved \in 0 .. Len(tmp)
          /\ Len(ring) + Len(loaded) + Moved <= BufLen
        BY MovedFits
    <2>1. FileTypes'
        BY DEF FileTypes
    <2>2. JobTypes'
        <3>1. /\ SubSeq(tmp, 1, Moved) \in Seq(1 .. MaxRequests)
              /\ Len(SubSeq(tmp, 1, Moved)) = Moved
              /\ TmpLeft \in Seq(1 .. MaxRequests)
            BY <2>0, Split DEF TmpLeft, JobTypes
        <3> DEFINE moved == SubSeq(tmp, 1, Moved)
        <3>2. moved \in Seq(Requests)
            BY <3>1, SeqMonotonic, 1 .. MaxRequests \subseteq Requests DEF Requests
        <3> HIDE DEF moved
        <3>3. /\ ring \o loaded \in Seq(Requests)
              /\ Len(ring \o loaded) = Len(ring) + Len(loaded)
            BY ConcatProperties DEF JobTypes, FileTypes
        <3> DEFINE rows == ring \o loaded
        <3> HIDE DEF rows
        <3>4. rows \o moved \in Seq(Requests) /\ Len(rows \o moved) = Len(rows) + Len(moved)
            BY <3>2, <3>3, ConcatProperties DEF rows
        <3>5. ring' \in Seq(Requests) /\ Len(ring') <= BufLen
            BY <2>0, <3>1, <3>3, <3>4 DEF rows, moved
        <3>6. dataBuffOnly' \in BOOLEAN
            OBVIOUS
        <3>7. QED
            BY <3>1, <3>5, <3>6 DEF JobTypes
    <2>3. ThreadTypes'
        BY DEF ThreadTypes
    <2>4. StartInv'
        BY DEF StartInv, NotUp
    <2>5. LoadInv'
        BY DEF LoadInv, Loading, StartInv, NotUp, File!MutexFree
    <2>6. LoopInv'
        BY DEF LoopInv
    <2>7. QED
        BY <2>1, <2>2, <2>3, <2>4, <2>5, <2>6 DEF Inv
<1>14. CASE TryPanics
    <2> USE <1>0, <1>14, Bounds DEF TryPanics, fileVars, jobVars, mainVars, loopVars
    <2>0. /\ FileTypes' /\ open' = open /\ loaded' = <<>>
          /\ trunc'["stop"] = trunc["stop"] /\ trunc'["load"].at = "idle"
        <3>1. FileTypes' /\ open' = open /\ trunc'["stop"] = trunc["stop"]
            BY TruncateTypes
        <3>2. loaded' = <<>> /\ trunc'["load"].at = "idle"
            BY IdleType DEF File!TruncatePanics, FileTypes
        <3>3. QED
            BY <3>1, <3>2
    <2>1. FileTypes'
        BY <2>0
    <2>2. JobTypes'
        BY DEF JobTypes
    <2>3. ThreadTypes'
        BY DEF ThreadTypes
    <2>4. StartInv'
        BY <2>0 DEF StartInv, NotUp
    <2>5. LoadInv'
        BY <2>0 DEF LoadInv, Loading, StartInv, NotUp
    <2>6. LoopInv'
        BY DEF LoopInv
    <2>7. QED
        BY <2>1, <2>2, <2>3, <2>4, <2>5, <2>6 DEF Inv
<1>15. CASE LoadTruncate
    <2> USE <1>0, <1>15, Bounds DEF LoadTruncate, fileVars, jobVars, mainVars, loopVars
    <2>0. /\ FileTypes' /\ open' = open /\ loaded' = loaded
          /\ trunc'["stop"] = trunc["stop"] /\ trunc["load"].at # "idle"
        <3>1. ~File!TruncatePanics("load") \/ UNCHANGED loaded
            BY DEF File!TruncateStep, File!TruncateRead, File!TruncateZero, File!TruncateWrite,
                   File!TruncateReset, File!TruncateFails
        <3>2. QED
            BY <3>1, TruncateTypes
    <2>1. FileTypes'
        BY <2>0
    <2>2. JobTypes'
        BY DEF JobTypes
    <2>3. ThreadTypes'
        BY DEF ThreadTypes
    <2>4. StartInv'
        BY <2>0 DEF StartInv, NotUp
    <2>5. LoadInv'
        BY <2>0 DEF LoadInv, Loading
    <2>6. LoopInv'
        BY DEF LoopInv
    <2>7. QED
        BY <2>1, <2>2, <2>3, <2>4, <2>5, <2>6 DEF Inv
<1>16. CASE StopCalled
    <2> USE <1>0, <1>16, Bounds DEF StopCalled, fileVars, jobVars, mainVars, loopVars
    <2>1. FileTypes'
        BY DEF FileTypes
    <2>2. JobTypes'
        BY DEF JobTypes
    <2>3. ThreadTypes'
        <3>1. Held \subseteq Requests
            <4>1. File!Backlog \in Seq(Requests)
                BY UnreadAllType DEF File!Backlog, FileTypes, TruncateState
            <4>2. tmp \in Seq(Requests)
                BY SeqMonotonic, 1 .. MaxRequests \subseteq Requests DEF JobTypes, Requests
            <4>3. QED
                BY <4>1, <4>2, ToSetType DEF Held, JobTypes, FileTypes
        <3>2. QED
            BY <3>1 DEF ThreadTypes, JobTypes
    <2>4. StartInv'
        BY DEF StartInv, NotUp
    <2>5. LoadInv'
        BY DEF LoadInv, Loading
    <2>6. LoopInv'
        BY DEF LoopInv
    <2>7. QED
        BY <2>1, <2>2, <2>3, <2>4, <2>5, <2>6 DEF Inv
<1>17. CASE StopSurplus
    <2> USE <1>0, <1>17, Bounds DEF StopSurplus, fileVars, jobVars, mainVars, loopVars
    <2>1. FileTypes'
        BY DEF FileTypes
    <2>2. JobTypes'
        BY DEF JobTypes
    <2>3. ThreadTypes'
        BY DEF ThreadTypes, JobTypes
    <2>4. StartInv'
        BY DEF StartInv, NotUp
    <2>5. LoadInv'
        BY DEF LoadInv, Loading
    <2>6. LoopInv'
        BY DEF LoopInv
    <2>7. QED
        BY <2>1, <2>2, <2>3, <2>4, <2>5, <2>6 DEF Inv
<1>18. CASE StopTruncate
    <2> USE <1>0, <1>18, Bounds DEF StopTruncate, fileVars, jobVars, mainVars, loopVars, File!TruncateCall
    <2>1. FileTypes'
        <3>1. tmp \in Seq(Requests)
            BY SeqMonotonic, 1 .. MaxRequests \subseteq Requests DEF JobTypes, Requests
        <3>2. File!TruncateCall(surplus, tmp) \in TruncateState
            BY <3>1, EmptySeq DEF ThreadTypes, TruncateState
        <3>3. QED
            BY <3>2 DEF FileTypes
    <2>2. JobTypes'
        BY DEF JobTypes
    <2>3. ThreadTypes'
        BY DEF ThreadTypes
    <2>4. StartInv'
        BY DEF StartInv, NotUp
    <2>5. LoadInv'
        BY DEF LoadInv, Loading
    <2>6. LoopInv'
        BY DEF LoopInv
    <2>7. QED
        BY <2>1, <2>2, <2>3, <2>4, <2>5, <2>6 DEF Inv
<1>19. CASE StopTruncating
    <2> USE <1>0, <1>19, Bounds DEF StopTruncating, fileVars, jobVars, mainVars, loopVars
    <2>0. /\ FileTypes' /\ open' = open /\ loaded' = loaded
          /\ trunc'["load"] = trunc["load"]
        BY TruncateTypes
    <2>1. FileTypes'
        BY <2>0
    <2>2. JobTypes'
        BY DEF JobTypes
    <2>3. ThreadTypes'
        BY DEF ThreadTypes
    <2>4. StartInv'
        BY <2>0 DEF StartInv, NotUp
    <2>5. LoadInv'
        BY <2>0 DEF LoadInv, Loading
    <2>6. LoopInv'
        BY DEF LoopInv
    <2>7. QED
        BY <2>1, <2>2, <2>3, <2>4, <2>5, <2>6 DEF Inv
<1>20. CASE StopPanics
    <2> USE <1>0, <1>20, Bounds DEF StopPanics, fileVars, jobVars, mainVars, loopVars
    <2>0. /\ FileTypes' /\ open' = open /\ loaded' = loaded
          /\ trunc'["load"] = trunc["load"] /\ trunc'["stop"].at = "idle"
        <3>1. /\ FileTypes' /\ open' = open /\ loaded' = loaded
              /\ trunc'["load"] = trunc["load"]
            BY TruncateTypes
        <3>2. trunc'["stop"].at = "idle"
            BY IdleType DEF File!TruncatePanics, FileTypes
        <3>3. QED
            BY <3>1, <3>2
    <2>1. FileTypes'
        BY <2>0
    <2>2. JobTypes'
        BY DEF JobTypes
    <2>3. ThreadTypes'
        BY DEF ThreadTypes
    <2>4. StartInv'
        BY DEF StartInv, NotUp
    <2>5. LoadInv'
        BY <2>0 DEF LoadInv, Loading
    <2>6. LoopInv'
        BY DEF LoopInv
    <2>7. QED
        BY <2>1, <2>2, <2>3, <2>4, <2>5, <2>6 DEF Inv
<1>21. CASE StopClose
    <2> USE <1>0, <1>21, Bounds DEF StopClose, fileVars, jobVars, mainVars, loopVars, File!Close
    <2>1. FileTypes'
        BY DEF FileTypes
    <2>2. JobTypes'
        BY DEF JobTypes
    <2>3. ThreadTypes'
        BY DEF ThreadTypes
    <2>4. StartInv'
        BY DEF StartInv, NotUp
    <2>5. LoadInv'
        BY DEF LoadInv, Loading
    <2>6. LoopInv'
        BY DEF LoopInv
    <2>7. QED
        BY <2>1, <2>2, <2>3, <2>4, <2>5, <2>6 DEF Inv
<1>22. CASE Restart
    <2>0. /\ process < MaxProcesses /\ process' = process + 1
          /\ ring' = <<>> /\ tmp' = <<>> /\ surplus' = <<>> /\ loaded' = <<>>
          /\ trunc' = [c \in {"load", "stop"} |-> File!Idle]
          /\ offset' = 0 /\ pos' = 0 /\ open' = FALSE
          /\ dataBuffOnly' = FALSE /\ isRunnable' = FALSE /\ locked' = FALSE
          /\ stopRaced' = FALSE
          /\ mpc' = "new" /\ stopHeld' = {} /\ lpc' = "off" /\ req' = 0
          /\ UNCHANGED <<recs, faults, next, delivered, stored>>
        BY <1>22 DEF Restart, File!Forget, File!Callers, NoRequest
    <2>1. FileTypes'
        <3>1. trunc' \in [{"load", "stop"} -> TruncateState]
            BY <2>0, IdleType
        <3>2. QED
            BY <1>0, <2>0, <3>1, EmptySeq DEF FileTypes
    <2>2. JobTypes'
        <3>1. process' \in 1 .. MaxProcesses
            BY <1>0, <2>0, Bounds DEF JobTypes
        <3>2. ring' \in Seq(Requests) /\ tmp' \in Seq(1 .. MaxRequests) /\ Len(ring') <= BufLen
            BY <2>0, Bounds, EmptySeq
        <3>3. QED
            BY <1>0, <2>0, <3>1, <3>2 DEF JobTypes
    <2>3. ThreadTypes'
        <3>1. req' \in Requests /\ surplus' \in Seq(Requests)
            BY <2>0, Bounds, EmptySeq DEF Requests
        <3>2. QED
            BY <2>0, <3>1 DEF ThreadTypes
    <2>4. StartInv'
        BY <2>0 DEF StartInv, NotUp
    <2>5. LoadInv'
        BY <2>0, IdleType DEF LoadInv, Loading
    <2>6. LoopInv'
        BY <2>0 DEF LoopInv
    <2>7. QED
        BY <2>1, <2>2, <2>3, <2>4, <2>5, <2>6 DEF Inv
<1>23. CASE UNCHANGED vars
    BY <1>0, <1>23 DEF Inv, vars, fileVars, jobVars, mainVars, loopVars, FileTypes, JobTypes, ThreadTypes, StartInv, NotUp,
       LoadInv, Loading, LoopInv
<1>24. QED
    BY <1>1, <1>2, <1>3, <1>4, <1>5, <1>6, <1>7, <1>8, <1>9, <1>10, <1>11, <1>12,
       <1>13, <1>14, <1>15, <1>16, <1>17, <1>18, <1>19, <1>20, <1>21, <1>22, <1>23
       DEF Next, Start, Add, LoopReport, TryLoadData, Stop

LEMMA Invariance == Spec => []Inv
BY InvInit, InvStep, PTL DEF Spec

(* Every variable of the job and of its file has its type: no sequence of    *)
(* calls, crashes and failures leaves more than BufLen requests in the ring  *)
(* (report_job.go:100-146, ring_buff.go).                                    *)
THEOREM TypeCorrect == Spec => []TypeOK
<1>1. Inv => TypeOK
    <2> SUFFICES ASSUME Inv PROVE TypeOK
        OBVIOUS
    <2>1. File!TypeOK
        BY DEF Inv, FileTypes, JobTypes, TruncateState, Requests, File!TypeOK, File!Callers
    <2>2. tmp \in Seq(0 .. MaxRequests)
        BY SeqMonotonic, 1 .. MaxRequests \subseteq 0 .. MaxRequests DEF Inv, JobTypes
    <2>3. QED
        BY <2>1, <2>2 DEF Inv, JobTypes, ThreadTypes, Requests, TypeOK
<1>2. QED
    BY <1>1, Invariance, PTL
-----------------------------------------------------------------------------
(* A request leaves the memory of a process only for the file or creport.    *)
LEMMA KeptStep ==
    ASSUME Inv, [Next]_vars, process' = process
    PROVE  ToSet(ring) \cup ToSet(tmp) \subseteq
               ToSet(ring') \cup ToSet(tmp') \cup ToSet(recs') \cup ToSet(delivered')
<1>0. FileTypes /\ JobTypes /\ ThreadTypes /\ LoopInv /\ LoadInv
    BY DEF Inv
<1>1. CASE StartFill
    <2>1. ToSet(ring \o loaded) = ToSet(ring) \cup ToSet(loaded)
        BY <1>0, ToSetConcat DEF FileTypes, JobTypes
    <2>2. QED
        BY <1>1, <2>1 DEF StartFill
<1>2. CASE AddToRing
    <2>1. next \in Requests /\ ring \in Seq(Requests)
        BY <1>0, <1>2, BatchType DEF AddToRing, Adds, JobTypes
    <2>2. ToSet(Append(ring, next)) = ToSet(ring) \cup {next}
        BY <2>1, ToSetAppend
    <2>3. QED
        BY <1>2, <2>2 DEF AddToRing
<1>3. CASE AddToTmp
    <2>1. ToSet(tmp) \subseteq ToSet(Batch) /\ Batch \in Seq(Requests)
        BY <1>3, BatchType DEF AddToTmp, Adds
    <2>2. ring' = ring
        BY <1>3 DEF AddToTmp
    <2>3. tmp' = Batch \/ File!Store(Batch)
        BY <1>3 DEF AddToTmp
    <2>4. File!Store(Batch) => ToSet(Batch) \subseteq ToSet(recs')
        BY <1>0, <2>1, WrittenHolds DEF File!Store, File!Write, FileTypes
    <2>5. QED
        BY <2>1, <2>2, <2>3, <2>4
<1>4. CASE ReportOK \/ ReportFails
    BY <1>4 DEF ReportOK, ReportFails, jobVars
<1>5. CASE LoopDequeue
    <2>1. ring # <<>> /\ req = Head(ring) /\ req \in ToSet(delivered)
        BY <1>0, <1>5 DEF LoopInv, LoopDequeue
    <2>2. ToSet(ring) = {Head(ring)} \cup ToSet(Tail(ring))
        BY <1>0, <2>1, ToSetTail DEF JobTypes
    <2>3. QED
        BY <1>5, <2>1, <2>2 DEF LoopDequeue
<1>6. CASE TryMove
    <2> DEFINE moved == SubSeq(tmp, 1, Moved)
    <2> DEFINE rows == ring \o loaded
    <2>1. Moved \in 0 .. Len(tmp)
        BY <1>6, MovedFits DEF TryMove
    <2>2. /\ moved \in Seq(1 .. MaxRequests)
          /\ ToSet(moved) \cup ToSet(TmpLeft) = ToSet(tmp)
        BY <1>0, <2>1, Split DEF TmpLeft, JobTypes
    <2>3. rows \in Seq(Requests) /\ ToSet(ring) \subseteq ToSet(rows)
        BY <1>0, ToSetConcat, ConcatProperties DEF FileTypes, JobTypes
    <2>4. ring' = rows \o moved /\ tmp' = TmpLeft
        BY <1>6 DEF TryMove
    <2> HIDE DEF moved, rows
    <2>5. moved \in Seq(Requests)
        BY <2>2, SeqMonotonic, 1 .. MaxRequests \subseteq Requests DEF Requests
    <2>6. ToSet(ring') = ToSet(rows) \cup ToSet(moved)
        BY <2>3, <2>4, <2>5, ToSetConcat
    <2>7. QED
        BY <2>2, <2>3, <2>4, <2>6
<1>7. CASE Restart
    <2>1. process' = process + 1
        BY <1>7 DEF Restart
    <2>2. QED
        BY <1>0, <2>1 DEF JobTypes
<1>8. CASE UNCHANGED <<ring, tmp>>
    BY <1>8
<1>9. QED
    BY <1>1, <1>2, <1>3, <1>4, <1>5, <1>6, <1>7, <1>8
       DEF Next, vars, jobVars, Start, Add, LoopReport, TryLoadData, Stop,
           StartOpen, StartLoad, LoopCheck, LoopCurrent, TryFull, TryLoad, TryPanics,
           LoadTruncate, StopCalled, StopSurplus, StopTruncate, StopTruncating, StopPanics,
           StopClose

(* In every step of a process, whatever fails, each request in the ring or   *)
(* in tmp stays there, or is in the file, or was received by creport         *)
(* (report_job.go:79-87, 105-113, 130-145).                                  *)
THEOREM KeepsMemory == Spec => MemoryKept
<1>1. Inv /\ [Next]_vars =>
          [process' = process =>
               ToSet(ring) \cup ToSet(tmp) \subseteq
                   ToSet(ring') \cup ToSet(tmp') \cup ToSet(recs') \cup ToSet(delivered')]_vars
    BY KeptStep
<1>2. QED
    BY <1>1, Invariance, PTL DEF Spec, MemoryKept
-----------------------------------------------------------------------------
(* What a Stop that tryLoadData does not disturb can rely on, as long as     *)
(* what is unread fits in one buffered read and nothing failed: the file is  *)
(* written at its end, and nothing was passed over that is not there.        *)
FitsInOneRead == Len(recs) - offset <= Chunk

Undisturbed == faults = 0 /\ ~stopRaced
InUse == mpc \in {"fill", "up", "surplus", "truncate", "truncating"}

EndInv ==
    /\ stopRaced => Stopping
    /\ mpc \in {"new", "load"} => offset = 0
    /\ Undisturbed =>
           /\ Stopping => ~locked
           /\ mpc = "stopped" => ~open
           /\ InUse => pos = Len(recs)
           /\ InUse /\ (\A c \in {"load", "stop"} : trunc[c].at \in {"idle", "read", "zero"})
                  => offset <= Len(recs)

(* Where the requests are that the job held when Stop was called and that    *)
(* creport did not receive yet.                                              *)
StopHeldIn(S) == stopHeld \subseteq S \cup ToSet(delivered)
StopInv ==
    LET t == trunc["stop"]
        InTruncate(stages) == mpc = "truncating" /\ t.at \in stages
    IN  Undisturbed =>
          /\ mpc = "surplus" => StopHeldIn(ToSet(ring) \cup ToSet(tmp) \cup ToSet(File!Unread))
          /\ mpc = "truncate" =>
                 StopHeldIn(ToSet(surplus) \cup ToSet(tmp) \cup ToSet(File!Unread))
          /\ InTruncate({"read"}) =>
                 StopHeldIn(ToSet(t.before) \cup ToSet(t.after) \cup ToSet(File!Unread))
          /\ InTruncate({"zero", "before"}) =>
                 StopHeldIn(ToSet(t.before) \cup ToSet(t.keep) \cup ToSet(t.after))
          /\ InTruncate({"keep"}) =>
                 StopHeldIn(ToSet(recs) \cup ToSet(t.keep) \cup ToSet(t.after))
          /\ InTruncate({"after"}) => StopHeldIn(ToSet(recs) \cup ToSet(t.after))
          /\ InTruncate({"reset", "idle"}) \/ mpc = "stopped" => StopHeldIn(ToSet(recs))
-----------------------------------------------------------------------------
(* A Load that passes over all that is unread stops at the end of the file.  *)
LEMMA LoadRowsEnd ==
    ASSUME FileTypes, FitsInOneRead, offset <= Len(recs), NEW rows \in Nat, File!LoadRows(rows)
    PROVE  pos' = Len(recs') /\ offset' <= Len(recs') /\ offset' >= offset
<1> DEFINE available == Len(recs) - offset
<1> DEFINE w == File!Lesser(rows + 1, available)
<1> DEFINE chunks == (w + Chunk - 1) \div Chunk
<1>1. /\ offset' = offset + File!Greater(0, File!Lesser(rows, available))
      /\ pos' = IF available <= 0 THEN offset
                ELSE File!Lesser(Len(recs), offset + chunks * Chunk)
      /\ recs' = recs
    BY DEF File!LoadRows, File!ReadEnd
<1>2. available \in Nat /\ available <= Chunk /\ Len(recs) \in Nat /\ offset \in Nat
    BY DEF FileTypes, FitsInOneRead
<1>3. offset' <= Len(recs) /\ offset' >= offset
    <2> HIDE DEF w
    <2>1. File!Greater(0, File!Lesser(rows, available)) \in 0 .. available
        BY <1>2 DEF File!Greater, File!Lesser
    <2>2. QED
        BY <1>1, <1>2, <2>1
<1>4. pos' = Len(recs)
    <2>1. CASE available = 0
        BY <1>1, <1>2, <2>1
    <2>2. CASE available > 0
        <3>1. w \in Nat \ {0}
            BY <1>2, <2>2 DEF File!Lesser
        <3> HIDE DEF w
        <3>2. chunks \in Nat \ {0}
            BY <3>1, Bounds
        <3> HIDE DEF chunks
        <3>3. chunks * Chunk >= Chunk /\ chunks * Chunk \in Nat
            BY <3>2, Bounds
        <3>4. pos' = File!Lesser(Len(recs), offset + chunks * Chunk)
            BY <1>1, <1>2, <2>2
        <3> DEFINE m == chunks * Chunk
        <3> HIDE DEF m
        <3>5. m >= Chunk /\ m \in Nat /\ pos' = File!Lesser(Len(recs), offset + m)
            BY <3>3, <3>4 DEF m
        <3>6. ~(offset + m < Len(recs)) /\ (Len(recs) < offset + m => pos' = Len(recs))
            BY <1>2, <3>5, Bounds DEF File!Lesser
        <3>7. QED
            BY <1>2, <3>5, <3>6 DEF File!Lesser
    <2>3. QED
        BY <1>2, <2>1, <2>2
<1>5. QED
    BY <1>1, <1>3, <1>4

(* A file that is written at its end grows.                                  *)
LEMMA WriteEnd ==
    ASSUME FileTypes, pos = Len(recs), NEW b \in Seq(Requests), File!Write(b)
    PROVE  /\ recs' = recs \o b
           /\ pos' = Len(recs') /\ Len(recs') = Len(recs) + Len(b)
           /\ ToSet(recs') = ToSet(recs) \cup ToSet(b)
<1>1. recs' = recs \o b /\ pos' = Len(recs) + Len(b)
    BY WrittenAtEnd DEF File!Write, FileTypes
<1>2. Len(recs \o b) = Len(recs) + Len(b) /\ ToSet(recs \o b) = ToSet(recs) \cup ToSet(b)
    BY ConcatProperties, ToSetConcat DEF FileTypes
<1>3. QED
    BY <1>1, <1>2

LEMMA UnreadGrows ==
    ASSUME FileTypes, offset <= Len(recs), NEW b \in Seq(Requests),
           recs' = recs \o b, offset' = offset
    PROVE  /\ File!Unread' = File!Unread \o b
           /\ ToSet(File!Unread') = ToSet(File!Unread) \cup ToSet(b)
<1> DEFINE r == recs \o b
<1>1. /\ recs \in Seq(Requests) /\ Len(recs) \in Nat /\ Len(b) \in Nat
      /\ offset \in Nat
    BY DEF FileTypes
<1>2. /\ r \in Seq(Requests) /\ Len(r) = Len(recs) + Len(b)
      /\ \A i \in 1 .. Len(r) : r[i] = IF i <= Len(recs) THEN recs[i] ELSE b[i - Len(recs)]
    BY <1>1, ConcatProperties
<1> HIDE DEF r
<1> DEFINE u == SubSeq(recs, offset + 1, Len(recs))
<1> DEFINE v == SubSeq(r, offset + 1, Len(r))
<1>3. /\ u \in Seq(Requests) /\ Len(u) = Len(recs) - offset
      /\ \A i \in 1 .. Len(u) : u[i] = recs[offset + i]
    BY <1>1
<1>4. /\ v \in Seq(Requests) /\ Len(v) = Len(r) - offset
      /\ \A i \in 1 .. Len(v) : v[i] = r[offset + i]
    BY <1>1, <1>2
<1> HIDE DEF u, v
<1>5. /\ u \o b \in Seq(Requests) /\ Len(u \o b) = Len(u) + Len(b)
      /\ \A i \in 1 .. Len(u) + Len(b) : (u \o b)[i] = IF i <= Len(u) THEN u[i] ELSE b[i - Len(u)]
    BY <1>3, ConcatProperties
<1> DEFINE ub == u \o b
<1>6. Len(v) = Len(ub) /\ ub \in Seq(Requests)
    BY <1>1, <1>2, <1>3, <1>4, <1>5
<1>7. ToSet(ub) = ToSet(u) \cup ToSet(b)
    BY <1>3, ToSetConcat
<1>8. \A i \in 1 .. Len(u) + Len(b) : ub[i] = IF i <= Len(u) THEN u[i] ELSE b[i - Len(u)]
    BY <1>5
<1> HIDE DEF ub
<1>9. ASSUME NEW i \in 1 .. Len(v) PROVE v[i] = ub[i]
    <2>1. v[i] = r[offset + i] /\ offset + i \in 1 .. Len(r)
        BY <1>1, <1>2, <1>4
    <2>2. CASE i <= Len(u)
        <3>1. ub[i] = recs[offset + i]
            BY <1>1, <1>2, <1>3, <1>4, <1>8, <2>2
        <3>2. offset + i <= Len(recs)
            BY <1>1, <1>3, <2>2
        <3>3. QED
            BY <1>2, <2>1, <3>1, <3>2
    <2>3. CASE i > Len(u)
        <3>1. ub[i] = b[i - Len(u)] /\ i - Len(u) = offset + i - Len(recs)
            BY <1>1, <1>2, <1>3, <1>4, <1>8, <2>3
        <3>2. offset + i > Len(recs)
            BY <1>1, <1>3, <2>3
        <3>3. r[offset + i] = b[(offset + i) - Len(recs)]
            BY <1>2, <2>1, <3>2
        <3>4. QED
            BY <1>1, <1>3, <2>1, <3>1, <3>3
    <2>4. QED
        BY <1>1, <1>3, <2>2, <2>3
<1>10. v = ub
    BY <1>4, <1>6, <1>9, SeqEqual
<1>11. File!Unread = u /\ File!Unread' = v
    BY DEF File!Unread, u, v, r
<1>12. QED
    BY <1>7, <1>10, <1>11 DEF ub

LEMMA TruncateEnd ==
    ASSUME FileTypes, NEW c \in {"load", "stop"}, File!TruncateStep(c), pos = Len(recs)
    PROVE  /\ pos' = Len(recs') /\ faults' = faults
           /\ trunc'[c].at \in {"idle", "read", "zero"} => offset' <= Len(recs')
<1> USE DEF FileTypes, TruncateState
<1>1. CASE File!TruncateRead(c)
    BY <1>1 DEF File!TruncateRead
<1>2. CASE File!TruncateZero(c)
    BY <1>2 DEF File!TruncateZero
<1>3. CASE File!TruncateWrite(c)
    <2>1. PICK part \in {"before", "keep", "after"} :
              /\ File!Write(trunc[c][part])
              /\ trunc' = [trunc EXCEPT ![c].at =
                   CASE part = "before" -> "keep" [] part = "keep" -> "after"
                     [] part = "after" -> "reset"]
              /\ faults' = faults
        BY <1>3 DEF File!TruncateWrite
    <2>2. trunc[c][part] \in Seq(Requests)
        OBVIOUS
    <2>3. pos' = Len(recs')
        BY <2>1, <2>2, WriteEnd
    <2>4. trunc'[c].at \in {"keep", "after", "reset"}
        BY <2>1
    <2>5. QED
        BY <2>1, <2>3, <2>4
<1>4. CASE File!TruncateReset(c)
    <2>1. Len(recs) \in Nat
        OBVIOUS
    <2>2. QED
        BY <1>4, <2>1 DEF File!TruncateReset
<1>5. QED
    BY <1>1, <1>2, <1>3, <1>4 DEF File!TruncateStep
-----------------------------------------------------------------------------
LEMMA EndInit == Init => EndInv
<1> SUFFICES ASSUME Init PROVE EndInv
    OBVIOUS
<1>1. mpc = "new" /\ ~stopRaced /\ offset = 0
    BY DEF Init, File!Init
<1>2. QED
    BY <1>1 DEF EndInv, InUse, Stopping

(* While the loop is in tryLoadData, or Start has loaded, the file is open;  *)
(* if Stop was not disturbed, it was not called.                             *)
LEMMA LoadingUp ==
    ASSUME Inv, EndInv
    PROVE  /\ lpc # "off" => ~NotUp
           /\ mpc \in {"load", "fill", "up", "surplus", "truncate", "truncating"} => open
           /\ Undisturbed /\ locked => mpc = "up"
           /\ Undisturbed /\ Loading => InUse /\ ~Stopping
           /\ Undisturbed /\ ~Loading => trunc["load"].at = "idle"
<1>1. StartInv /\ LoadInv /\ ThreadTypes
    BY DEF Inv
<1>2. lpc # "off" => ~NotUp
    BY <1>1 DEF StartInv
<1>3. Undisturbed /\ locked => mpc = "up"
    BY <1>1, <1>2 DEF EndInv, Stopping, NotUp, LoadInv, ThreadTypes
<1>4. QED
    BY <1>1, <1>2, <1>3 DEF StartInv, LoadInv, Loading, InUse, Stopping

(* A step that leaves the file and the calls of Truncate alone.              *)
LEMMA EndFile ==
    ASSUME EndInv, UNCHANGED <<recs, offset, pos, trunc>>,
           faults' = 0 => faults = 0, stopRaced' = stopRaced,
           mpc' = mpc, open' = open, locked' => locked \/ stopRaced
    PROVE  EndInv'
BY DEF EndInv, Undisturbed, InUse, Stopping

LEMMA EndStep ==
    ASSUME ~EarlyAdds, Inv, EndInv, FitsInOneRead, [Next]_vars
    PROVE  EndInv'
<1>0. /\ FileTypes /\ JobTypes /\ ThreadTypes
      /\ StartInv /\ LoadInv /\ LoopInv
    BY DEF Inv
<1>1. CASE StartOpen
    <2>1. mpc' \in {"load", "failed"} /\ offset' = offset /\ UNCHANGED stopRaced /\ mpc = "new"
        BY <1>1 DEF StartOpen, File!OpenFile, File!OpenFails, loopVars
    <2>2. QED
        BY <2>1 DEF EndInv, InUse, Stopping
<1>2. CASE StartLoad
    <2>1. mpc = "load" /\ mpc' = "fill" /\ open /\ offset = 0 /\ ~stopRaced /\ ~stopRaced'
        BY <1>0, <1>2 DEF StartLoad, StartInv, EndInv, loopVars, Stopping
    <2>2. CASE File!LoadRows(BufLen)
        <3>1. offset <= Len(recs) /\ BufLen \in Nat
            BY <1>0, <2>1, Bounds DEF FileTypes
        <3>2. pos' = Len(recs') /\ offset' <= Len(recs')
            BY <1>0, <2>2, <3>1, LoadRowsEnd
        <3>3. QED
            BY <2>1, <3>2 DEF EndInv, Stopping
    <2>3. CASE File!LoadFails(BufLen)
        <3>1. faults' # 0
            BY <1>0, <2>1, <2>3 DEF File!LoadFails, File!Fault, FileTypes
        <3>2. QED
            BY <2>1, <3>1 DEF EndInv, Undisturbed
    <2>4. QED
        BY <1>2, <2>2, <2>3 DEF StartLoad
<1>3. CASE StartFill
    <2>1. mpc' = "up" /\ mpc = "fill" /\ UNCHANGED <<recs, offset, pos, trunc, faults, stopRaced>>
        BY <1>3 DEF StartFill
    <2>2. QED
        BY <2>1 DEF EndInv, Undisturbed, InUse, Stopping
<1>4. CASE AddToTmp /\ ~UNCHANGED fileVars
    <2>1. mpc \notin {"new", "load", "fill"} /\ ~locked /\ next <= MaxRequests
        BY <1>4 DEF AddToTmp, Adds
    <2>2. UNCHANGED <<mpc, stopRaced, locked>>
        BY <1>4 DEF AddToTmp, mainVars, loopVars
    <2>3. CASE File!Store(Batch)
        <3>1. File!Write(Batch) /\ UNCHANGED <<offset, open, trunc, loaded, faults>>
            BY <2>3 DEF File!Store
        <3>2. Batch \in Seq(Requests)
            BY <2>1, BatchType
        <3>3. pos = Len(recs) => pos' = Len(recs') /\ Len(recs') = Len(recs) + Len(Batch)
            BY <1>0, <3>1, <3>2, WriteEnd
        <3>4. offset <= Len(recs) => offset <= Len(recs) + Len(Batch)
            BY <1>0, <3>2 DEF FileTypes
        <3>5. QED
            BY <2>1, <2>2, <3>1, <3>3, <3>4 DEF EndInv, Undisturbed, InUse, Stopping
    <2>4. CASE File!StoreFails(Batch)
        <3>1. open' = open /\ (faults' # 0 \/ UNCHANGED <<recs, pos, faults>>)
              /\ UNCHANGED <<offset, trunc>>
            BY <1>0, <2>4 DEF File!StoreFails, File!Fault, FileTypes
        <3>2. QED
            BY <2>1, <2>2, <3>1 DEF EndInv, Undisturbed, InUse, Stopping
    <2>5. QED
        BY <1>4, <2>3, <2>4 DEF AddToTmp
<1>5. CASE ReportFails
    <2>1. faults' = 0 => faults = 0
        BY <1>0, <1>5 DEF ReportFails, File!Fault, FileTypes
    <2>2. QED
        BY <1>5, <2>1, EndFile DEF ReportFails, jobVars, mainVars
<1>6. CASE TryLoad
    <2>1. UNCHANGED <<mpc, isRunnable>> /\ stopRaced' = (stopRaced \/ Stopping) /\ lpc = "try"
        BY <1>6 DEF TryLoad, mainVars
    <2>2. CASE Stopping
        <3>1. stopRaced' /\ Stopping' /\ mpc' \notin {"new", "load"}
            BY <2>1, <2>2 DEF Stopping
        <3>2. QED
            BY <3>1 DEF EndInv, Undisturbed
    <2>3. CASE ~Stopping
        <3>1. mpc = "up" /\ open /\ ~stopRaced /\ ~stopRaced' /\ mpc' = "up"
            BY <1>0, <2>1, <2>3 DEF Stopping, EndInv, StartInv, NotUp, ThreadTypes
        <3>2. trunc["load"].at = "idle" /\ trunc["stop"].at = "idle"
            BY <1>0, <2>1, <3>1 DEF LoadInv, Loading
        <3>3. CASE File!LoadRows(SurplusCount)
            <4>1. SurplusCount \in Nat
                BY <1>0, Bounds DEF SurplusCount, JobTypes
            <4>2. faults' = faults
                BY <3>3 DEF File!LoadRows
            <4>3. ASSUME faults = 0 PROVE pos' = Len(recs') /\ offset' <= Len(recs')
                <5>1. offset <= Len(recs)
                    BY <3>1, <3>2, <4>3 DEF EndInv, Undisturbed, InUse
                <5>2. QED
                    BY <1>0, <3>3, <4>1, <5>1, LoadRowsEnd
            <4>4. QED
                BY <3>1, <4>2, <4>3 DEF EndInv, Undisturbed, Stopping
        <3>4. CASE File!LoadFails(SurplusCount)
            <4>1. faults' # 0
                BY <1>0, <3>1, <3>4 DEF File!LoadFails, File!Fault, FileTypes
            <4>2. QED
                BY <3>1, <4>1 DEF EndInv, Undisturbed
        <3>5. QED
            BY <1>6, <3>3, <3>4 DEF TryLoad
    <2>4. QED
        BY <2>2, <2>3
<1>7. CASE TryMove
    <2>1. UNCHANGED <<recs, offset, pos, trunc, faults, open, mpc>> /\ ~locked'
          /\ stopRaced' = (stopRaced \/ Stopping)
        BY <1>7 DEF TryMove, mainVars
    <2>2. QED
        BY <2>1 DEF EndInv, Undisturbed, InUse, Stopping
<1>8. CASE TryPanics
    <2>1. /\ UNCHANGED <<recs, offset, pos, faults, open, mpc, stopRaced>> /\ ~locked'
          /\ trunc["load"].at = "read" /\ ~(offset <= Len(recs)) /\ locked
        BY <1>0, <1>8 DEF TryPanics, File!TruncatePanics, mainVars, LoadInv, FileTypes
    <2>2. ~Undisturbed
        <3>1. SUFFICES ASSUME Undisturbed PROVE FALSE
            OBVIOUS
        <3>2. mpc = "up"
            BY <2>1, <3>1, LoadingUp
        <3>3. trunc["stop"].at = "idle"
            BY <1>0, <3>2 DEF LoadInv
        <3>4. QED
            BY <2>1, <3>1, <3>2, <3>3 DEF EndInv, InUse
    <2>3. QED
        BY <2>1, <2>2 DEF EndInv, Undisturbed, Stopping
<1>9. CASE LoadTruncate
    <2>1. /\ UNCHANGED <<mpc, stopRaced, locked>>
          /\ open' = open /\ trunc'["stop"] = trunc["stop"] /\ trunc["load"].at # "idle"
        BY <1>0, <1>9, TruncateTypes DEF LoadTruncate, mainVars, loopVars, jobVars
    <2>2. Loading /\ mpc \notin {"new", "load"}
        BY <1>0, <2>1 DEF LoadInv, Loading, StartInv, NotUp
    <2>3. CASE ~Undisturbed
        <3>1. faults' # 0 \/ stopRaced'
            <4>1. faults' \in {faults, faults + 1}
                BY <1>9 DEF LoadTruncate, File!TruncateStep, File!TruncateRead,
                       File!TruncateZero, File!TruncateWrite, File!TruncateReset,
                       File!TruncateFails, File!Fault
            <4>2. QED
                BY <1>0, <2>1, <2>3, <4>1 DEF Undisturbed, FileTypes
        <3>2. QED
            BY <2>1, <2>2, <3>1 DEF EndInv, Undisturbed, Stopping
    <2>4. CASE Undisturbed
        <3>1. InUse /\ ~Stopping /\ pos = Len(recs) /\ open
            BY <1>0, <2>2, <2>4, LoadingUp DEF EndInv, StartInv, InUse
        <3>2. trunc["stop"].at = "idle"
            BY <1>0, <3>1 DEF LoadInv, Stopping
        <3>3. CASE File!TruncateStep("load")
            <4>1. /\ pos' = Len(recs') /\ faults' = faults
                  /\ trunc'["load"].at \in {"idle", "read", "zero"} => offset' <= Len(recs')
                BY <1>0, <3>1, <3>3, TruncateEnd
            <4>2. QED
                BY <2>1, <2>2, <3>1, <4>1 DEF EndInv, Undisturbed, InUse, Stopping
        <3>4. CASE File!TruncateFails("load")
            <4>1. faults' # 0
                BY <1>0, <3>1, <3>4 DEF File!TruncateFails, File!Fault, FileTypes
            <4>2. QED
                BY <2>1, <2>2, <4>1 DEF EndInv, Undisturbed, Stopping
        <3>5. QED
            BY <1>9, <3>3, <3>4 DEF LoadTruncate
    <2>5. QED
        BY <2>3, <2>4
<1>10. CASE StopCalled
    <2>1. /\ mpc = "up" /\ mpc' = "surplus" /\ stopRaced' = locked
          /\ UNCHANGED <<recs, offset, pos, trunc, faults, open, locked>>
        BY <1>10 DEF StopCalled, fileVars
    <2>2. ~stopRaced
        BY <2>1 DEF EndInv, Stopping
    <2>3. QED
        BY <2>1, <2>2 DEF EndInv, Undisturbed, InUse, Stopping
<1>11. CASE StopSurplus
    <2>1. /\ mpc = "surplus" /\ mpc' = "truncate"
          /\ UNCHANGED <<recs, offset, pos, trunc, faults, open, locked, stopRaced>>
        BY <1>11 DEF StopSurplus, fileVars, jobVars, loopVars
    <2>2. QED
        BY <2>1 DEF EndInv, Undisturbed, InUse, Stopping
<1>12. CASE StopTruncate
    <2>1. /\ mpc = "truncate" /\ mpc' = "truncating"
          /\ UNCHANGED <<recs, offset, pos, faults, open, locked, stopRaced>>
          /\ trunc'["load"] = trunc["load"]
        BY <1>0, <1>12 DEF StopTruncate, jobVars, loopVars, FileTypes
    <2>2. trunc["stop"].at = "idle"
        BY <1>0, <2>1 DEF LoadInv
    <2>3. QED
        BY <2>1, <2>2 DEF EndInv, Undisturbed, InUse, Stopping
<1>13. CASE StopTruncating
    <2>1. /\ UNCHANGED <<mpc, stopRaced, locked>> /\ mpc = "truncating"
          /\ open' = open /\ trunc'["load"] = trunc["load"] /\ open
        BY <1>0, <1>13, TruncateTypes
           DEF StopTruncating, mainVars, loopVars, jobVars, StartInv
    <2>2. CASE ~Undisturbed
        <3>1. faults' \in {faults, faults + 1}
            BY <1>13 DEF StopTruncating, File!TruncateStep, File!TruncateRead,
                   File!TruncateZero, File!TruncateWrite, File!TruncateReset,
                   File!TruncateFails, File!Fault
        <3>2. QED
            BY <1>0, <2>1, <2>2, <3>1 DEF EndInv, Undisturbed, Stopping, FileTypes
    <2>3. CASE Undisturbed
        <3>1. pos = Len(recs) /\ trunc["load"].at = "idle"
            BY <1>0, <2>1, <2>3, LoadingUp DEF EndInv, InUse, Loading, LoadInv, Stopping
        <3>2. CASE File!TruncateStep("stop")
            <4>1. /\ pos' = Len(recs') /\ faults' = faults
                  /\ trunc'["stop"].at \in {"idle", "read", "zero"} => offset' <= Len(recs')
                BY <1>0, <3>1, <3>2, TruncateEnd
            <4>2. QED
                BY <2>1, <2>3, <4>1 DEF EndInv, Undisturbed, InUse, Stopping
        <3>3. CASE File!TruncateFails("stop")
            <4>1. faults' # 0
                BY <1>0, <2>1, <3>3 DEF File!TruncateFails, File!Fault, FileTypes
            <4>2. QED
                BY <2>1, <4>1 DEF EndInv, Undisturbed, Stopping
        <3>4. QED
            BY <1>13, <3>2, <3>3 DEF StopTruncating
    <2>4. QED
        BY <2>2, <2>3
<1>14. CASE StopPanics
    <2>1. /\ UNCHANGED <<offset, faults, stopRaced>> /\ mpc' = "stopped" /\ mpc = "truncating"
          /\ trunc["stop"].at = "read" /\ ~(offset <= Len(recs))
        BY <1>0, <1>14 DEF StopPanics, File!TruncatePanics, loopVars, FileTypes
    <2>2. ~Undisturbed
        <3>1. SUFFICES ASSUME Undisturbed PROVE FALSE
            OBVIOUS
        <3>2. trunc["load"].at = "idle"
            BY <1>0, <2>1, <3>1, LoadingUp DEF EndInv, Loading, LoadInv, Stopping
        <3>3. QED
            BY <2>1, <3>1, <3>2 DEF EndInv, InUse
    <2>3. QED
        BY <2>1, <2>2 DEF EndInv, Undisturbed, Stopping
<1>15. CASE StopClose
    <2>1. /\ UNCHANGED <<offset, faults, stopRaced, locked>> /\ mpc' = "stopped" /\ ~open'
          /\ mpc = "truncating"
        BY <1>15 DEF StopClose, File!Close, loopVars, jobVars
    <2>2. QED
        BY <2>1 DEF EndInv, Undisturbed, InUse, Stopping
<1>16. CASE Restart
    <2>1. offset' = 0 /\ mpc' = "new" /\ ~stopRaced'
        BY <1>16 DEF Restart, File!Forget
    <2>2. QED
        BY <2>1 DEF EndInv, InUse, Stopping
<1>17. CASE UNCHANGED <<recs, offset, pos, trunc, faults, open, mpc, stopRaced, locked>>
    BY <1>17, EndFile
<1>18. UNCHANGED fileVars /\ UNCHANGED <<mpc, stopRaced, locked>> =>
           UNCHANGED <<recs, offset, pos, trunc, faults, open, mpc, stopRaced, locked>>
    BY DEF fileVars
<1>19. AddToRing \/ LoopCheck \/ LoopCurrent \/ ReportOK \/ LoopDequeue \/ TryFull \/ AddToTmp
           => UNCHANGED <<mpc, stopRaced, locked>>
    BY DEF AddToRing, LoopCheck, LoopCurrent, ReportOK, LoopDequeue, TryFull, AddToTmp,
           mainVars, loopVars, jobVars
<1>20. AddToRing \/ LoopCheck \/ LoopCurrent \/ ReportOK \/ LoopDequeue \/ TryFull
           => UNCHANGED fileVars
    BY DEF AddToRing, LoopCheck, LoopCurrent, ReportOK, LoopDequeue, TryFull
<1>21. CASE UNCHANGED vars
    BY <1>17, <1>18, <1>21 DEF vars, mainVars, loopVars, jobVars
<1>22. QED
    BY <1>1, <1>2, <1>3, <1>4, <1>5, <1>6, <1>7, <1>8, <1>9, <1>10, <1>11, <1>12, <1>13,
       <1>14, <1>15, <1>16, <1>17, <1>18, <1>19, <1>20, <1>21
       DEF Next, Start, Add, LoopReport, TryLoadData, Stop
-----------------------------------------------------------------------------
(* What failed stays counted.                                                *)
LEMMA FaultsGrow ==
    ASSUME Inv, [Next]_vars
    PROVE  (faults' = faults \/ faults' = faults + 1) /\ (faults' = 0 => faults = 0)
<1>1. faults \in Nat
    BY DEF Inv, FileTypes
<1>2. faults' = faults \/ faults' = faults + 1
    BY DEF Next, vars, Start, Add, LoopReport, TryLoadData, Stop,
           StartOpen, StartLoad, StartFill, AddToRing, AddToTmp, LoopCheck, LoopCurrent,
           ReportOK, ReportFails, LoopDequeue, TryFull, TryLoad, TryMove, TryPanics,
           LoadTruncate, StopCalled, StopSurplus, StopTruncate, StopTruncating,
           StopPanics, StopClose, Restart, fileVars,
           File!OpenFile, File!OpenFails, File!LoadRows, File!LoadFails, File!Store,
           File!StoreFails, File!Fault, File!Forget, File!Close, File!TruncateStep,
           File!TruncateRead, File!TruncateZero, File!TruncateWrite, File!TruncateReset,
           File!TruncateFails, File!TruncatePanics
<1>3. QED
    BY <1>1, <1>2

(* A step that takes nothing from the places where the requests are.         *)
LEMMA StopSame ==
    ASSUME StopInv, Undisturbed, mpc' = mpc, UNCHANGED <<stopHeld, surplus>>,
           trunc'["stop"] = trunc["stop"],
           ToSet(delivered) \subseteq ToSet(delivered'),
           ToSet(recs) \subseteq ToSet(recs'),
           ToSet(ring) \subseteq ToSet(ring') \cup ToSet(delivered'),
           ToSet(tmp) \cup ToSet(File!Unread) \subseteq ToSet(tmp') \cup ToSet(File!Unread') 
               \/ mpc \in {"truncating", "stopped"},
           trunc["stop"].at = "read" => ToSet(File!Unread) \subseteq ToSet(File!Unread')
    PROVE  StopInv'
BY DEF StopInv, StopHeldIn

LEMMA StopInit == Init => StopInv
<1> SUFFICES ASSUME Init PROVE StopInv
    OBVIOUS
<1>1. mpc = "new"
    BY DEF Init
<1>2. QED
    BY <1>1 DEF StopInv

LEMMA StopStep ==
    ASSUME ~EarlyAdds, Inv, EndInv, StopInv, [Next]_vars
    PROVE  StopInv'
<1>0. /\ FileTypes /\ JobTypes /\ ThreadTypes
      /\ StartInv /\ LoadInv /\ LoopInv
    BY DEF Inv
<1> SUFFICES ASSUME Undisturbed', Stopping' PROVE StopInv'
    BY DEF StopInv, Stopping
<1>1. faults = 0
    <2>1. faults' = 0
        BY DEF Undisturbed
    <2>2. QED
        BY <2>1, FaultsGrow
<1>2. CASE StopCalled
    <2>1. /\ mpc = "up" /\ mpc' = "surplus" /\ ~locked /\ stopHeld' = Held
          /\ UNCHANGED <<recs, offset, ring, tmp, delivered>>
        BY <1>2 DEF StopCalled, fileVars, Undisturbed
    <2>2. loaded = <<>> /\ trunc["load"].at = "idle"
        BY <1>0, <2>1 DEF LoadInv, Loading
    <2>3. Held = ToSet(ring) \cup ToSet(tmp) \cup ToSet(File!Unread)
        BY <2>2, ToSetEmpty DEF Held, File!Backlog
    <2>4. File!Unread' = File!Unread
        BY <2>1 DEF File!Unread
    <2>5. QED
        BY <2>1, <2>3, <2>4 DEF StopInv, StopHeldIn
<1>3. CASE ~StopCalled
    <2>1. Undisturbed /\ mpc \notin {"new", "load", "fill", "failed", "up"}
        <3>1. stopRaced' => FALSE
            BY DEF Undisturbed
        <3>2. mpc' \in {"new", "load", "fill", "failed", "up"} \/ ~(Start \/ Restart)
            BY DEF Start, StartOpen, StartLoad, StartFill, Restart
        <3>3. ~Start /\ ~Restart
            BY <3>2 DEF Stopping
        <3>4. CASE StopSurplus \/ StopTruncate \/ StopTruncating \/ StopPanics \/ StopClose
            BY <1>1, <3>1, <3>4 DEF StopSurplus, StopTruncate, StopTruncating, StopPanics,
               StopClose, Undisturbed, loopVars
        <3>5. CASE Add \/ LoadTruncate \/ UNCHANGED vars
            BY <1>1, <3>1, <3>5 DEF Add, AddToRing, AddToTmp, LoadTruncate, vars, mainVars,
               loopVars, Undisturbed, Stopping
        <3>6. CASE LoopReport
            <4>1. UNCHANGED mpc
                BY <3>6 DEF LoopReport, TryLoadData, LoopCheck, LoopCurrent, ReportOK,
                   ReportFails, LoopDequeue, TryFull, TryLoad, TryMove, TryPanics, mainVars
            <4>2. ~TryLoad /\ ~TryMove
                BY <3>1, <4>1 DEF TryLoad, TryMove, Stopping
            <4>3. UNCHANGED stopRaced
                BY <3>6, <4>2 DEF LoopReport, TryLoadData, LoopCheck, LoopCurrent, ReportOK,
                   ReportFails, LoopDequeue, TryFull, TryPanics
            <4>4. QED
                BY <1>1, <3>1, <4>1, <4>3 DEF Undisturbed, Stopping
        <3>7. QED
            BY <1>3, <3>3, <3>4, <3>5, <3>6 DEF Next, Stop
    <2>2. Stopping /\ ~locked /\ lpc # "move" /\ mpc # "fill" /\ loaded = <<>>
          /\ trunc["load"].at = "idle"
        BY <1>0, <2>1 DEF ThreadTypes, Stopping, EndInv, LoadInv, Loading
    <2>3. /\ mpc # "stopped" => pos = Len(recs)
          /\ mpc # "stopped" /\ trunc["stop"].at \in {"idle", "read", "zero"}
                => offset <= Len(recs)
          /\ mpc = "stopped" => ~open
          /\ mpc # "truncating" => trunc["stop"].at = "idle"
        BY <1>0, <2>1, <2>2 DEF EndInv, InUse, Stopping, LoadInv
    <2>4. CASE AddToRing
        <3>1. ToSet(ring) \subseteq ToSet(ring')
            <4>1. next \in Requests /\ ring \in Seq(Requests)
                BY <1>0, <2>4, BatchType DEF AddToRing, Adds, JobTypes
            <4>2. QED
                BY <2>4, <4>1, ToSetAppend DEF AddToRing
        <3>2. UNCHANGED <<mpc, stopHeld, surplus, trunc, recs, offset, tmp, delivered>>
            BY <2>4 DEF AddToRing, fileVars, mainVars
        <3>3. File!Unread' = File!Unread
            BY <3>2 DEF File!Unread
        <3>4. QED
            BY <2>1, <3>1, <3>2, <3>3, StopSame
    <2>5. CASE AddToTmp
        <3>1. UNCHANGED <<mpc, stopHeld, surplus, ring, delivered>>
            BY <2>5 DEF AddToTmp, mainVars
        <3>2. Batch \in Seq(Requests) /\ ToSet(tmp) \subseteq ToSet(Batch)
            BY <2>5, BatchType DEF AddToTmp, Adds
        <3>3. CASE tmp' = Batch /\ UNCHANGED <<recs, offset, trunc>>
            <4>1. File!Unread' = File!Unread
                BY <3>3 DEF File!Unread
            <4>2. QED
                BY <2>1, <3>1, <3>2, <3>3, <4>1, StopSame
        <3>4. CASE File!Store(Batch)
            <4>1. open /\ File!Write(Batch) /\ UNCHANGED <<offset, trunc>>
                BY <3>4 DEF File!Store
            <4>2. recs' = recs \o Batch /\ ToSet(recs) \subseteq ToSet(recs')
                BY <1>0, <2>3, <3>2, <4>1, WriteEnd
            <4>3. trunc["stop"].at \in {"idle", "read"} =>
                      ToSet(File!Unread') = ToSet(File!Unread) \cup ToSet(Batch)
                BY <1>0, <2>3, <3>2, <4>1, <4>2, UnreadGrows
            <4>4. ToSet(tmp) \cup ToSet(File!Unread) \subseteq ToSet(tmp') \cup ToSet(File!Unread')
                      \/ mpc \in {"truncating", "stopped"}
                BY <2>3, <3>2, <4>3
            <4>5. QED
                BY <2>1, <3>1, <4>1, <4>2, <4>3, <4>4, StopSame
        <3>5. CASE File!StoreFails(Batch) /\ tmp' = Batch
            <4>1. open => faults' # 0
                BY <1>1, <3>5 DEF File!StoreFails, File!Fault
            <4>2. UNCHANGED <<recs, offset, trunc>>
                BY <3>5, <4>1 DEF File!StoreFails, Undisturbed
            <4>3. QED
                BY <3>3, <3>5, <4>2
        <3>6. QED
            BY <2>5, <3>3, <3>4, <3>5 DEF AddToTmp, fileVars
    <2>6. CASE ReportOK \/ ReportFails
        <3>1. UNCHANGED <<mpc, stopHeld, surplus, trunc, recs, offset, ring, tmp>>
              /\ delivered' \in {delivered, Append(delivered, req)}
            BY <2>6 DEF ReportOK, ReportFails, fileVars, mainVars, jobVars
        <3>2. ToSet(delivered) \subseteq ToSet(delivered')
            <4>1. ToSet(Append(delivered, req)) = ToSet(delivered) \cup {req}
                BY <1>0, ToSetAppend DEF JobTypes, ThreadTypes
            <4>2. QED
                BY <3>1, <4>1
        <3>3. File!Unread' = File!Unread
            BY <3>1 DEF File!Unread
        <3>4. QED
            BY <2>1, <3>1, <3>2, <3>3, StopSame
    <2>7. CASE LoopDequeue
        <3>1. UNCHANGED <<mpc, stopHeld, surplus, trunc, recs, offset, tmp, delivered>>
            BY <2>7 DEF LoopDequeue, fileVars, mainVars
        <3>2. ring # <<>> /\ Head(ring) \in ToSet(delivered) /\ ring' = Tail(ring)
            BY <1>0, <2>7 DEF LoopInv, LoopDequeue
        <3>3. ToSet(ring) = {Head(ring)} \cup ToSet(Tail(ring))
            BY <1>0, <3>2, ToSetTail DEF JobTypes
        <3>4. File!Unread' = File!Unread
            BY <3>1 DEF File!Unread
        <3>5. QED
            BY <2>1, <3>1, <3>2, <3>3, <3>4, StopSame
    <2>8. CASE LoopCheck \/ LoopCurrent \/ TryFull \/ UNCHANGED vars
        <3>1. UNCHANGED <<mpc, stopHeld, surplus, trunc, recs, offset, ring, tmp, delivered>>
            BY <2>8 DEF LoopCheck, LoopCurrent, TryFull, vars, fileVars, jobVars, mainVars
        <3>2. File!Unread' = File!Unread
            BY <3>1 DEF File!Unread
        <3>3. QED
            BY <2>1, <3>1, <3>2, StopSame
    <2>9. CASE TryLoad \/ TryMove \/ TryPanics \/ LoadTruncate
        <3>1. ~TryLoad
            BY <2>2 DEF TryLoad, Undisturbed
        <3>2. ~TryMove /\ ~TryPanics
            BY <2>2 DEF TryMove, TryPanics
        <3>3. ~LoadTruncate
            BY <1>0, <2>2, TruncateTypes DEF LoadTruncate
        <3>4. QED
            BY <2>9, <3>1, <3>2, <3>3
    <2>10. CASE StopSurplus
        <3>1. /\ mpc = "surplus" /\ mpc' = "truncate" /\ surplus' = ring
              /\ UNCHANGED <<stopHeld, recs, offset, tmp, delivered>>
            BY <2>10 DEF StopSurplus, fileVars, jobVars
        <3>2. File!Unread' = File!Unread
            BY <3>1 DEF File!Unread
        <3>3. QED
            BY <2>1, <3>1, <3>2 DEF StopInv, StopHeldIn
    <2>11. CASE StopTruncate
        <3>1. /\ mpc = "truncate" /\ mpc' = "truncating"
              /\ UNCHANGED <<stopHeld, recs, offset, surplus, tmp, delivered>>
              /\ trunc'["stop"] = File!TruncateCall(surplus, tmp)
            BY <1>0, <2>11 DEF StopTruncate, jobVars, FileTypes
        <3>2. /\ trunc'["stop"].at = "read" /\ trunc'["stop"].before = surplus
              /\ trunc'["stop"].after = tmp
            BY <3>1 DEF File!TruncateCall
        <3>3. File!Unread' = File!Unread
            BY <3>1 DEF File!Unread
        <3>4. QED
            BY <2>1, <3>1, <3>2, <3>3 DEF StopInv, StopHeldIn
    <2>12. CASE StopTruncating
        <3> DEFINE t == trunc["stop"]
        <3>1. mpc = "truncating" /\ UNCHANGED <<mpc, stopHeld, delivered>> /\ open
              /\ trunc \in [{"load", "stop"} -> TruncateState]
            BY <1>0, <2>12 DEF StopTruncating, mainVars, StartInv, FileTypes
        <3>2. CASE File!TruncateRead("stop")
            <4>1. /\ t.at = "read" /\ trunc'["stop"].at = "zero"
                  /\ trunc'["stop"].before = t.before /\ trunc'["stop"].after = t.after
                  /\ trunc'["stop"].keep = File!Unread
                BY <3>1, <3>2 DEF File!TruncateRead, TruncateState
            <4>2. QED
                BY <2>1, <3>1, <4>1 DEF StopInv, StopHeldIn
        <3>3. CASE File!TruncateZero("stop")
            <4>1. /\ t.at = "zero" /\ trunc'["stop"].at = "before"
                  /\ trunc'["stop"].before = t.before /\ trunc'["stop"].after = t.after
                  /\ trunc'["stop"].keep = t.keep
                BY <3>1, <3>3 DEF File!TruncateZero, TruncateState
            <4>2. QED
                BY <2>1, <3>1, <4>1 DEF StopInv, StopHeldIn
        <3>4. CASE File!TruncateWrite("stop")
            <4>1. PICK part \in {"before", "keep", "after"} :
                      /\ t.at = part
                      /\ File!Write(t[part])
                      /\ trunc' = [trunc EXCEPT !["stop"].at =
                           CASE part = "before" -> "keep" [] part = "keep" -> "after"
                             [] part = "after" -> "reset"]
                BY <3>4 DEF File!TruncateWrite
            <4>2. /\ trunc'["stop"].before = t.before /\ trunc'["stop"].after = t.after
                  /\ trunc'["stop"].keep = t.keep
                  /\ trunc'["stop"].at = CASE part = "before" -> "keep" [] part = "keep" -> "after"
                             [] part = "after" -> "reset"
                BY <3>1, <4>1 DEF TruncateState
            <4>3. t[part] \in Seq(Requests)
                BY <3>1 DEF TruncateState
            <4>4. ToSet(recs') = ToSet(recs) \cup ToSet(t[part])
                BY <1>0, <2>3, <3>1, <4>1, <4>3, WriteEnd
            <4>5. CASE part = "before"
                BY <2>1, <3>1, <4>1, <4>2, <4>4, <4>5 DEF StopInv, StopHeldIn
            <4>6. CASE part = "keep"
                BY <2>1, <3>1, <4>1, <4>2, <4>4, <4>6 DEF StopInv, StopHeldIn
            <4>7. CASE part = "after"
                BY <2>1, <3>1, <4>1, <4>2, <4>4, <4>7 DEF StopInv, StopHeldIn
            <4>8. QED
                BY <4>5, <4>6, <4>7
        <3>5. CASE File!TruncateReset("stop")
            <4>1. t.at = "reset" /\ trunc'["stop"].at = "idle" /\ recs' = recs
                BY <3>1, <3>5, IdleType DEF File!TruncateReset
            <4>2. QED
                BY <2>1, <3>1, <4>1 DEF StopInv, StopHeldIn
        <3>6. CASE File!TruncateFails("stop")
            <4>1. faults' # 0
                BY <1>1, <3>1, <3>6 DEF File!TruncateFails, File!Fault
            <4>2. QED
                BY <4>1 DEF Undisturbed
        <3>7. QED
            BY <2>12, <3>2, <3>3, <3>4, <3>5, <3>6 DEF StopTruncating, File!TruncateStep
    <2>13. CASE StopPanics
        <3>1. mpc = "truncating" /\ trunc["stop"].at = "read" /\ offset > Len(recs)
            BY <2>13 DEF StopPanics, File!TruncatePanics
        <3>2. QED
            BY <1>0, <2>3, <3>1 DEF FileTypes
    <2>14. CASE StopClose
        <3>1. /\ mpc = "truncating" /\ trunc["stop"].at = "idle" /\ mpc' = "stopped"
              /\ UNCHANGED <<stopHeld, recs, delivered>>
            BY <2>14 DEF StopClose, File!Close
        <3>2. QED
            BY <2>1, <3>1 DEF StopInv, StopHeldIn
    <2>15. ~Start /\ ~Restart
        BY <2>1 DEF Start, StartOpen, StartLoad, StartFill, Restart, Stopping
    <2>16. QED
        BY <1>3, <2>4, <2>5, <2>6, <2>7, <2>8, <2>9, <2>10, <2>11, <2>12, <2>13, <2>14, <2>15
           DEF Next, Add, LoopReport, TryLoadData, Stop
<1>4. QED
    BY <1>2, <1>3

(* When Stop returns and tryLoadData was not running meanwhile, the file     *)
(* holds what the job held when it was called, less what creport received:   *)
(* for every size of ring and file, if tasks add only once Start returned    *)
(* and what is unread always fits in one buffered read                       *)
(* (report_job.go:63-68, README.md:32).                                      *)
THEOREM StopKeepsWhatWasHeld ==
    ASSUME ~EarlyAdds
    PROVE  Spec /\ []FitsInOneRead => []StopKeeps
<1>1. Inv /\ EndInv /\ StopInv /\ FitsInOneRead /\ [Next]_vars => (EndInv /\ StopInv)'
    BY EndStep, StopStep
<1>2. Init => EndInv /\ StopInv
    BY EndInit, StopInit
<1>3. StopInv => StopKeeps
    BY DEF StopInv, StopHeldIn, StopKeeps, StopKeepsAll, Undisturbed
<1>4. QED
    BY <1>1, <1>2, <1>3, Invariance, PTL DEF Spec
-----------------------------------------------------------------------------
(* Sequences without repetition, and increasing ones.                        *)
Increasing(s) == \A i, j \in DOMAIN s : i < j => s[i] < s[j]
Precedes(s, t) == \A x \in ToSet(s), y \in ToSet(t) : x < y
Disjoint(S, T) == S \cap T = {}

LEMMA Parts ==
    ASSUME NEW S, NEW s \in Seq(S), NEW t \in Seq(S)
    PROVE  /\ s \o t \in Seq(S) /\ DOMAIN (s \o t) = 1 .. Len(s) + Len(t)
           /\ DOMAIN s = 1 .. Len(s) /\ DOMAIN t = 1 .. Len(t)
           /\ Len(s) \in Nat /\ Len(t) \in Nat
           /\ \A i \in 1 .. Len(s) : (s \o t)[i] = s[i]
           /\ \A i \in 1 .. Len(t) : (s \o t)[Len(s) + i] = t[i]
<1>1. /\ Len(s \o t) = Len(s) + Len(t) /\ s \o t \in Seq(S)
      /\ \A i \in 1 .. Len(s) + Len(t) :
             (s \o t)[i] = IF i <= Len(s) THEN s[i] ELSE t[i - Len(s)]
    BY ConcatProperties
<1> DEFINE c == s \o t
<1>2. c \in Seq(S) /\ Len(c) = Len(s) + Len(t)
    BY <1>1
<1>3. \A i \in 1 .. Len(s) + Len(t) : c[i] = IF i <= Len(s) THEN s[i] ELSE t[i - Len(s)]
    BY <1>1
<1> HIDE DEF c
<1>4. DOMAIN c = 1 .. Len(s) + Len(t) /\ Len(s) \in Nat /\ Len(t) \in Nat
    BY <1>2
<1>5. \A i \in 1 .. Len(s) : c[i] = s[i]
    BY <1>3, <1>4
<1>6. ASSUME NEW i \in 1 .. Len(t) PROVE c[Len(s) + i] = t[i]
    <2>1. /\ Len(s) + i \in 1 .. Len(s) + Len(t) /\ ~(Len(s) + i <= Len(s))
          /\ (Len(s) + i) - Len(s) = i
        BY <1>4
    <2>2. QED
        BY <1>3, <2>1
<1>7. QED
    BY <1>2, <1>4, <1>5, <1>6 DEF c

LEMMA IncreasingConcat ==
    ASSUME NEW s \in Seq(Nat), NEW t \in Seq(Nat)
    PROVE  Increasing(s \o t) <=> Increasing(s) /\ Increasing(t) /\ Precedes(s, t)
<1> DEFINE c == s \o t
<1> DEFINE m == Len(s)
<1> DEFINE n == Len(t)
<1>1. /\ DOMAIN c = 1 .. m + n
      /\ DOMAIN s = 1 .. m /\ DOMAIN t = 1 .. n
      /\ m \in Nat /\ n \in Nat
      /\ \A i \in 1 .. m : c[i] = s[i]
      /\ \A i \in 1 .. n : c[m + i] = t[i]
    BY Parts
<1> HIDE DEF c, m, n
<1>2. ASSUME Increasing(c) PROVE Increasing(s) /\ Increasing(t) /\ Precedes(s, t)
    <2>1. Increasing(s)
        <3> SUFFICES ASSUME NEW i \in 1 .. m, NEW j \in 1 .. m, i < j PROVE s[i] < s[j]
            BY <1>1 DEF Increasing
        <3>1. i \in 1 .. m + n /\ j \in 1 .. m + n
            BY <1>1
        <3>2. c[i] < c[j]
            BY <1>1, <1>2, <3>1 DEF Increasing
        <3>3. QED
            BY <1>1, <3>2
    <2>2. Increasing(t)
        <3> SUFFICES ASSUME NEW i \in 1 .. n, NEW j \in 1 .. n, i < j PROVE t[i] < t[j]
            BY <1>1 DEF Increasing
        <3>1. m + i \in 1 .. m + n /\ m + j \in 1 .. m + n /\ m + i < m + j
            BY <1>1
        <3>2. c[m + i] < c[m + j]
            BY <1>1, <1>2, <3>1 DEF Increasing
        <3>3. QED
            BY <1>1, <3>2
    <2>3. Precedes(s, t)
        <3> SUFFICES ASSUME NEW i \in 1 .. m, NEW j \in 1 .. n PROVE s[i] < t[j]
            BY <1>1 DEF Precedes, ToSet
        <3>1. i \in 1 .. m + n /\ m + j \in 1 .. m + n /\ i < m + j
            BY <1>1
        <3>2. c[i] < c[m + j]
            BY <1>1, <1>2, <3>1 DEF Increasing
        <3>3. QED
            BY <1>1, <3>2
    <2>4. QED
        BY <2>1, <2>2, <2>3
<1>3. ASSUME Increasing(s), Increasing(t), Precedes(s, t) PROVE Increasing(c)
    <2> SUFFICES ASSUME NEW i \in 1 .. m + n, NEW j \in 1 .. m + n, i < j
                 PROVE  c[i] < c[j]
        BY <1>1 DEF Increasing
    <2>1. CASE j <= m
        <3>1. i \in 1 .. m /\ j \in 1 .. m
            BY <1>1, <2>1
        <3>2. s[i] < s[j]
            BY <1>1, <1>3, <3>1 DEF Increasing
        <3>3. QED
            BY <1>1, <3>1, <3>2
    <2>2. CASE i > m
        <3>1. i - m \in 1 .. n /\ j - m \in 1 .. n /\ i - m < j - m
            BY <1>1, <2>2
        <3>2. c[m + (i - m)] = t[i - m] /\ c[m + (j - m)] = t[j - m]
            BY <1>1, <3>1
        <3>3. t[i - m] < t[j - m]
            BY <1>1, <1>3, <3>1 DEF Increasing
        <3>4. m + (i - m) = i /\ m + (j - m) = j
            BY <1>1
        <3>5. QED
            BY <3>2, <3>3, <3>4
    <2>3. CASE i <= m /\ j > m
        <3>1. i \in 1 .. m /\ j - m \in 1 .. n /\ m + (j - m) = j
            BY <1>1, <2>3
        <3>2. c[i] = s[i] /\ c[m + (j - m)] = t[j - m]
            BY <1>1, <3>1
        <3>3. s[i] < t[j - m]
            BY <1>1, <1>3, <3>1 DEF Precedes, ToSet
        <3>4. QED
            BY <3>1, <3>2, <3>3
    <2>4. QED
        BY <1>1, <2>1, <2>2, <2>3
<1>4. QED
    BY <1>2, <1>3 DEF c

LEMMA InjectiveConcat ==
    ASSUME NEW s \in Seq(Nat), NEW t \in Seq(Nat)
    PROVE  IsInjective(s \o t) <=>
               IsInjective(s) /\ IsInjective(t) /\ Disjoint(ToSet(s), ToSet(t))
<1> DEFINE c == s \o t
<1> DEFINE m == Len(s)
<1> DEFINE n == Len(t)
<1>1. /\ DOMAIN c = 1 .. m + n
      /\ DOMAIN s = 1 .. m /\ DOMAIN t = 1 .. n
      /\ m \in Nat /\ n \in Nat
      /\ \A i \in 1 .. m : c[i] = s[i]
      /\ \A i \in 1 .. n : c[m + i] = t[i]
    BY Parts
<1> HIDE DEF c, m, n
<1>2. ASSUME IsInjective(c)
      PROVE  IsInjective(s) /\ IsInjective(t) /\ Disjoint(ToSet(s), ToSet(t))
    <2>1. IsInjective(s)
        BY <1>1, <1>2 DEF IsInjective
    <2>2. IsInjective(t)
        <3> SUFFICES ASSUME NEW i \in 1 .. n, NEW j \in 1 .. n, t[i] = t[j] PROVE i = j
            BY <1>1 DEF IsInjective
        <3>1. m + i \in 1 .. m + n /\ m + j \in 1 .. m + n
            BY <1>1
        <3>2. m + i = m + j
            BY <1>1, <1>2, <3>1 DEF IsInjective
        <3>3. QED
            BY <1>1, <3>2
    <2>3. Disjoint(ToSet(s), ToSet(t))
        <3> SUFFICES ASSUME NEW i \in 1 .. m, NEW j \in 1 .. n, s[i] = t[j] PROVE FALSE
            BY <1>1 DEF Disjoint, ToSet
        <3>1. i \in 1 .. m + n /\ m + j \in 1 .. m + n /\ i # m + j
            BY <1>1
        <3>2. QED
            BY <1>1, <1>2, <3>1 DEF IsInjective
    <2>4. QED
        BY <2>1, <2>2, <2>3
<1>3. ASSUME IsInjective(s), IsInjective(t), Disjoint(ToSet(s), ToSet(t))
      PROVE  IsInjective(c)
    <2>1. ASSUME NEW i \in 1 .. m, NEW j \in 1 .. n PROVE s[i] # t[j]
        BY <1>1, <1>3 DEF Disjoint, ToSet
    <2>2. ASSUME NEW i \in 1 .. m + n
          PROVE  \/ i \in 1 .. m /\ c[i] = s[i]
                 \/ i - m \in 1 .. n /\ c[i] = t[i - m]
        <3>1. CASE i <= m
            BY <1>1, <3>1
        <3>2. CASE i > m
            <4>1. i - m \in 1 .. n /\ m + (i - m) = i
                BY <1>1, <3>2
            <4>2. QED
                BY <1>1, <4>1
        <3>3. QED
            BY <1>1, <3>1, <3>2
    <2> SUFFICES ASSUME NEW i \in 1 .. m + n, NEW j \in 1 .. m + n, c[i] = c[j]
                 PROVE  i = j
        BY <1>1 DEF IsInjective
    <2>3. CASE i \in 1 .. m /\ j \in 1 .. m
        BY <1>1, <1>3, <2>3 DEF IsInjective
    <2>4. CASE i - m \in 1 .. n /\ j - m \in 1 .. n /\ c[i] = t[i - m] /\ c[j] = t[j - m]
        <3>1. i - m = j - m
            BY <1>1, <1>3, <2>4 DEF IsInjective
        <3>2. QED
            BY <1>1, <3>1
    <2>5. QED
        BY <2>1, <2>2, <2>3, <2>4
<1>4. QED
    BY <1>2, <1>3 DEF c

LEMMA IncreasingInjective ==
    ASSUME NEW s \in Seq(Nat), Increasing(s)
    PROVE  IsInjective(s)
<1>1. \A i \in DOMAIN s : s[i] \in Nat /\ i \in Nat
    OBVIOUS
<1> SUFFICES ASSUME NEW i \in DOMAIN s, NEW j \in DOMAIN s, s[i] = s[j] PROVE i = j
    BY DEF IsInjective
<1>2. i \in Nat /\ j \in Nat /\ s[i] \in Nat /\ ~(s[i] < s[j]) /\ ~(s[j] < s[i])
    BY <1>1
<1>3. ~(i < j) /\ ~(j < i)
    BY <1>2 DEF Increasing
<1>4. QED
    BY <1>2, <1>3

LEMMA Single ==
    ASSUME NEW x \in Nat
    PROVE  /\ <<x>> \in Seq(Nat) /\ ToSet(<<x>>) = {x}
           /\ Increasing(<<x>>) /\ IsInjective(<<x>>)
<1>1. <<x>> \in Seq(Nat) /\ DOMAIN <<x>> = {1} /\ <<x>>[1] = x
    OBVIOUS
<1>2. ToSet(<<x>>) = {x}
    BY DEF ToSet
<1>3. Increasing(<<x>>) /\ IsInjective(<<x>>)
    BY <1>1 DEF Increasing, IsInjective
<1>4. QED
    BY <1>1, <1>2, <1>3
-----------------------------------------------------------------------------
(* The file while Stop was not called: it is written at its end, a Load has  *)
(* passed over no more than there is, and a Truncate rewrites what it keeps. *)
FileInv ==
    LET t == trunc["load"]
    IN  /\ pos = Len(recs)
        /\ mpc = "new" => recs = <<>>
        /\ t.at \in {"idle", "read", "zero"} => offset <= Len(recs)
        /\ t.at # "idle" => t.before = <<>> /\ t.after = <<>>
        /\ t.at = "zero" => t.keep = File!Unread
        /\ t.at \in {"before", "keep"} => recs = <<>>
        /\ t.at \in {"after", "reset"} => recs = t.keep

(* All that is not in the ring, in the order in which it will get there.     *)
Waiting == (loaded \o File!Backlog) \o tmp

LEMMA WaitingType ==
    ASSUME Inv
    PROVE  /\ recs \in Seq(Requests) /\ Len(recs) \in Nat /\ offset \in Nat
           /\ loaded \in Seq(Requests) /\ File!Backlog \in Seq(Requests)
           /\ tmp \in Seq(Requests) /\ ring \in Seq(Requests) /\ Waiting \in Seq(Requests)
           /\ ToSet(Waiting) = ToSet(loaded) \cup ToSet(File!Backlog) \cup ToSet(tmp)
           /\ next \in Nat \ {0}
<1>0. FileTypes /\ JobTypes
    BY DEF Inv
<1>1. recs \in Seq(Requests) /\ loaded \in Seq(Requests) /\ ring \in Seq(Requests)
      /\ Len(recs) \in Nat /\ offset \in Nat
    BY <1>0 DEF FileTypes, JobTypes
<1>2. File!Backlog \in Seq(Requests)
    BY <1>0, UnreadAllType DEF FileTypes, TruncateState, File!Backlog
<1>3. tmp \in Seq(Requests)
    BY <1>0, SeqMonotonic, 1 .. MaxRequests \subseteq Requests DEF JobTypes, Requests
<1>4. /\ loaded \o File!Backlog \in Seq(Requests)
      /\ ToSet(loaded \o File!Backlog) = ToSet(loaded) \cup ToSet(File!Backlog)
    BY <1>1, <1>2, ConcatProperties, ToSetConcat
<1> DEFINE front == loaded \o File!Backlog
<1>5. /\ front \in Seq(Requests)
      /\ ToSet(front) = ToSet(loaded) \cup ToSet(File!Backlog)
    BY <1>4
<1> HIDE DEF front
<1>6. /\ front \o tmp \in Seq(Requests)
      /\ ToSet(front \o tmp) = ToSet(front) \cup ToSet(tmp)
    BY <1>3, <1>5, ConcatProperties, ToSetConcat
<1>7. next \in Nat \ {0}
    BY <1>0 DEF JobTypes
<1>8. QED
    BY <1>1, <1>2, <1>3, <1>5, <1>6, <1>7 DEF front, Waiting

LEMMA ConcatEmpty ==
    ASSUME NEW S, NEW s \in Seq(S)
    PROVE  s \o <<>> = s /\ <<>> \o s = s
BY ConcatEmptySeq

(* A Load takes from the front of what is unread.                            *)
LEMMA LoadRowsQueue ==
    ASSUME FileTypes, offset <= Len(recs), NEW rows \in Nat, File!LoadRows(rows)
    PROVE  File!Unread = loaded' \o File!Backlog'
<1> DEFINE n == File!Greater(0, File!Lesser(rows, Len(recs) - offset))
<1>1. /\ loaded' = SubSeq(recs, offset + 1, offset + n)
      /\ offset' = offset + n /\ recs' = recs
      /\ trunc["load"].at = "idle"
      /\ trunc' = IF CleanThreshold < offset'
                THEN [trunc EXCEPT !["load"] = File!TruncateCall(<<>>, <<>>)]
                ELSE trunc
    BY DEF File!LoadRows, File!MutexFree
<1>2. Len(recs) \in Nat /\ offset \in Nat /\ n \in 0 .. Len(recs) - offset
    BY DEF File!Greater, File!Lesser, FileTypes
<1> HIDE DEF n
<1>3. trunc'["load"].at \in {"idle", "read"}
    BY <1>1 DEF FileTypes, File!TruncateCall
<1>4. File!Backlog' = SubSeq(recs, (offset + n) + 1, Len(recs))
    BY <1>1, <1>3 DEF File!Backlog, File!Unread
<1> DEFINE m == offset + 1
<1> DEFINE k == offset + n
<1>5. /\ m \in 1 .. Len(recs) + 1 /\ k \in m - 1 .. Len(recs)
      /\ Len(recs) \in k .. Len(recs)
    BY <1>2
<1> HIDE DEF m, k
<1>6. SubSeq(recs, m, k) \o SubSeq(recs, k + 1, Len(recs)) = SubSeq(recs, m, Len(recs))
    BY <1>5, ConcatAdjacentSubSeq DEF FileTypes
<1>7. QED
    BY <1>1, <1>4, <1>6 DEF m, k, File!Unread

(* A write at the end of the file appends to what is unread.                 *)
LEMMA StoreQueue ==
    ASSUME FileTypes, FileInv, trunc["load"].at = "idle",
           NEW b \in Seq(Requests), File!Write(b), UNCHANGED <<offset, trunc>>
    PROVE  /\ File!Backlog' = File!Backlog \o b
           /\ pos' = Len(recs') /\ offset' <= Len(recs')
<1>1. pos = Len(recs) /\ offset <= Len(recs)
    BY DEF FileInv
<1>2. recs' = recs \o b /\ pos' = Len(recs') /\ Len(recs') = Len(recs) + Len(b)
    BY <1>1, WriteEnd
<1>3. File!Unread' = File!Unread \o b
    BY <1>1, <1>2, UnreadGrows
<1>4. offset' <= Len(recs')
    BY <1>1, <1>2 DEF FileTypes
<1>5. QED
    BY <1>2, <1>3, <1>4 DEF File!Backlog

(* A Truncate changes nothing of what is unread.                             *)
LEMMA TruncateQueue ==
    ASSUME FileTypes, FileInv, File!TruncateStep("load"), mpc' = mpc, mpc # "new"
    PROVE  FileInv' /\ File!Backlog' = File!Backlog
<1> DEFINE t == trunc["load"]
<1>0. /\ t \in TruncateState /\ trunc \in [{"load", "stop"} -> TruncateState]
      /\ recs \in Seq(Requests) /\ Len(recs) \in Nat
    BY DEF FileTypes
<1>1. CASE File!TruncateRead("load")
    <2>1. /\ t.at = "read" /\ trunc'["load"].at = "zero"
          /\ trunc'["load"].before = t.before /\ trunc'["load"].after = t.after
          /\ trunc'["load"].keep = File!Unread
          /\ UNCHANGED <<recs, offset, pos>>
        BY <1>0, <1>1 DEF File!TruncateRead, TruncateState
    <2>2. File!Unread' = File!Unread
        BY <2>1 DEF File!Unread
    <2>3. QED
        BY <2>1, <2>2 DEF FileInv, File!Backlog
<1>2. CASE File!TruncateZero("load")
    <2>1. /\ t.at = "zero" /\ trunc'["load"].at = "before"
          /\ trunc'["load"].before = t.before /\ trunc'["load"].after = t.after
          /\ trunc'["load"].keep = t.keep
          /\ recs' = <<>> /\ pos' = 0
        BY <1>0, <1>2 DEF File!TruncateZero, TruncateState
    <2>2. QED
        BY <2>1 DEF FileInv, File!Backlog
<1>3. CASE File!TruncateWrite("load")
    <2>1. PICK part \in {"before", "keep", "after"} :
              /\ t.at = part
              /\ File!Write(t[part])
              /\ trunc' = [trunc EXCEPT !["load"].at =
                   CASE part = "before" -> "keep" [] part = "keep" -> "after"
                     [] part = "after" -> "reset"]
        BY <1>3 DEF File!TruncateWrite
    <2>2. /\ trunc'["load"].before = t.before /\ trunc'["load"].after = t.after
          /\ trunc'["load"].keep = t.keep
          /\ trunc'["load"].at = CASE part = "before" -> "keep" [] part = "keep" -> "after"
                 [] part = "after" -> "reset"
        BY <1>0, <2>1 DEF TruncateState
    <2>3. /\ t[part] \in Seq(Requests) /\ t.keep \in Seq(Requests)
          /\ pos = Len(recs) /\ t.before = <<>> /\ t.after = <<>>
        BY <1>0, <2>1 DEF TruncateState, FileInv
    <2>4. recs' = recs \o t[part] /\ pos' = Len(recs')
        BY <2>1, <2>3, WriteEnd
    <2>5. CASE part = "before"
        <3>1. recs' = <<>>
            BY <2>1, <2>3, <2>4, <2>5 DEF FileInv
        <3>2. QED
            BY <2>1, <2>2, <2>3, <2>4, <2>5, <3>1 DEF FileInv, File!Backlog
    <2>6. CASE part = "keep"
        <3>1. recs = <<>> /\ recs' = recs \o t.keep
            BY <2>1, <2>4, <2>6 DEF FileInv
        <3>2. recs' = t.keep
            BY <2>3, <3>1, ConcatEmpty
        <3>3. QED
            BY <2>1, <2>2, <2>3, <2>4, <2>6, <3>2 DEF FileInv, File!Backlog
    <2>7. CASE part = "after"
        <3>1. recs = t.keep /\ recs' = recs \o <<>>
            BY <2>1, <2>3, <2>4, <2>7 DEF FileInv
        <3>2. recs' = t.keep
            BY <2>3, <3>1, ConcatEmpty
        <3>3. QED
            BY <2>1, <2>2, <2>3, <2>4, <2>7, <3>2 DEF FileInv, File!Backlog
    <2>8. QED
        BY <2>5, <2>6, <2>7
<1>4. CASE File!TruncateReset("load")
    <2>1. /\ t.at = "reset" /\ trunc'["load"] = File!Idle
          /\ recs' = recs /\ pos' = pos /\ offset' = 0
        BY <1>0, <1>4 DEF File!TruncateReset
    <2>2. trunc'["load"].at = "idle"
        BY <2>1, IdleType
    <2>3. File!Unread' = recs
        BY <1>0, <2>1, SubSeqFull DEF File!Unread
    <2>4. QED
        BY <1>0, <2>1, <2>2, <2>3 DEF FileInv, File!Backlog
<1>5. QED
    BY <1>1, <1>2, <1>3, <1>4 DEF File!TruncateStep
-----------------------------------------------------------------------------
LEMMA SameFile ==
    ASSUME FileInv, UNCHANGED <<recs, offset, pos, trunc>>, mpc' = "new" => mpc = "new"
    PROVE  FileInv' /\ File!Backlog' = File!Backlog
BY DEF FileInv, File!Backlog, File!Unread

LEMMA LoadStep ==
    ASSUME FileTypes, FileInv, FitsInOneRead, loaded = <<>>, mpc' # "new",
           NEW rows \in Nat, File!LoadRows(rows)
    PROVE  FileInv' /\ loaded' \o File!Backlog' = loaded \o File!Backlog
<1>1. /\ trunc["load"].at = "idle" /\ recs' = recs
      /\ trunc' = IF CleanThreshold < offset'
                THEN [trunc EXCEPT !["load"] = File!TruncateCall(<<>>, <<>>)]
                ELSE trunc
    BY DEF File!LoadRows, File!MutexFree
<1>2. offset <= Len(recs)
    BY <1>1 DEF FileInv
<1>3. pos' = Len(recs') /\ offset' <= Len(recs')
    BY <1>2, LoadRowsEnd
<1>4. \/ trunc'["load"].at = "idle"
      \/ trunc'["load"].at = "read" /\ trunc'["load"].before = <<>>
         /\ trunc'["load"].after = <<>>
    BY <1>1 DEF FileTypes, File!TruncateCall
<1>5. FileInv'
    BY <1>3, <1>4 DEF FileInv
<1>6. File!Unread = loaded' \o File!Backlog'
    BY <1>2, LoadRowsQueue
<1>7. loaded \o File!Backlog = File!Unread
    BY <1>1, UnreadAllType, ConcatEmpty DEF File!Backlog
<1>8. QED
    BY <1>5, <1>6, <1>7

LEMMA NotStopped ==
    ASSUME Inv, [Next]_vars, ~Stopping', process' = process
    PROVE  ~Stopping /\ ~Restart /\ ~Stop /\ (lpc # "off" => mpc = "up" /\ open)
<1>0. JobTypes /\ ThreadTypes /\ StartInv
    BY DEF Inv
<1>1. ~Restart
    <2>1. process \in Nat
        BY <1>0, Bounds DEF JobTypes
    <2>2. process' # process + 1
        BY <2>1
    <2>3. QED
        BY <2>2 DEF Restart
<1>2. ~Stop
    BY <1>0 DEF Stop, StopCalled, StopSurplus, StopTruncate, StopTruncating, StopPanics,
       StopClose, Stopping, mainVars
<1>3. ~Stopping
    <2>1. CASE Start
        BY <2>1 DEF Start, StartOpen, StartLoad, StartFill, Stopping
    <2>2. CASE ~Start
        <3>1. mpc' = mpc
            BY <1>1, <1>2, <2>2
               DEF Next, vars, mainVars, Add, AddToRing, AddToTmp, LoopReport, TryLoadData,
                   LoopCheck, LoopCurrent, ReportOK, ReportFails, LoopDequeue, TryFull,
                   TryLoad, TryMove, TryPanics, LoadTruncate
        <3>2. QED
            BY <3>1 DEF Stopping
    <2>3. QED
        BY <2>1, <2>2
<1>4. lpc # "off" => mpc = "up" /\ open
    BY <1>0, <1>3 DEF ThreadTypes, StartInv, Stopping, NotUp
<1>5. QED
    BY <1>1, <1>2, <1>3, <1>4

(* While Stop was not called, and as long as reads do not fail and a         *)
(* Truncate is not cut short, the file and the rows just loaded are a queue. *)
LEMMA FileStep ==
    ASSUME Inv, FileInv, FitsInOneRead, [Next]_vars, ~Stopping', process' = process,
           faults' = faults \/ (~ReadsFail /\ trunc["load"].at = "idle")
    PROVE  /\ FileInv'
           /\ Add \/ TryMove \/ StartFill
                  \/ loaded' \o File!Backlog' = loaded \o File!Backlog
<1>0. /\ FileTypes /\ JobTypes /\ ThreadTypes
      /\ StartInv /\ LoadInv /\ faults \in Nat
    BY DEF Inv, FileTypes
<1>1. ~Restart
    BY NotStopped
<1>2. ~Stop
    BY NotStopped
<1>3. ~Stopping
    BY NotStopped
<1>4. lpc # "off" => mpc = "up" /\ open
    BY NotStopped
<1>5. trunc["load"].at # "idle" => open /\ faults' = faults /\ mpc # "new" /\ Loading
    BY <1>0, <1>4 DEF LoadInv, Loading, StartInv
<1>6. CASE StartOpen
    <2>1. mpc = "new" /\ UNCHANGED <<recs, offset, trunc, loaded>> /\ pos' \in {0, pos}
          /\ mpc' # "new"
        BY <1>6 DEF StartOpen, File!OpenFile, File!OpenFails
    <2>2. recs = <<>> /\ pos' = Len(recs) /\ trunc["load"].at = "idle"
        BY <1>5, <2>1 DEF FileInv
    <2>3. QED
        BY <1>3, <2>1, <2>2 DEF FileInv, File!Backlog, File!Unread
<1>7. CASE StartLoad \/ TryLoad
    <2>1. PICK rows \in Nat : File!LoadRows(rows) \/ File!LoadFails(rows)
        <3>1. BufLen \in Nat
            BY Bounds
        <3>2. SurplusCount \in Nat
            BY <1>0, Bounds DEF SurplusCount, JobTypes
        <3>3. QED
            BY <1>7, <3>1, <3>2 DEF StartLoad, TryLoad
    <2>2. open /\ loaded = <<>> /\ mpc' # "new"
        BY <1>0, <1>4, <1>7 DEF StartLoad, TryLoad, StartInv, LoadInv, Loading, mainVars
    <2>3. ~File!LoadFails(rows)
        <3>1. faults' # faults + 1
              \/ ~ReadsFail
            BY <1>0
        <3>2. File!LoadFails(rows) => ReadsFail /\ faults' = faults + 1
            BY <2>2 DEF File!LoadFails, File!Fault
        <3>3. QED
            BY <3>1, <3>2
    <2>4. QED
        BY <1>0, <1>3, <2>1, <2>2, <2>3, LoadStep
<1>8. CASE AddToTmp
    <2>1. next <= MaxRequests /\ mpc' = mpc
        BY <1>8 DEF AddToTmp, Adds, mainVars
    <2>2. Batch \in Seq(Requests)
        BY <2>1, BatchType
    <2>3. CASE UNCHANGED fileVars
        BY <1>3, <1>8, <2>1, <2>3, SameFile DEF fileVars, Add
    <2>4. ASSUME NEW b \in Seq(Requests), File!Write(b), UNCHANGED <<offset, trunc>>,
                 trunc["load"].at = "idle", open
          PROVE  FileInv'
        <3>1. pos' = Len(recs') /\ offset' <= Len(recs')
            BY <1>0, <2>4, StoreQueue
        <3>2. QED
            BY <1>0, <2>1, <2>4, <3>1 DEF FileInv, StartInv
    <2>5. CASE File!Store(Batch)
        BY <1>3, <1>8, <2>2, <2>4, <2>5 DEF File!Store, File!MutexFree, Add
    <2>6. CASE File!StoreFails(Batch)
        <3>1. CASE ~open
            BY <1>3, <1>8, <2>1, <2>6, <3>1, SameFile DEF File!StoreFails, Add
        <3>2. CASE open
            <4>1. PICK k \in 0 .. Len(Batch) - 1 : File!Write(SubSeq(Batch, 1, k))
                BY <2>6, <3>2 DEF File!StoreFails
            <4>2. SubSeq(Batch, 1, k) \in Seq(Requests)
                BY <2>2
            <4>3. QED
                BY <1>3, <1>8, <2>4, <2>6, <3>2, <4>1, <4>2
                   DEF File!StoreFails, File!MutexFree, Add
        <3>3. QED
            BY <3>1, <3>2
    <2>7. QED
        BY <1>8, <2>3, <2>5, <2>6 DEF AddToTmp, fileVars
<1>9. CASE TryPanics
    <2>1. trunc["load"].at = "read" /\ offset > Len(recs)
        BY <1>9 DEF TryPanics, File!TruncatePanics
    <2>2. QED
        BY <1>0, <2>1 DEF FileInv, FileTypes
<1>10. CASE LoadTruncate
    <2>1. mpc' = mpc /\ trunc["load"].at # "idle"
        BY <1>0, <1>10, TruncateTypes DEF LoadTruncate, mainVars
    <2>2. ~File!TruncateFails("load")
        BY <1>0, <1>5, <2>1 DEF File!TruncateFails, File!Fault
    <2>3. File!TruncateStep("load")
        BY <1>10, <2>2 DEF LoadTruncate
    <2>4. loaded' = loaded
        BY <2>3 DEF File!TruncateStep, File!TruncateRead, File!TruncateZero,
           File!TruncateWrite, File!TruncateReset
    <2>5. QED
        BY <1>0, <1>3, <1>5, <2>1, <2>3, <2>4, TruncateQueue
<1>11. CASE UNCHANGED <<recs, offset, pos, trunc>> /\ (mpc' = "new" => mpc = "new")
            /\ (UNCHANGED loaded \/ AddToRing \/ TryMove \/ StartFill)
    BY <1>3, <1>11, SameFile DEF Add
<1>12. QED
    BY <1>1, <1>2, <1>6, <1>7, <1>8, <1>9, <1>10, <1>11
       DEF Next, vars, fileVars, mainVars, Start, Add, LoopReport, TryLoadData, StartFill,
           AddToRing, LoopCheck, LoopCurrent, ReportOK, ReportFails, LoopDequeue, TryFull,
           TryMove
-----------------------------------------------------------------------------
(* Where a request is that was accepted, if nothing failed: once at most,    *)
(* and what waits for the ring is in the order in which it was accepted.     *)
Accepted == 1 .. next - 1

(* What is in the ring and was not received yet.                             *)
Pending == IF lpc = "dequeue" THEN Tail(ring) ELSE ring

OrderInv ==
    /\ Increasing(Waiting) /\ ToSet(Waiting) \subseteq Accepted
    /\ Disjoint(ToSet(Waiting), ToSet(Pending))
    /\ Disjoint(ToSet(Waiting), ToSet(delivered))

Clean == faults = 0 /\ process = 1
Delivering == ~Stopping \/ lpc \in {"current", "report", "dequeue"}

(* After Stop was called the loop delivers one more request at most.         *)
OnceInv ==
    /\ Stopping => ~isRunnable
    /\ IsInjective(delivered) /\ ToSet(delivered) \subseteq Accepted
    /\ Delivering =>
           /\ IsInjective(Pending) /\ ToSet(Pending) \subseteq Accepted
           /\ Disjoint(ToSet(Pending), ToSet(delivered))

CleanInv ==
    Clean => /\ ~Stopping => FileInv /\ OrderInv
             /\ OnceInv

LEMMA CleanInit == Init => CleanInv
<1> SUFFICES ASSUME Init PROVE CleanInv
    OBVIOUS
<1>1. /\ mpc = "new" /\ lpc = "off" /\ ring = <<>> /\ tmp = <<>> /\ loaded = <<>>
      /\ delivered = <<>> /\ recs = <<>> /\ offset = 0 /\ pos = 0
      /\ trunc = [c \in {"load", "stop"} |-> File!Idle]
    BY DEF Init, File!Init, File!Callers
<1>2. trunc["load"].at = "idle" /\ Len(recs) = 0
    BY <1>1, IdleType
<1>3. File!Backlog = <<>>
    BY <1>1, <1>2 DEF File!Backlog, File!Unread
<1>4. FileInv
    BY <1>1, <1>2 DEF FileInv
<1>5. Waiting = <<>> /\ Pending = <<>> /\ ~Stopping
    <2>1. <<>> \o <<>> = <<>>
        BY ConcatEmpty, EmptySeq
    <2>2. QED
        BY <1>1, <1>3, <2>1 DEF Waiting, Pending, Stopping
<1>6. Increasing(<<>>) /\ IsInjective(<<>>) /\ ToSet(<<>>) = {}
    BY ToSetEmpty DEF Increasing, IsInjective
<1>7. QED
    BY <1>1, <1>4, <1>5, <1>6 DEF CleanInv, OrderInv, OnceInv, Disjoint

(* What moves from the front of two increasing sequences leaves the rest     *)
(* increasing, and has nothing in common with it.                            *)
LEMMA MoveOrder ==
    ASSUME NEW a \in Seq(Nat), NEW b \in Seq(Nat), NEW m \in Seq(Nat), NEW l \in Seq(Nat),
           Increasing((a \o b) \o (m \o l))
    PROVE  /\ a \o m \in Seq(Nat) /\ b \o l \in Seq(Nat)
           /\ Increasing(b \o l) /\ IsInjective(a \o m)
           /\ Disjoint(ToSet(a \o m), ToSet(b \o l))
           /\ ToSet(a \o m) \subseteq ToSet((a \o b) \o (m \o l))
           /\ ToSet(b \o l) \subseteq ToSet((a \o b) \o (m \o l))
           /\ ToSet(a \o m) = ToSet(a) \cup ToSet(m)
           /\ ToSet(b \o l) = ToSet(b) \cup ToSet(l)
<1>1. ASSUME NEW s \in Seq(Nat), NEW t \in Seq(Nat)
      PROVE  /\ s \o t \in Seq(Nat) /\ ToSet(s \o t) = ToSet(s) \cup ToSet(t)
             /\ Increasing(s \o t) <=> Increasing(s) /\ Increasing(t) /\ Precedes(s, t)
    BY <1>1, ConcatProperties, ToSetConcat, IncreasingConcat
<1> DEFINE ab == a \o b
<1> DEFINE ml == m \o l
<1> DEFINE all == ab \o ml
<1> DEFINE am == a \o m
<1> DEFINE bl == b \o l
<1>2. /\ ab \in Seq(Nat) /\ ToSet(ab) = ToSet(a) \cup ToSet(b)
      /\ ml \in Seq(Nat) /\ ToSet(ml) = ToSet(m) \cup ToSet(l)
      /\ am \in Seq(Nat) /\ ToSet(am) = ToSet(a) \cup ToSet(m)
      /\ bl \in Seq(Nat) /\ ToSet(bl) = ToSet(b) \cup ToSet(l)
      /\ Increasing(ab) <=> Increasing(a) /\ Increasing(b) /\ Precedes(a, b)
      /\ Increasing(ml) <=> Increasing(m) /\ Increasing(l) /\ Precedes(m, l)
      /\ Increasing(am) <=> Increasing(a) /\ Increasing(m) /\ Precedes(a, m)
      /\ Increasing(bl) <=> Increasing(b) /\ Increasing(l) /\ Precedes(b, l)
    BY <1>1
<1> HIDE DEF ab, ml, am, bl
<1>3. /\ ToSet(all) = ToSet(ab) \cup ToSet(ml)
      /\ Increasing(ab) /\ Increasing(ml) /\ Precedes(ab, ml)
    <2>1. Increasing(ab \o ml)
        BY DEF ab, ml
    <2>2. QED
        BY <1>1, <1>2, <2>1
<1> HIDE DEF all
<1>4. Precedes(a, m) /\ Precedes(b, l) /\ Precedes(a, l) /\ Precedes(b, m)
    BY <1>2, <1>3 DEF Precedes
<1>5. Increasing(bl) /\ Increasing(am)
    BY <1>2, <1>3, <1>4
<1>6. ASSUME NEW s \in Seq(Nat), NEW t \in Seq(Nat), Precedes(s, t)
      PROVE  ToSet(s) \cap ToSet(t) = {}
    <2> SUFFICES ASSUME NEW x \in ToSet(s), x \in ToSet(t) PROVE FALSE
        OBVIOUS
    <2>1. x \in Nat /\ x < x
        BY <1>6, ToSetType DEF Precedes
    <2>2. QED
        BY <2>1
<1>7. /\ ToSet(a) \cap ToSet(b) = {} /\ ToSet(a) \cap ToSet(l) = {}
      /\ ToSet(b) \cap ToSet(m) = {} /\ ToSet(m) \cap ToSet(l) = {}
    BY <1>2, <1>3, <1>4, <1>6
<1>8. Disjoint(ToSet(am), ToSet(bl))
    BY <1>2, <1>7 DEF Disjoint
<1>9. IsInjective(am)
    BY <1>2, <1>5, IncreasingInjective
<1>10. QED
    BY <1>2, <1>3, <1>5, <1>8, <1>9 DEF ab, ml, am, bl, all

(* Sequences of requests are sequences of numbers.                           *)
LEMMA RequestsNat ==
    ASSUME NEW s \in Seq(Requests)
    PROVE  s \in Seq(Nat) /\ ToSet(s) \subseteq Nat
<1>1. Requests \subseteq Nat
    BY Bounds DEF Requests
<1>2. QED
    BY <1>1, SeqMonotonic, ToSetType

LEMMA AcceptedGrows ==
    ASSUME next \in Nat, next' \in {next, next + 1}
    PROVE  Accepted \subseteq Accepted' /\ next \notin Accepted
<1>1. PICK n \in Nat : n = next' /\ next <= n
    OBVIOUS
<1>2. ASSUME NEW i \in Nat, NEW j \in Nat, i <= j PROVE 1 .. i - 1 \subseteq 1 .. j - 1
    BY <1>2
<1>3. 1 .. next - 1 \subseteq 1 .. n - 1
    BY <1>1, <1>2
<1>4. next \notin 1 .. next - 1
    OBVIOUS
<1>5. QED
    BY <1>1, <1>3, <1>4 DEF Accepted

LEMMA OrderSame ==
    ASSUME Inv, OrderInv, Waiting' = Waiting, next' \in {next, next + 1},
           ToSet(Pending') \cup ToSet(delivered')
               \subseteq ToSet(Pending) \cup ToSet(delivered) \cup {next}
    PROVE  OrderInv'
<1>1. next \in Nat
    BY WaitingType
<1>2. Accepted \subseteq Accepted' /\ next \notin Accepted
    BY <1>1, AcceptedGrows
<1>3. QED
    BY <1>2 DEF OrderInv, Disjoint

(* The next request waits behind all that was accepted.                      *)
LEMMA OrderAppend ==
    ASSUME Inv, OrderInv, Waiting' = Waiting \o <<next>>, next' = next + 1,
           ToSet(Pending) \cup ToSet(delivered) \subseteq Accepted,
           UNCHANGED <<Pending, delivered>>
    PROVE  OrderInv'
<1>1. next \in Nat /\ Waiting \in Seq(Nat)
    BY WaitingType, RequestsNat
<1>2. Accepted \subseteq Accepted' /\ next \notin Accepted /\ next \in Accepted'
    BY <1>1, WaitingType DEF Accepted
<1> DEFINE u == <<next>>
<1>3. u \in Seq(Nat) /\ ToSet(u) = {next} /\ Increasing(u)
    BY <1>1, Single
<1> HIDE DEF u
<1>4. Precedes(Waiting, u)
    BY <1>1, <1>3 DEF OrderInv, Precedes, Accepted
<1>5. Increasing(Waiting \o u) /\ ToSet(Waiting \o u) = ToSet(Waiting) \cup {next}
    BY <1>1, <1>3, <1>4, IncreasingConcat, ToSetConcat DEF OrderInv
<1>6. Waiting' = Waiting \o u
    BY DEF u
<1>7. QED
    BY <1>2, <1>5, <1>6 DEF OrderInv, Disjoint

(* What Add appends to tmp, whether it stays there or goes to the file.      *)
LEMMA WaitingGrows ==
    ASSUME Inv, next <= MaxRequests
    PROVE  /\ (loaded \o File!Backlog) \o Batch = Waiting \o <<next>>
           /\ (loaded \o (File!Backlog \o Batch)) \o <<>> = Waiting \o <<next>>
<1> DEFINE S == Requests
<1> DEFINE b == File!Backlog
<1> DEFINE u == <<next>>
<1>1. loaded \in Seq(S) /\ b \in Seq(S) /\ tmp \in Seq(S) /\ Batch \in Seq(S) /\ next \in S
    BY WaitingType, BatchType
<1>2. Batch = tmp \o u /\ u \in Seq(S)
    BY <1>1, AppendIsConcat DEF Batch
<1> HIDE DEF b, u, S
<1>3. loaded \o b \in Seq(S) /\ b \o Batch \in Seq(S)
    BY <1>1, ConcatProperties
<1>4. (loaded \o b) \o (tmp \o u) = ((loaded \o b) \o tmp) \o u
    <2> DEFINE front == loaded \o b
    <2>1. front \in Seq(S)
        BY <1>3
    <2> HIDE DEF front
    <2>2. front \o (tmp \o u) = (front \o tmp) \o u
        <3>1. ASSUME NEW r \in Seq(S), NEW s \in Seq(S), NEW t \in Seq(S)
              PROVE  r \o (s \o t) = (r \o s) \o t
            BY <3>1, ConcatAssociative, SMTT(30)
        <3>2. QED
            BY <1>1, <1>2, <2>1, <3>1, SMTT(30)
    <2>3. QED
        BY <2>2 DEF front
<1>5. loaded \o (b \o Batch) = (loaded \o b) \o Batch
    BY <1>1, ConcatAssociative
<1>6. (loaded \o (b \o Batch)) \o <<>> = loaded \o (b \o Batch)
    BY <1>1, <1>3, ConcatProperties, ConcatEmpty
<1>7. QED
    BY <1>2, <1>4, <1>5, <1>6 DEF b, u, Waiting

(* Steps that leave what is pending and what was delivered.                  *)
LEMMA OnceSame ==
    ASSUME Inv, OnceInv, UNCHANGED <<Pending, delivered>>, next' \in {next, next + 1},
           Delivering' => Delivering, Stopping' => ~isRunnable'
    PROVE  OnceInv'
<1>1. next \in Nat
    BY WaitingType
<1>2. Accepted \subseteq Accepted'
    BY <1>1, AcceptedGrows
<1>3. QED
    BY <1>2 DEF OnceInv

LEMMA NatAssociative ==
    ASSUME NEW r \in Seq(Nat), NEW s \in Seq(Nat), NEW t \in Seq(Nat)
    PROVE  (r \o s) \o t = r \o (s \o t)
BY ConcatAssociative, SMTT(30)

(* The loaded rows and the front of tmp join what is pending.                *)
LEMMA MoveStep ==
    ASSUME Inv, OrderInv, OnceInv, ~Stopping, lpc # "dequeue", lpc' # "dequeue",
           ~Stopping', NEW n \in 0 .. Len(tmp),
           ring' = (ring \o loaded) \o SubSeq(tmp, 1, n),
           tmp' = SubSeq(tmp, n + 1, Len(tmp)), loaded' = <<>>,
           File!Backlog' = File!Backlog, UNCHANGED <<delivered, next>>
    PROVE  OrderInv' /\ OnceInv'
<1> DEFINE b == File!Backlog
<1> DEFINE m == SubSeq(tmp, 1, n)
<1> DEFINE l == SubSeq(tmp, n + 1, Len(tmp))
<1>1. /\ loaded \in Seq(Requests) /\ b \in Seq(Requests)
      /\ tmp \in Seq(Requests) /\ ring \in Seq(Requests)
    BY WaitingType
<1>2. m \in Seq(Requests) /\ l \in Seq(Requests) /\ tmp = m \o l
    BY <1>1, Split
<1>3. Pending = ring /\ Pending' = ring'
    BY DEF Pending
<1>4. Waiting = (loaded \o b) \o tmp /\ Waiting' = (<<>> \o b) \o l
    BY DEF Waiting
<1> HIDE DEF b, m, l
<1>5. /\ loaded \in Seq(Nat) /\ b \in Seq(Nat) /\ m \in Seq(Nat) /\ l \in Seq(Nat)
      /\ ring \in Seq(Nat)
    BY <1>1, <1>2, RequestsNat
<1>6. Waiting = (loaded \o b) \o (m \o l) /\ Waiting' = b \o l
    BY <1>2, <1>4, <1>5, ConcatEmpty
<1>7. Increasing((loaded \o b) \o (m \o l))
    BY <1>6 DEF OrderInv
<1>8. /\ loaded \o m \in Seq(Nat) /\ b \o l \in Seq(Nat)
      /\ Increasing(b \o l) /\ IsInjective(loaded \o m)
      /\ Disjoint(ToSet(loaded \o m), ToSet(b \o l))
      /\ ToSet(loaded \o m) \subseteq ToSet(Waiting)
      /\ ToSet(b \o l) \subseteq ToSet(Waiting)
    BY <1>5, <1>6, <1>7, MoveOrder
<1> DEFINE moved == loaded \o m
<1>9. (ring \o loaded) \o m = ring \o moved
    BY <1>5, NatAssociative
<1> HIDE DEF moved
<1>10. /\ moved \in Seq(Nat) /\ IsInjective(moved) /\ ToSet(moved) \subseteq ToSet(Waiting)
       /\ Disjoint(ToSet(moved), ToSet(Waiting'))
       /\ Increasing(Waiting') /\ ToSet(Waiting') \subseteq ToSet(Waiting)
    BY <1>6, <1>8 DEF moved
<1>11. Pending' = Pending \o moved
    BY <1>3, <1>9 DEF m
<1>12. ToSet(Pending') = ToSet(Pending) \cup ToSet(moved)
    <2>1. Pending \in Seq(Nat) /\ moved \in Seq(Nat)
        BY <1>3, <1>5, <1>10
    <2>2. ToSet(Pending \o moved) = ToSet(Pending) \cup ToSet(moved)
        BY <2>1, ToSetConcat
    <2>3. QED
        BY <1>11, <2>2
<1>13. /\ IsInjective(Pending) /\ ToSet(Pending) \subseteq Accepted
       /\ Disjoint(ToSet(Pending), ToSet(delivered))
       /\ Disjoint(ToSet(Waiting), ToSet(Pending))
       /\ Disjoint(ToSet(Waiting), ToSet(delivered))
       /\ ToSet(Waiting) \subseteq Accepted /\ Accepted' = Accepted
    BY DEF OnceInv, OrderInv, Delivering, Accepted
<1>14. OrderInv'
    BY <1>10, <1>12, <1>13 DEF OrderInv, Disjoint
<1>15. IsInjective(Pending')
    <2>1. Disjoint(ToSet(Pending), ToSet(moved))
        BY <1>10, <1>13 DEF Disjoint
    <2>2. Pending \in Seq(Nat) /\ moved \in Seq(Nat)
        BY <1>3, <1>5, <1>10
    <2>3. IsInjective(Pending \o moved)
        BY <1>10, <1>13, <2>1, <2>2, InjectiveConcat
    <2>4. QED
        BY <1>11, <2>3
<1>16. OnceInv'
    <2>1. ToSet(Pending') \subseteq Accepted' /\ Disjoint(ToSet(Pending'), ToSet(delivered'))
        BY <1>10, <1>12, <1>13 DEF Disjoint
    <2>2. IsInjective(delivered') /\ ToSet(delivered') \subseteq Accepted'
        BY <1>13 DEF OnceInv
    <2>3. QED
        BY <1>15, <2>1, <2>2 DEF OnceInv
<1>17. QED
    BY <1>14, <1>16

LEMMA PendingType ==
    ASSUME Inv
    PROVE  /\ Pending \in Seq(Nat) /\ delivered \in Seq(Nat) /\ req \in Nat
           /\ lpc \in {"report", "dequeue"} =>
                  /\ ring # <<>> /\ Tail(ring) \in Seq(Nat)
                  /\ ring = <<req>> \o Tail(ring)
<1>1. ring \in Seq(Requests) /\ delivered \in Seq(Requests) /\ LoopInv /\ req \in Requests
    BY DEF Inv, JobTypes, ThreadTypes
<1>2. ring \in Seq(Nat) /\ delivered \in Seq(Nat) /\ req \in Nat
    BY <1>1, RequestsNat, Bounds DEF Requests
<1>3. lpc \in {"report", "dequeue"} =>
          ring # <<>> /\ Tail(ring) \in Seq(Nat) /\ ring = <<req>> \o Tail(ring)
    BY <1>1, <1>2, ToSetTail DEF LoopInv
<1>4. QED
    BY <1>2, <1>3 DEF Pending

(* A request added to the ring.                                              *)
LEMMA OnceAdd ==
    ASSUME Inv, OnceInv, AddToRing
    PROVE  OnceInv' /\ ToSet(Pending') = ToSet(Pending) \cup {next}
<1>1. /\ next \in Nat /\ next \in Requests /\ next' = next + 1
      /\ ring \in Seq(Requests) /\ Pending \in Seq(Nat)
      /\ lpc = "dequeue" => ring # <<>>
    BY WaitingType, BatchType, PendingType DEF AddToRing, Adds
<1>2. ring' = Append(ring, next) /\ UNCHANGED <<lpc, mpc, delivered, isRunnable>>
    BY DEF AddToRing, mainVars, loopVars
<1> DEFINE u == <<next>>
<1>3. Pending' = Pending \o u
    <2>1. CASE lpc = "dequeue"
        <3>1. Tail(ring) \in Seq(Requests)
            BY <1>1, <2>1, HeadTailProperties
        <3>2. Tail(Append(ring, next)) = Append(Tail(ring), next)
            BY <1>1, <2>1, HeadTailAppend
        <3>3. QED
            BY <1>1, <1>2, <2>1, <3>1, <3>2, AppendIsConcat DEF Pending
    <2>2. CASE lpc # "dequeue"
        BY <1>1, <1>2, <2>2, AppendIsConcat DEF Pending
    <2>3. QED
        BY <2>1, <2>2
<1>4. u \in Seq(Nat) /\ ToSet(u) = {next} /\ IsInjective(u)
    BY <1>1, Single
<1> HIDE DEF u
<1>5. ToSet(Pending') = ToSet(Pending) \cup {next}
    BY <1>1, <1>3, <1>4, ToSetConcat
<1>6. Accepted \subseteq Accepted' /\ next \notin Accepted /\ next \in Accepted'
    <2>1. next \in 1 .. (next + 1) - 1
        BY <1>1, WaitingType
    <2>2. QED
        BY <1>1, <2>1, AcceptedGrows DEF Accepted
<1>7. Delivering' = Delivering /\ Stopping' = Stopping
    BY <1>2 DEF Delivering, Stopping
<1>8. ASSUME Delivering
      PROVE  /\ IsInjective(Pending') /\ ToSet(Pending') \subseteq Accepted'
             /\ Disjoint(ToSet(Pending'), ToSet(delivered))
    <2>1. /\ IsInjective(Pending) /\ ToSet(Pending) \subseteq Accepted
          /\ Disjoint(ToSet(Pending), ToSet(delivered)) /\ ToSet(delivered) \subseteq Accepted
        BY <1>8 DEF OnceInv
    <2>2. Disjoint(ToSet(Pending), ToSet(u))
        BY <1>4, <1>6, <2>1 DEF Disjoint
    <2>3. IsInjective(Pending')
        BY <1>1, <1>3, <1>4, <2>1, <2>2, InjectiveConcat
    <2>4. QED
        BY <1>5, <1>6, <2>1, <2>3 DEF Disjoint
<1>9. OnceInv'
    BY <1>2, <1>6, <1>7, <1>8 DEF OnceInv
<1>10. QED
    BY <1>5, <1>9

(* The head of the ring goes to creport.                                     *)
LEMMA OnceReport ==
    ASSUME Inv, OnceInv, ReportOK
    PROVE  /\ OnceInv'
           /\ ToSet(Pending') \cup ToSet(delivered')
                  \subseteq ToSet(Pending) \cup ToSet(delivered)
<1>1. /\ lpc = "report" /\ lpc' = "dequeue" /\ delivered' = Append(delivered, req)
      /\ UNCHANGED <<ring, next, mpc, isRunnable>>
    BY DEF ReportOK, jobVars, mainVars
<1> DEFINE t == Tail(ring)
<1> DEFINE u == <<req>>
<1>2. /\ t \in Seq(Nat) /\ ring = u \o t /\ Pending = ring /\ Pending' = t
      /\ delivered \in Seq(Nat) /\ req \in Nat
    BY <1>1, PendingType DEF Pending
<1>3. u \in Seq(Nat) /\ ToSet(u) = {req} /\ IsInjective(u) /\ delivered' = delivered \o u
    BY <1>1, <1>2, Single, AppendIsConcat
<1> HIDE DEF t, u
<1>4. /\ ToSet(Pending) = {req} \cup ToSet(t)
      /\ ToSet(delivered') = ToSet(delivered) \cup {req}
    BY <1>2, <1>3, ToSetConcat
<1>5. /\ IsInjective(u \o t) /\ ToSet(Pending) \subseteq Accepted
      /\ Disjoint(ToSet(Pending), ToSet(delivered)) /\ IsInjective(delivered)
      /\ ToSet(delivered) \subseteq Accepted
    BY <1>1, <1>2 DEF OnceInv, Delivering
<1>6. IsInjective(t) /\ Disjoint({req}, ToSet(t))
    BY <1>2, <1>3, <1>5, InjectiveConcat
<1>7. IsInjective(delivered')
    <2>1. Disjoint(ToSet(delivered), ToSet(u))
        BY <1>3, <1>4, <1>5 DEF Disjoint
    <2>2. QED
        BY <1>2, <1>3, <1>5, <2>1, InjectiveConcat
<1>8. Disjoint(ToSet(t), ToSet(delivered'))
    BY <1>4, <1>5, <1>6 DEF Disjoint
<1>9. Accepted' = Accepted /\ Stopping' = Stopping
    BY <1>1 DEF Accepted, Stopping
<1>10. OnceInv'
    BY <1>1, <1>2, <1>4, <1>5, <1>6, <1>7, <1>8, <1>9 DEF OnceInv
<1>11. QED
    BY <1>2, <1>4, <1>10

LEMMA ProcessStays ==
    ASSUME Inv, [Next]_vars, process' = 1
    PROVE  process' = process /\ ~Restart
<1>1. ~Restart
    <2>1. process \in Nat \ {0}
        BY Bounds DEF Inv, JobTypes
    <2>2. process' # process + 1
        BY <2>1
    <2>3. QED
        BY <2>2 DEF Restart
<1>2. QED
    BY <1>1 DEF Next, vars, Start, Add, LoopReport, TryLoadData, Stop,
       StartOpen, StartLoad, StartFill, AddToRing, AddToTmp, LoopCheck, LoopCurrent,
       ReportOK, ReportFails, LoopDequeue, TryFull, TryLoad, TryMove, TryPanics,
       LoadTruncate, StopCalled, StopSurplus, StopTruncate, StopTruncating,
       StopPanics, StopClose

LEMMA CleanStep ==
    ASSUME Inv, CleanInv, FitsInOneRead, [Next]_vars
    PROVE  CleanInv'
<1> SUFFICES ASSUME Clean'
             PROVE  (~Stopping' => FileInv' /\ OrderInv') /\ OnceInv'
    BY DEF CleanInv
<1>0. FileTypes /\ JobTypes /\ ThreadTypes /\ StartInv /\ LoadInv /\ LoopInv
    BY DEF Inv
<1>1. /\ faults = 0 /\ faults' = faults /\ process' = process /\ ~Restart
      /\ Clean
    BY FaultsGrow, ProcessStays DEF Clean
<1>2. OnceInv /\ (~Stopping => FileInv /\ OrderInv)
    BY <1>1 DEF CleanInv
<1>3. ASSUME ~Stopping'
      PROVE  /\ ~Stopping /\ ~Stop /\ OrderInv /\ FileInv /\ FileInv'
             /\ lpc # "off" => mpc = "up" /\ open
             /\ Add \/ TryMove \/ StartFill
                    \/ loaded' \o File!Backlog' = loaded \o File!Backlog
    <2>1. ~Stopping /\ ~Stop /\ (lpc # "off" => mpc = "up" /\ open)
        BY <1>1, <1>3, NotStopped
    <2>2. QED
        BY <1>1, <1>2, <1>3, <2>1, FileStep
<1>4. ASSUME Waiting' = Waiting, next' \in {next, next + 1},
             ToSet(Pending') \cup ToSet(delivered')
                 \subseteq ToSet(Pending) \cup ToSet(delivered) \cup {next},
             OnceInv'
      PROVE  (~Stopping' => FileInv' /\ OrderInv') /\ OnceInv'
    BY <1>3, <1>4, OrderSame
<1>5. CASE AddToRing
    <2>1. UNCHANGED <<loaded, recs, offset, trunc, tmp, delivered>> /\ next' = next + 1
        BY <1>5 DEF AddToRing, fileVars
    <2>2. Waiting' = Waiting
        BY <2>1 DEF Waiting, File!Backlog, File!Unread
    <2>3. QED
        BY <1>2, <1>4, <1>5, <2>1, <2>2, OnceAdd
<1>6. CASE AddToTmp
    <2>1. /\ UNCHANGED <<ring, lpc, mpc, delivered, isRunnable>> /\ next' = next + 1
          /\ next <= MaxRequests
        BY <1>6 DEF AddToTmp, Adds, mainVars, loopVars
    <2>2. Pending' = Pending /\ Delivering' = Delivering /\ Stopping' = Stopping
        BY <2>1 DEF Pending, Delivering, Stopping
    <2>3. OnceInv'
        BY <1>2, <2>1, <2>2, OnceSame DEF OnceInv
    <2>4. ASSUME ~Stopping' PROVE Waiting' = Waiting \o <<next>>
        <3>1. CASE tmp' = Batch /\ UNCHANGED <<recs, offset, trunc, loaded>>
            <4>1. Waiting' = (loaded \o File!Backlog) \o Batch
                BY <3>1 DEF Waiting, File!Backlog, File!Unread
            <4>2. QED
                BY <2>1, <4>1, WaitingGrows
        <3>2. CASE File!Store(Batch) /\ tmp' = <<>>
            <4>1. File!Backlog' = File!Backlog \o Batch /\ loaded' = loaded
                <5>1. Batch \in Seq(Requests)
                    BY <2>1, BatchType
                <5>2. QED
                    BY <1>0, <1>3, <2>4, <3>2, <5>1, StoreQueue DEF File!Store, File!MutexFree
            <4>2. Waiting' = (loaded \o (File!Backlog \o Batch)) \o <<>>
                BY <3>2, <4>1 DEF Waiting
            <4>3. QED
                BY <2>1, <4>2, WaitingGrows
        <3>3. CASE File!StoreFails(Batch) /\ tmp' = Batch
            <4>1. ~File!Fault
                BY <1>1 DEF File!Fault
            <4>2. UNCHANGED <<recs, offset, trunc, loaded>>
                BY <3>3, <4>1 DEF File!StoreFails
            <4>3. QED
                BY <3>1, <3>3, <4>2
        <3>4. QED
            BY <1>6, <3>1, <3>2, <3>3 DEF AddToTmp, fileVars
    <2>5. ASSUME ~Stopping' PROVE OrderInv'
        <3>1. ToSet(Pending) \cup ToSet(delivered) \subseteq Accepted
            BY <1>2, <1>3, <2>5 DEF OnceInv, Delivering
        <3>2. QED
            BY <1>3, <2>1, <2>2, <2>4, <2>5, <3>1, OrderAppend
    <2>6. QED
        BY <1>3, <2>3, <2>5
<1>7. CASE ReportOK
    <2>1. UNCHANGED <<loaded, recs, offset, trunc, tmp, next>>
        BY <1>7 DEF ReportOK, fileVars, jobVars
    <2>2. Waiting' = Waiting
        BY <2>1 DEF Waiting, File!Backlog, File!Unread
    <2>3. QED
        BY <1>2, <1>4, <1>7, <2>1, <2>2, OnceReport
<1>8. CASE TryMove \/ StartFill
    <2> DEFINE n == IF lpc = "move" THEN Moved ELSE 0
    <2>1. /\ UNCHANGED <<recs, offset, trunc, delivered, next, isRunnable>>
          /\ lpc' = "check" /\ lpc \in {"move", "off"}
          /\ trunc["load"].at = "idle" /\ loaded' = <<>>
        BY <1>0, <1>8 DEF TryMove, StartFill, File!MutexFree, StartInv, NotUp
    <2>2. File!Backlog' = File!Backlog
        BY <2>1 DEF File!Backlog, File!Unread
    <2>3. n \in 0 .. Len(tmp) /\ tmp \in Seq(Requests)
        BY <1>0, MovedFits, WaitingType
    <2>4. /\ ring' = (ring \o loaded) \o SubSeq(tmp, 1, n)
          /\ tmp' = SubSeq(tmp, n + 1, Len(tmp))
        <3>1. CASE TryMove
            BY <3>1 DEF TryMove, TmpLeft
        <3>2. CASE StartFill
            <4>1. n = 0 /\ ring' = ring \o loaded /\ tmp' = tmp
                BY <1>0, <3>2 DEF StartFill, StartInv, NotUp
            <4>2. SubSeq(tmp, 1, 0) = <<>> /\ SubSeq(tmp, 1, Len(tmp)) = tmp
                BY <2>3, SubSeqEmpty, SubSeqFull
            <4>3. ring \o loaded \in Seq(Requests)
                BY WaitingType, ConcatProperties
            <4>4. (ring \o loaded) \o <<>> = ring \o loaded
                BY <4>3, ConcatEmpty
            <4>5. QED
                BY <4>1, <4>2, <4>4
        <3>3. QED
            BY <1>8, <3>1, <3>2
    <2> HIDE DEF n
    <2>5. ASSUME ~Stopping' PROVE OrderInv' /\ OnceInv'
        BY <1>2, <1>3, <2>1, <2>2, <2>3, <2>4, <2>5, MoveStep
    <2>6. ASSUME Stopping' PROVE OnceInv'
        <3>1. ~Delivering' /\ Accepted' = Accepted
            BY <2>1, <2>6 DEF Delivering, Accepted
        <3>2. Stopping \/ StartFill
            BY <1>8, <2>6 DEF TryMove, Stopping, mainVars
        <3>3. ~StartFill
            BY <2>6 DEF StartFill, Stopping
        <3>4. QED
            BY <1>2, <2>1, <3>1, <3>2, <3>3 DEF OnceInv
    <2>7. QED
        BY <1>3, <2>5, <2>6
<1>9. ASSUME UNCHANGED <<Pending, delivered, next, tmp>>, Delivering' => Delivering,
             Stopping' => ~isRunnable',
             ~(AddToRing \/ AddToTmp \/ TryMove \/ StartFill)
      PROVE  (~Stopping' => FileInv' /\ OrderInv') /\ OnceInv'
    <2>1. OnceInv'
        BY <1>2, <1>9, OnceSame
    <2>2. ASSUME ~Stopping' PROVE Waiting' = Waiting
        BY <1>3, <1>9, <2>2 DEF Waiting, Add
    <2>3. ASSUME ~Stopping' PROVE OrderInv'
        BY <1>3, <1>9, <2>2, <2>3, OrderSame
    <2>4. QED
        BY <1>3, <2>1, <2>3
<1>10. CASE ~(AddToRing \/ AddToTmp \/ ReportOK \/ TryMove \/ StartFill)
    <2>1. UNCHANGED <<delivered, next, tmp>>
        <3>1. ReportFails => UNCHANGED delivered
            BY <1>0, <1>1 DEF ReportFails, File!Fault, FileTypes
        <3>2. QED
            BY <1>1, <1>10, <3>1
               DEF Next, vars, jobVars, Start, Add, LoopReport, TryLoadData, Stop,
                   StartOpen, StartLoad, LoopCheck, LoopCurrent, ReportFails, LoopDequeue,
                   TryFull, TryLoad, TryPanics, LoadTruncate, StopCalled, StopSurplus,
                   StopTruncate, StopTruncating, StopPanics, StopClose
    <2>2. Pending' = Pending
        <3>1. CASE LoopDequeue
            BY <1>0, <3>1 DEF LoopDequeue, LoopInv, Pending
        <3>2. CASE ~LoopDequeue
            <4>1. ring' = ring
                BY <1>1, <1>10, <3>2
                   DEF Next, vars, jobVars, Start, Add, LoopReport, TryLoadData, Stop,
                       StartOpen, StartLoad, LoopCheck, LoopCurrent, ReportFails,
                       TryFull, TryLoad, TryPanics, LoadTruncate, StopCalled, StopSurplus,
                       StopTruncate, StopTruncating, StopPanics, StopClose
            <4>2. lpc' = lpc \/ (lpc # "dequeue" /\ lpc' # "dequeue")
                BY <1>1, <1>10, <3>2
                   DEF Next, vars, loopVars, Start, Add, LoopReport, TryLoadData, Stop,
                       StartOpen, StartLoad, LoopCheck, LoopCurrent, ReportFails,
                       TryFull, TryLoad, TryPanics, LoadTruncate, StopCalled, StopSurplus,
                       StopTruncate, StopTruncating, StopPanics, StopClose
            <4>3. QED
                BY <4>1, <4>2 DEF Pending
        <3>3. QED
            BY <3>1, <3>2
    <2>3. (Stopping' => ~isRunnable') /\ (Delivering' => Delivering)
        <3>1. CASE Start
            BY <1>10, <3>1 DEF Start, StartOpen, StartLoad, Stopping, Delivering
        <3>2. CASE StopCalled
            BY <3>2 DEF StopCalled, Stopping, Delivering
        <3>3. CASE StopSurplus \/ StopTruncate \/ StopTruncating \/ StopPanics \/ StopClose
            <4>1. Stopping' /\ Stopping /\ UNCHANGED <<lpc, isRunnable>>
                BY <3>3 DEF StopSurplus, StopTruncate, StopTruncating, StopPanics,
                   StopClose, Stopping, loopVars, jobVars, mainVars
            <4>2. QED
                BY <1>2, <4>1 DEF OnceInv, Delivering
        <3>4. CASE LoopReport \/ LoadTruncate \/ UNCHANGED vars
            <4>1. UNCHANGED <<mpc, isRunnable>>
                BY <1>10, <3>4
                   DEF vars, jobVars, mainVars, LoopReport, TryLoadData, LoopCheck,
                       LoopCurrent, ReportFails, LoopDequeue, TryFull, TryLoad, TryPanics,
                       LoadTruncate
            <4>2. \/ lpc' = lpc
                  \/ lpc' \notin {"current", "report", "dequeue"}
                  \/ lpc = "current"
                  \/ isRunnable
                <5>1. CASE LoopCheck
                    BY <5>1 DEF LoopCheck
                <5>2. CASE ~LoopCheck
                    BY <1>10, <3>4, <5>2
                       DEF vars, loopVars, LoopReport, TryLoadData, LoopCurrent,
                           ReportFails, LoopDequeue, TryFull, TryLoad, TryPanics,
                           LoadTruncate
                <5>3. QED
                    BY <5>1, <5>2
            <4>3. Stopping' = Stopping
                BY <4>1 DEF Stopping
            <4>4. QED
                BY <1>2, <4>1, <4>2, <4>3 DEF OnceInv, Delivering
        <3>5. QED
            BY <1>1, <1>10, <3>1, <3>2, <3>3, <3>4 DEF Next, Add, Stop
    <2>4. QED
        BY <1>9, <1>10, <2>1, <2>2, <2>3
<1>11. QED
    BY <1>5, <1>6, <1>7, <1>8, <1>10

(* Without failures creport gets no request twice, and all that is not in    *)
(* the ring is delivered in the order in which it was accepted, for every    *)
(* size of ring and file, with requests added before and after Start, with   *)
(* and without Stop, if what is unread always fits in one buffered read      *)
(* (report_job.go:79-87, 117).                                               *)
THEOREM DeliversRight == Spec /\ []FitsInOneRead => []DeliveredRight
<1>1. Inv /\ CleanInv /\ FitsInOneRead /\ [Next]_vars => CleanInv'
    BY CleanStep
<1>2. Inv /\ CleanInv => DeliveredRight
    <2> SUFFICES ASSUME Inv, CleanInv PROVE DeliveredRight
        OBVIOUS
    <2>1. AtMostOnce
        BY DEF CleanInv, Clean, OnceInv, AtMostOnce
    <2>2. BacklogOrdered
        BY DEF CleanInv, Clean, OrderInv, Waiting, Increasing, BacklogOrdered
    <2>3. QED
        BY <2>1, <2>2 DEF DeliveredRight
<1>3. QED
    BY <1>1, <1>2, CleanInit, Invariance, PTL DEF Spec
-----------------------------------------------------------------------------
(* Several processes one after the other: as long as nothing was cut off the *)
(* file, every request that Add wrote to it is still there.                  *)
NothingCut == FitsInOneRead /\ offset <= CleanThreshold

CrashInv ==
    /\ ~Stopping
    /\ \A c \in {"load", "stop"} : trunc[c].at = "idle"
    /\ stored \subseteq ToSet(recs)
    /\ mpc \in {"new", "load"} => offset = 0
    /\ mpc \in {"fill", "up"} => pos = Len(recs) /\ offset <= Len(recs)

LEMMA CrashInit == Init => CrashInv
<1> SUFFICES ASSUME Init PROVE CrashInv
    OBVIOUS
<1>1. /\ mpc = "new" /\ stored = {} /\ offset = 0
      /\ trunc = [c \in {"load", "stop"} |-> File!Idle]
    BY DEF Init, File!Init, File!Callers
<1>2. QED
    BY <1>1, IdleType DEF CrashInv, Stopping

LEMMA CrashStep ==
    ASSUME ~EarlyAdds, ~Stops, ~ReadsFail,
           Inv, CrashInv, NothingCut, NothingCut', [Next]_vars
    PROVE  CrashInv'
<1>0. /\ FileTypes /\ JobTypes /\ ThreadTypes /\ StartInv /\ LoadInv
      /\ ~Stopping /\ mpc \in {"new", "load", "fill", "failed", "up"}
    BY DEF Inv, CrashInv, Stopping, ThreadTypes
<1>1. ~Stop
    BY <1>0 DEF Stop, StopCalled, StopSurplus, StopTruncate, StopTruncating, StopPanics,
       StopClose, Stopping
<1>2. ~LoadTruncate /\ ~TryPanics
    <2>1. trunc["load"].at = "idle"
        BY DEF CrashInv
    <2>2. QED
        BY <1>0, <2>1, TruncateTypes DEF LoadTruncate, TryPanics
<1>3. CASE StartOpen
    BY <1>3 DEF StartOpen, File!OpenFile, File!OpenFails, CrashInv, Stopping
<1>4. CASE StartLoad \/ TryLoad
    <2>1. PICK rows \in Nat : File!LoadRows(rows) \/ File!LoadFails(rows)
        <3>1. BufLen \in Nat
            BY Bounds
        <3>2. SurplusCount \in Nat
            BY <1>0, Bounds DEF SurplusCount, JobTypes
        <3>3. QED
            BY <1>4, <3>1, <3>2 DEF StartLoad, TryLoad
    <2>2. /\ open /\ mpc' \in {"fill", "up"} /\ mpc \in {"load", "up"}
          /\ stored' = stored
        BY <1>0, <1>4 DEF StartLoad, TryLoad, StartInv, NotUp, mainVars
    <2>3. offset <= Len(recs)
        BY <1>0, <2>2 DEF CrashInv, FileTypes
    <2>4. ~File!LoadFails(rows)
        BY <2>2 DEF File!LoadFails
    <2>5. pos' = Len(recs') /\ offset' <= Len(recs')
        BY <1>0, <2>1, <2>3, <2>4, LoadRowsEnd DEF NothingCut
    <2>6. recs' = recs /\ trunc' = trunc
        <3>1. ~(CleanThreshold < offset')
            <4>1. offset' \in Nat
                BY <1>0, <2>1, <2>4, LoadRowsTypes DEF FileTypes
            <4>2. QED
                BY <4>1, Bounds DEF NothingCut
        <3>2. QED
            BY <2>1, <2>4, <3>1 DEF File!LoadRows
    <2>7. QED
        BY <2>2, <2>5, <2>6 DEF CrashInv, Stopping
<1>5. CASE AddToTmp
    <2>1. /\ next <= MaxRequests /\ mpc' = mpc /\ mpc \in {"failed", "up"}
        BY <1>0, <1>5 DEF AddToTmp, Adds, mainVars
    <2>2. Batch \in Seq(Requests)
        BY <2>1, BatchType
    <2>3. ASSUME NEW b \in Seq(Requests), File!Write(b), UNCHANGED <<offset, trunc>>, open
          PROVE  /\ ToSet(recs') = ToSet(recs) \cup ToSet(b)
                 /\ pos' = Len(recs') /\ offset' <= Len(recs')
        <3>1. pos = Len(recs) /\ offset <= Len(recs)
            BY <1>0, <2>1, <2>3 DEF CrashInv, StartInv
        <3>2. /\ ToSet(recs') = ToSet(recs) \cup ToSet(b)
              /\ pos' = Len(recs') /\ Len(recs') = Len(recs) + Len(b)
            BY <1>0, <2>3, <3>1, WriteEnd
        <3>3. QED
            BY <1>0, <2>3, <3>1, <3>2 DEF FileTypes
    <2>4. CASE UNCHANGED <<fileVars, stored>>
        BY <2>1, <2>4 DEF CrashInv, Stopping, fileVars
    <2>5. CASE File!Store(Batch) /\ stored' = stored \cup ToSet(Batch)
        <3>1. /\ ToSet(recs') = ToSet(recs) \cup ToSet(Batch) /\ trunc' = trunc
              /\ pos' = Len(recs') /\ offset' <= Len(recs')
            BY <2>2, <2>3, <2>5 DEF File!Store
        <3>2. QED
            BY <2>1, <2>5, <3>1 DEF CrashInv, Stopping
    <2>6. CASE File!StoreFails(Batch) /\ stored' = stored
        <3>1. CASE ~open
            BY <2>1, <2>6, <3>1 DEF File!StoreFails, CrashInv, Stopping
        <3>2. CASE open
            <4>1. PICK k \in 0 .. Len(Batch) - 1 : File!Write(SubSeq(Batch, 1, k))
                BY <2>6, <3>2 DEF File!StoreFails
            <4>2. SubSeq(Batch, 1, k) \in Seq(Requests)
                BY <2>2
            <4>3. /\ ToSet(recs) \subseteq ToSet(recs') /\ trunc' = trunc
                  /\ pos' = Len(recs') /\ offset' <= Len(recs')
                BY <2>3, <2>6, <3>2, <4>1, <4>2 DEF File!StoreFails
            <4>4. QED
                BY <2>1, <2>6, <4>3 DEF CrashInv, Stopping
        <3>3. QED
            BY <3>1, <3>2
    <2>7. QED
        BY <1>5, <2>4, <2>5, <2>6 DEF AddToTmp, fileVars
<1>6. CASE Restart
    <2>1. /\ mpc' = "new" /\ offset' = 0 /\ UNCHANGED <<recs, stored>>
          /\ trunc' = [c \in {"load", "stop"} |-> File!Idle]
        BY <1>6 DEF Restart, File!Forget, File!Callers
    <2>2. QED
        BY <2>1, IdleType DEF CrashInv, Stopping
<1>7. CASE UNCHANGED <<recs, offset, pos, trunc, stored>>
           /\ (mpc' = mpc \/ (mpc = "fill" /\ mpc' = "up"))
    BY <1>7 DEF CrashInv, Stopping
<1>8. QED
    BY <1>1, <1>2, <1>3, <1>4, <1>5, <1>6, <1>7
       DEF Next, vars, fileVars, mainVars, Start, Add, LoopReport, TryLoadData, StartFill,
           AddToRing, LoopCheck, LoopCurrent, ReportOK, ReportFails, LoopDequeue, TryFull,
           TryMove

(* A request that Add completely wrote to the file is in the hands of the    *)
(* job, on file or received, in every process and after any number of        *)
(* crashes and failing writes: if reads do not fail, tasks add only once     *)
(* Start returned, what is unread fits in one buffered read, and the prefix  *)
(* of the file never gets long enough to be cut off (README.md:32,           *)
(* store.go:66-134).                                                         *)
THEOREM SurvivesCrashes ==
    ASSUME ~EarlyAdds, ~Stops, ~ReadsFail
    PROVE  Spec /\ []NothingCut => []StoredSurvives
<1>1. Inv /\ CrashInv /\ NothingCut /\ NothingCut' /\ [Next]_vars => CrashInv'
    BY CrashStep
<1>2. CrashInv => StoredSurvives
    BY DEF CrashInv, StoredSurvives
<1>3. QED
    BY <1>1, <1>2, CrashInit, Invariance, PTL DEF Spec
-----------------------------------------------------------------------------
(* One process that is not stopped: either nothing fails, or nothing is cut  *)
(* off the file.                                                             *)
Calm == FitsInOneRead /\ (MaxFaults = 0 \/ offset <= CleanThreshold)

CalmInv ==
    /\ ~Stopping /\ FileInv
    /\ MaxFaults = 0 \/ trunc["load"].at = "idle"
    /\ Held \cup ToSet(delivered) \subseteq Accepted

LEMMA CalmInit == Init => CalmInv /\ Box!Init
<1> SUFFICES ASSUME Init PROVE CalmInv /\ Box!Init
    OBVIOUS
<1>1. /\ mpc = "new" /\ ring = <<>> /\ tmp = <<>> /\ loaded = <<>>
      /\ delivered = <<>> /\ recs = <<>> /\ offset = 0 /\ pos = 0
      /\ trunc = [c \in {"load", "stop"} |-> File!Idle]
    BY DEF Init, File!Init, File!Callers
<1>2. trunc["load"].at = "idle" /\ Len(recs) = 0
    BY <1>1, IdleType
<1>3. File!Backlog = <<>>
    BY <1>1, <1>2 DEF File!Backlog, File!Unread
<1>4. FileInv /\ ~Stopping
    BY <1>1, <1>2 DEF FileInv, Stopping
<1>5. Held = {} /\ ToSet(delivered) = {}
    BY <1>1, <1>3, ToSetEmpty DEF Held
<1>6. QED
    BY <1>2, <1>4, <1>5 DEF CalmInv, Box!Init

LEMMA HeldType ==
    Inv => ToSet(loaded \o File!Backlog) = ToSet(loaded) \cup ToSet(File!Backlog)
BY WaitingType, ToSetConcat

(* The file of a calm process stays a queue.                                 *)
LEMMA CalmFile ==
    ASSUME MaxProcesses = 1, ~Stops, ~ReadsFail, Inv, CalmInv, Calm, Calm', [Next]_vars
    PROVE  /\ FileInv' /\ ~Stopping' /\ ~Stop /\ ~Restart
           /\ MaxFaults = 0 \/ trunc'["load"].at = "idle"
           /\ Add \/ TryMove \/ StartFill
                  \/ loaded' \o File!Backlog' = loaded \o File!Backlog
<1>0. FileTypes /\ JobTypes /\ ThreadTypes /\ StartInv /\ Inv' /\ FileTypes'
    <2>1. Inv'
        BY InvStep
    <2>2. QED
        BY <2>1 DEF Inv
<1>1. process = 1 /\ process' = 1
    BY <1>0, <1>0 DEF JobTypes, Inv
<1>2. process' = process /\ ~Restart
    BY <1>1, ProcessStays
<1>3. ~Stop /\ ~Stopping'
    <2>1. ~Stop
        BY DEF CalmInv, Stop, StopCalled, StopSurplus, StopTruncate, StopTruncating,
           StopPanics, StopClose, Stopping
    <2>2. CASE Start
        BY <2>1, <2>2 DEF Start, StartOpen, StartLoad, StartFill, Stopping
    <2>3. CASE ~Start
        <3>1. mpc' = mpc
            BY <1>2, <2>1, <2>3
               DEF Next, vars, mainVars, Add, AddToRing, AddToTmp, LoopReport, TryLoadData,
                   LoopCheck, LoopCurrent, ReportOK, ReportFails, LoopDequeue, TryFull,
                   TryLoad, TryMove, TryPanics, LoadTruncate
        <3>2. QED
            BY <2>1, <3>1 DEF CalmInv, Stopping
    <2>4. QED
        BY <2>1, <2>2, <2>3
<1>4. faults' = faults \/ (~ReadsFail /\ trunc["load"].at = "idle")
    <2>1. CASE MaxFaults = 0
        <3>1. faults \in 0 .. MaxFaults /\ faults' \in 0 .. MaxFaults
            BY <1>0 DEF FileTypes
        <3>2. QED
            BY <2>1, <3>1
    <2>2. CASE MaxFaults # 0
        BY <2>2 DEF CalmInv
    <2>3. QED
        BY <2>1, <2>2
<1>5. /\ FileInv'
      /\ Add \/ TryMove \/ StartFill
             \/ loaded' \o File!Backlog' = loaded \o File!Backlog
    BY <1>2, <1>3, <1>4, FileStep DEF CalmInv, Calm
<1>6. ASSUME MaxFaults # 0 PROVE trunc'["load"].at = "idle"
    <2>1. trunc["load"].at = "idle" /\ ~(CleanThreshold < offset')
        BY <1>0, <1>6, Bounds DEF CalmInv, Calm, FileTypes
    <2>2. ~LoadTruncate /\ ~TryPanics
        BY <1>0, <2>1, TruncateTypes DEF LoadTruncate, TryPanics
    <2>3. trunc' = trunc
        BY <1>2, <1>3, <2>1, <2>2
           DEF Next, vars, fileVars, Start, StartOpen, StartLoad, StartFill, Add,
               AddToRing, AddToTmp, LoopReport, TryLoadData,
               LoopCheck, LoopCurrent, ReportOK, ReportFails, LoopDequeue, TryFull,
               TryLoad, TryMove, File!OpenFile, File!OpenFails, File!LoadRows,
               File!LoadFails, File!Store, File!StoreFails
    <2>4. QED
        BY <2>1, <2>3
<1>7. QED
    BY <1>2, <1>3, <1>5, <1>6

(* A step that neither accepts nor delivers.                                 *)
LEMMA BoxStutter ==
    ASSUME Held' \ ToSet(delivered) = Held \ ToSet(delivered),
           ToSet(delivered') = ToSet(delivered)
    PROVE  UNCHANGED Box!vars
BY DEF Box!vars

LEMMA BoxAccept ==
    ASSUME next \in 1 .. MaxRequests, next' = next + 1, Held' = Held \cup {next},
           ToSet(delivered') = ToSet(delivered),
           Held \cup ToSet(delivered) \subseteq Accepted
    PROVE  Box!Next
<1>1. next \notin Held \cup ToSet(delivered)
    <2>1. next \in Nat
        BY Bounds
    <2>2. QED
        BY <2>1, AcceptedGrows
<1>2. Box!Accept(next)
    BY <1>1 DEF Box!Accept
<1>3. QED
    BY <1>2 DEF Box!Next

LEMMA BoxDeliver ==
    ASSUME NEW r \in 1 .. MaxRequests, r \in Held, Held' = Held,
           ToSet(delivered') = ToSet(delivered) \cup {r}
    PROVE  Box!Next \/ UNCHANGED Box!vars
<1>1. CASE r \in ToSet(delivered)
    BY <1>1 DEF Box!vars
<1>2. CASE r \notin ToSet(delivered)
    <2>1. Box!Deliver(r)
        BY <1>2 DEF Box!Deliver
    <2>2. QED
        BY <2>1 DEF Box!Next
<1>3. QED
    BY <1>1, <1>2

LEMMA CalmStep ==
    ASSUME MaxProcesses = 1, ~Stops, ~ReadsFail, Inv, CalmInv, Calm, Calm', [Next]_vars
    PROVE  CalmInv' /\ [Box!Next]_(Box!vars)
<1> DEFINE D == ToSet(delivered)
<1>0. /\ FileTypes /\ JobTypes /\ ThreadTypes /\ StartInv /\ LoadInv /\ LoopInv
      /\ FileInv /\ Held \cup D \subseteq Accepted /\ Inv'
    BY InvStep DEF Inv, CalmInv
<1>1. /\ FileInv' /\ ~Stopping' /\ ~Stop /\ ~Restart
      /\ MaxFaults = 0 \/ trunc'["load"].at = "idle"
      /\ Add \/ TryMove \/ StartFill
             \/ loaded' \o File!Backlog' = loaded \o File!Backlog
    BY CalmFile
<1>2. /\ recs \in Seq(Requests) /\ loaded \in Seq(Requests)
      /\ File!Backlog \in Seq(Requests)
      /\ tmp \in Seq(Requests) /\ ring \in Seq(Requests) /\ next \in Nat \ {0}
      /\ delivered \in Seq(Requests) /\ req \in Requests
    BY <1>0, WaitingType DEF JobTypes, ThreadTypes
<1>3. SUFFICES /\ Held' \cup D' \subseteq Accepted'
               /\ Box!Next \/ UNCHANGED Box!vars
    BY <1>1 DEF CalmInv
<1>4. ASSUME Held' \ D = Held \ D, UNCHANGED <<delivered, next>>
      PROVE  Held' \cup D' \subseteq Accepted' /\ (Box!Next \/ UNCHANGED Box!vars)
    <2>1. D' = D /\ Accepted' = Accepted
        BY <1>4 DEF Accepted
    <2>2. UNCHANGED Box!vars
        BY <1>4, <2>1, BoxStutter
    <2>3. Held' \subseteq Held \cup D
        BY <1>4
    <2>4. QED
        BY <1>0, <2>1, <2>2, <2>3
<1>5. ASSUME Held' = Held \cup {next}, next' = next + 1, next <= MaxRequests,
             delivered' = delivered
      PROVE  Held' \cup D' \subseteq Accepted' /\ (Box!Next \/ UNCHANGED Box!vars)
    <2>1. next \in 1 .. MaxRequests /\ next \in 1 .. (next + 1) - 1 /\ D' = D
        BY <1>2, <1>5, Bounds
    <2>2. Accepted \subseteq Accepted' /\ next \in Accepted'
        BY <1>2, <1>5, <2>1, AcceptedGrows DEF Accepted
    <2>3. Box!Next
        BY <1>0, <1>5, <2>1, BoxAccept
    <2>4. QED
        BY <1>0, <1>5, <2>1, <2>2, <2>3
<1>6. CASE AddToRing
    <2>1. /\ UNCHANGED <<loaded, recs, offset, trunc, tmp, delivered>>
          /\ next' = next + 1 /\ next <= MaxRequests /\ ring' = Append(ring, next)
        BY <1>6 DEF AddToRing, Adds, fileVars
    <2>2. File!Backlog' = File!Backlog
        BY <2>1 DEF File!Backlog, File!Unread
    <2>3. ToSet(ring') = ToSet(ring) \cup {next}
        BY <1>2, <2>1, BatchType, ToSetAppend
    <2>4. Held' = Held \cup {next}
        BY <2>1, <2>2, <2>3 DEF Held
    <2>5. QED
        BY <1>5, <2>1, <2>4
<1>7. CASE AddToTmp
    <2>1. /\ UNCHANGED <<ring, delivered>> /\ next' = next + 1 /\ next <= MaxRequests
        BY <1>7 DEF AddToTmp, Adds
    <2>2. Batch \in Seq(Requests) /\ ToSet(Batch) = ToSet(tmp) \cup {next}
        BY <2>1, BatchType
    <2>3. ASSUME NEW b \in Seq(Requests), File!Write(b), UNCHANGED <<offset, trunc>>,
                 trunc["load"].at = "idle"
          PROVE  ToSet(File!Backlog') = ToSet(File!Backlog) \cup ToSet(b)
        <3>1. File!Backlog' = File!Backlog \o b
            BY <1>0, <2>3, StoreQueue
        <3>2. QED
            BY <1>2, <3>1, ToSetConcat
    <2>4. /\ loaded' = loaded
          /\ ToSet(File!Backlog') \cup ToSet(tmp') =
                 ToSet(File!Backlog) \cup ToSet(Batch)
        <3>1. CASE UNCHANGED fileVars /\ tmp' = Batch
            BY <3>1 DEF fileVars, File!Backlog, File!Unread
        <3>2. CASE File!Store(Batch) /\ tmp' = <<>>
            BY <2>2, <2>3, <3>2, ToSetEmpty DEF File!Store, File!MutexFree
        <3>3. CASE File!StoreFails(Batch) /\ tmp' = Batch
            <4>1. CASE ~open
                BY <3>3, <4>1 DEF File!StoreFails, File!Backlog, File!Unread
            <4>2. CASE open
                <5>1. PICK k \in 0 .. Len(Batch) - 1 : File!Write(SubSeq(Batch, 1, k))
                    BY <3>3, <4>2 DEF File!StoreFails
                <5>2. /\ SubSeq(Batch, 1, k) \in Seq(Requests)
                      /\ ToSet(SubSeq(Batch, 1, k)) \subseteq ToSet(Batch)
                    <6> DEFINE b == Batch
                    <6>1. b \in Seq(Requests) /\ k \in 0 .. Len(b)
                        BY <2>2
                    <6> HIDE DEF b
                    <6>2. SubSeq(b, 1, k) \in Seq(Requests)
                          /\ ToSet(SubSeq(b, 1, k)) \subseteq ToSet(b)
                        <7>1. ToSet(SubSeq(b, 1, k)) \cup ToSet(SubSeq(b, k + 1, Len(b)))
                                  = ToSet(b)
                            BY <6>1, Split
                        <7>2. SubSeq(b, 1, k) \in Seq(Requests)
                            BY <6>1, Split
                        <7>3. QED
                            BY <7>1, <7>2
                    <6>3. QED
                        BY <6>2 DEF b
                <5>3. ToSet(File!Backlog') =
                          ToSet(File!Backlog) \cup ToSet(SubSeq(Batch, 1, k))
                    BY <2>3, <3>3, <5>1, <5>2 DEF File!StoreFails, File!MutexFree
                <5>4. QED
                    BY <3>3, <5>2, <5>3 DEF File!StoreFails
            <4>3. QED
                BY <4>1, <4>2
        <3>4. QED
            BY <1>7, <3>1, <3>2, <3>3 DEF AddToTmp
    <2>5. Held' = Held \cup {next}
        BY <2>1, <2>2, <2>4 DEF Held
    <2>6. QED
        BY <1>5, <2>1, <2>5
<1>8. CASE TryMove \/ StartFill
    <2>1. /\ UNCHANGED <<recs, offset, trunc, delivered, next>>
          /\ loaded' = <<>>
        BY <1>8 DEF TryMove, StartFill
    <2>2. File!Backlog' = File!Backlog
        BY <2>1 DEF File!Backlog, File!Unread
    <2> DEFINE rows == ring \o loaded
    <2>3. rows \in Seq(Requests) /\ ToSet(rows) = ToSet(ring) \cup ToSet(loaded)
        BY <1>2, ConcatProperties, ToSetConcat
    <2>4. ToSet(ring') \cup ToSet(tmp') = ToSet(ring) \cup ToSet(loaded) \cup ToSet(tmp)
        <3>1. CASE StartFill
            BY <2>3, <3>1 DEF StartFill
        <3>2. CASE TryMove
            <4> DEFINE moved == SubSeq(tmp, 1, Moved)
            <4>1. Moved \in 0 .. Len(tmp)
                BY <3>2, MovedFits DEF TryMove
            <4>2. moved \in Seq(Requests) /\ ToSet(moved) \cup ToSet(TmpLeft) = ToSet(tmp)
                BY <1>2, <4>1, Split DEF TmpLeft
            <4>3. ring' = rows \o moved /\ tmp' = TmpLeft
                BY <3>2 DEF TryMove
            <4> HIDE DEF rows, moved
            <4>4. ToSet(ring') = ToSet(rows) \cup ToSet(moved)
                BY <2>3, <4>2, <4>3, ToSetConcat
            <4>5. QED
                BY <2>3, <4>2, <4>3, <4>4
        <3>3. QED
            BY <1>8, <3>1, <3>2
    <2>5. Held' = Held
        BY <2>1, <2>2, <2>4, ToSetEmpty DEF Held
    <2>6. QED
        BY <1>4, <2>1, <2>5
<1>9. ASSUME ~Add, ~TryMove, ~StartFill
      PROVE  ToSet(loaded') \cup ToSet(File!Backlog') =
                 ToSet(loaded) \cup ToSet(File!Backlog)
    <2>1. Inv' => (ToSet(loaded \o File!Backlog) = ToSet(loaded) \cup ToSet(File!Backlog))'
        BY HeldType, PTL
    <2>2. ToSet(loaded \o File!Backlog) = ToSet(loaded) \cup ToSet(File!Backlog)
        BY HeldType
    <2>3. QED
        BY <1>0, <1>1, <1>9, <2>1, <2>2
<1>10. ASSUME ~Add, ~TryMove, ~StartFill, UNCHANGED <<ring, tmp>>
       PROVE  Held' = Held
    BY <1>9, <1>10 DEF Held
<1>11. ASSUME lpc = "report", UNCHANGED <<ring, tmp, next>>, delivered' = Append(delivered, req),
              ~Add, ~TryMove, ~StartFill
       PROVE  Held' \cup D' \subseteq Accepted' /\ (Box!Next \/ UNCHANGED Box!vars)
    <2>1. req \in ToSet(ring)
        BY <1>0, <1>2, <1>11, ToSetTail DEF LoopInv
    <2>2. req \in Held /\ D' = D \cup {req} /\ Held' = Held
        BY <1>2, <1>10, <1>11, <2>1, ToSetAppend DEF Held
    <2>3. req \in 1 .. MaxRequests
        <3>1. req \in Accepted /\ next <= MaxRequests + 1
            BY <1>0, <2>2 DEF JobTypes
        <3>2. QED
            BY <1>2, <3>1, Bounds DEF Accepted
    <2>4. Box!Next \/ UNCHANGED Box!vars
        BY <2>2, <2>3, BoxDeliver
    <2>5. Accepted' = Accepted
        BY <1>11 DEF Accepted
    <2>6. QED
        BY <1>0, <2>2, <2>4, <2>5
<1>12. CASE ReportOK
    BY <1>11, <1>12 DEF ReportOK, jobVars, Add, AddToRing, AddToTmp, TryMove, StartFill, loopVars
<1>13. CASE ReportFails
    <2>1. /\ lpc = "report" /\ UNCHANGED <<ring, tmp, next>>
          /\ delivered' = delivered \/ delivered' = Append(delivered, req)
          /\ ~Add /\ ~TryMove /\ ~StartFill
        BY <1>2, <1>13 DEF ReportFails, jobVars, mainVars, Add, AddToRing, AddToTmp,
           TryMove, StartFill
    <2>2. QED
        BY <1>4, <1>10, <1>11, <2>1
<1>14. CASE LoopDequeue
    <2>1. /\ lpc = "dequeue" /\ UNCHANGED <<tmp, next, delivered>> /\ ring # <<>>
          /\ ring' = Tail(ring) /\ Head(ring) \in D
          /\ ~Add /\ ~TryMove /\ ~StartFill
        BY <1>0, <1>2, <1>14 DEF LoopDequeue, LoopInv, mainVars, Add, AddToRing, AddToTmp,
           TryMove, StartFill
    <2>2. ToSet(ring) = {Head(ring)} \cup ToSet(ring')
        BY <1>2, <2>1, ToSetTail
    <2>3. Held' \ D = Held \ D
        BY <1>9, <2>1, <2>2 DEF Held
    <2>4. QED
        BY <1>4, <2>1, <2>3
<1>15. CASE ~Add /\ ~TryMove /\ ~StartFill /\ ~ReportOK /\ ~ReportFails /\ ~LoopDequeue
    <2>1. UNCHANGED <<ring, tmp, delivered, next>>
        BY <1>1, <1>15
           DEF Next, vars, jobVars, Start, LoopReport, TryLoadData,
               StartOpen, StartLoad, LoopCheck, LoopCurrent,
               TryFull, TryLoad, TryPanics, LoadTruncate
    <2>2. QED
        BY <1>4, <1>10, <1>15, <2>1
<1>16. QED
    BY <1>6, <1>7, <1>8, <1>12, <1>13, <1>14, <1>15 DEF Add

(* A request that Add accepted is in the ring, in tmp, in the file or on its *)
(* way between them until creport received it: for every size of ring and    *)
(* file, for one process that is not stopped, if reads do not fail, what is  *)
(* unread always fits in one buffered read, and either nothing fails or the  *)
(* prefix of the file never gets long enough to be cut off                   *)
(* (README.md:28-33, report_job.go:70-146).                                  *)
THEOREM KeepsUntilReceived ==
    ASSUME MaxProcesses = 1, ~Stops, ~ReadsFail
    PROVE  Spec /\ []Calm => ImplementsOutbox
<1>1. Inv /\ CalmInv /\ Calm /\ Calm' /\ [Next]_vars => CalmInv' /\ [Box!Next]_(Box!vars)
    BY CalmStep
<1>2. QED
    BY <1>1, CalmInit, Invariance, PTL DEF Spec, ImplementsOutbox, Box!Spec
=============================================================================
