------------------------- MODULE MCFileStore_proofs -------------------------
(* What the storage promises, for any size of the file and of its reads, any *)
(* number of records, log files, calls, connections and failures.            *)
EXTENDS MCFileStore, SequenceTheorems, FiniteSetTheorems, TLAPS

Records == 0 .. MaxRecords
TruncateState ==
    [at : {"idle", "read", "zero", "before", "keep", "after", "reset"},
     before : Seq(Records), keep : Seq(Records), after : Seq(Records)]

(* The types of the store, with a name for the state of a Truncate.          *)
StoreTypes ==
    /\ recs \in Seq(Records)
    /\ offset \in Nat /\ pos \in Nat
    /\ open \in BOOLEAN
    /\ trunc \in [{"load", "stop"} -> TruncateState]
    /\ loaded \in Seq(Records)
    /\ faults \in 0 .. MaxFaults
    /\ next \in 1 .. MaxRecords + 1

(* The file is written at its end, a Load has passed over no more than there *)
(* is, and a Truncate rewrites what it keeps.                                *)
FileInv ==
    LET t == trunc["load"]
    IN  /\ pos = Len(recs)
        /\ ~open => recs = <<>> /\ offset = 0
        /\ t.at \in {"idle", "read", "zero"} => offset <= Len(recs)
        /\ t.at # "idle" => open /\ t.before = <<>> /\ t.after = <<>>
        /\ t.at = "zero" => t.keep = Unread
        /\ t.at \in {"before", "keep"} => recs = <<>>
        /\ t.at \in {"after", "reset"} => recs = t.keep

(* What one buffered read takes: only then does Load leave the position at   *)
(* the end of the file, where the next Store has to write.                   *)
FitsInOneRead == Len(Backlog) <= Chunk

(* The numbers among the constants.                                          *)
LEMMA Bounds ==
    /\ Chunk \in Nat \ {0} /\ CleanThreshold \in Nat /\ MaxFaults \in Nat
    /\ Rows \in Nat \ {0} /\ MaxRecords \in Nat
BY FileAssumption

LEMMA TypesAre == TypeOK <=> StoreTypes
BY DEF TypeOK, StoreTypes, TruncateState, Records, Callers

LEMMA IdleType == Idle \in TruncateState /\ Idle.at = "idle"
BY DEF Idle, TruncateState
-----------------------------------------------------------------------------
(* The file after a write.                                                   *)
LEMMA WrittenType ==
    ASSUME NEW S, NEW r \in Seq(S), NEW p \in Nat, NEW b \in Seq(S), 0 \in S
    PROVE  /\ Written(r, p, b) \in Seq(S)
           /\ Len(Written(r, p, b)) =
                  (IF b = <<>> THEN Len(r) ELSE Greater(Len(r), p + Len(b)))
<1>1. Len(r) \in Nat /\ Len(b) \in Nat
    OBVIOUS
<1> DEFINE n == Greater(Len(r), IF b = <<>> THEN 0 ELSE p + Len(b))
<1> DEFINE w == [i \in 1 .. n |-> 
        IF i > p /\ i <= p + Len(b) THEN b[i - p]
        ELSE IF i <= Len(r) THEN r[i] ELSE 0]
<1>2. n \in Nat
    BY <1>1 DEF Greater
<1>3. ASSUME NEW i \in 1 .. n
      PROVE  (IF i > p /\ i <= p + Len(b) THEN b[i - p]
              ELSE IF i <= Len(r) THEN r[i] ELSE 0) \in S
    BY <1>1, <1>2
<1>4. w \in Seq(S) /\ Len(w) = n
    <2> HIDE DEF n
    <2>1. w \in [1 .. n -> S]
        BY <1>3
    <2>2. QED
        BY <1>2, <2>1
<1>5. n = IF b = <<>> THEN Len(r) ELSE Greater(Len(r), p + Len(b))
    BY <1>1 DEF Greater
<1>6. Written(r, p, b) = w
    BY DEF Written, Hole
<1>7. QED
    BY <1>4, <1>5, <1>6

LEMMA WrittenAtEnd ==
    ASSUME NEW S, NEW r \in Seq(S), NEW b \in Seq(S)
    PROVE  Written(r, Len(r), b) = r \o b
<1> DEFINE n == Greater(Len(r), IF b = <<>> THEN 0 ELSE Len(r) + Len(b))
<1>1. Len(r) \in Nat /\ Len(b) \in Nat
    OBVIOUS
<1>2. n = Len(r) + Len(b)
    BY <1>1 DEF Greater
<1>3. /\ Len(r \o b) = n
      /\ \A i \in 1 .. n : (r \o b)[i] = IF i <= Len(r) THEN r[i] ELSE b[i - Len(r)]
      /\ r \o b \in Seq(S)
    BY <1>2, ConcatProperties
<1>4. Written(r, Len(r), b) =
          [i \in 1 .. n |-> IF i <= Len(r) THEN r[i] ELSE b[i - Len(r)]]
    BY <1>1, <1>2 DEF Written, Hole
<1> DEFINE w == r \o b
<1> HIDE DEF n
<1>5. w = [i \in 1 .. n |-> w[i]]
    <2> HIDE DEF w
    <2>1. w \in Seq(S) /\ Len(w) = n
        BY <1>3 DEF w
    <2>2. w \in [1 .. n -> S]
        BY <2>1, LenProperties
    <2>3. QED
        BY <2>2
<1>6. QED
    BY <1>3, <1>4, <1>5

(* What the operations of the file leave in the types.                       *)
LEMMA UnreadType ==
    ASSUME StoreTypes, NEW n \in Nat, offset + n <= Len(recs)
    PROVE  /\ SubSeq(recs, offset + 1, offset + n) \in Seq(Records)
           /\ Len(SubSeq(recs, offset + 1, offset + n)) = n
<1>1. \A i \in offset + 1 .. offset + n : recs[i] \in Records
    BY DEF StoreTypes
<1> DEFINE a == offset + 1
<1> DEFINE b == offset + n
<1>2. a \in Int /\ b \in Int
    BY DEF StoreTypes
<1> HIDE DEF a, b
<1>3. /\ SubSeq(recs, a, b) \in Seq(Records)
      /\ Len(SubSeq(recs, a, b)) = IF a <= b THEN b - a + 1 ELSE 0
    BY <1>1, <1>2, SubSeqProperties DEF a, b
<1>4. QED
    BY <1>3 DEF StoreTypes, a, b

LEMMA UnreadAllType ==
    ASSUME StoreTypes
    PROVE  /\ Unread \in Seq(Records)
           /\ offset <= Len(recs) => Len(Unread) = Len(recs) - offset
           /\ offset >= Len(recs) => Unread = <<>>
<1>1. \A i \in offset + 1 .. Len(recs) : recs[i] \in Records
    BY DEF StoreTypes
<1>2. offset + 1 \in Int /\ Len(recs) \in Int
    BY DEF StoreTypes
<1>3. /\ Unread \in Seq(Records)
      /\ Len(Unread) = IF offset + 1 <= Len(recs) THEN Len(recs) - (offset + 1) + 1 ELSE 0
    BY <1>1, <1>2, SubSeqProperties DEF Unread
<1>4. offset >= Len(recs) => Unread = <<>>
    BY <1>2, SubSeqEmpty DEF Unread, StoreTypes
<1>5. QED
    BY <1>3, <1>4 DEF StoreTypes

LEMMA LoadRowsTypes ==
    ASSUME StoreTypes, NEW rows \in Nat, LoadRows(rows), next' = next
    PROVE  StoreTypes' /\ Len(loaded') <= rows
<1> DEFINE n == Greater(0, Lesser(rows, Len(recs) - offset))
<1>1. /\ loaded' = SubSeq(recs, offset + 1, offset + n)
      /\ offset' = offset + n /\ pos' = ReadEnd(rows)
      /\ trunc' = IF CleanThreshold < offset'
                THEN [trunc EXCEPT !["load"] = TruncateCall(<<>>, <<>>)]
                ELSE trunc
      /\ UNCHANGED <<recs, open, faults>>
    BY DEF LoadRows
<1>2. n \in Nat /\ n <= rows /\ (offset + n <= Len(recs) \/ n = 0)
    BY DEF Greater, Lesser, StoreTypes
<1>3. loaded' \in Seq(Records) /\ Len(loaded') <= rows
    <2> HIDE DEF n
    <2>1. CASE offset + n <= Len(recs)
        BY <1>1, <1>2, <2>1, UnreadType
    <2>2. CASE n = 0
        <3>1. SubSeq(recs, offset + 1, offset + n) = <<>>
            BY <2>2, SubSeqEmpty DEF StoreTypes
        <3>2. loaded' = <<>>
            BY <1>1, <3>1
        <3>3. QED
            BY <3>2, EmptySeq
    <2>3. QED
        BY <1>2, <2>1, <2>2
<1>4. pos' \in Nat
    <2> DEFINE w == Lesser(rows + 1, Len(recs) - offset)
    <2>1. CASE Len(recs) - offset <= 0
        BY <1>1, <2>1 DEF ReadEnd, StoreTypes
    <2>2. CASE Len(recs) - offset > 0
        <3>1. w \in Nat /\ Len(recs) \in Nat /\ offset \in Nat
            BY <2>2 DEF Lesser, StoreTypes
        <3> HIDE DEF w
        <3>2. (w + Chunk - 1) \div Chunk \in Nat
            BY <3>1, Bounds
        <3>3. ((w + Chunk - 1) \div Chunk) * Chunk \in Nat
            BY <3>2, Bounds
        <3>4. pos' = Lesser(Len(recs), offset + ((w + Chunk - 1) \div Chunk) * Chunk)
            BY <1>1, <2>2 DEF ReadEnd, StoreTypes, w
        <3>5. QED
            BY <3>1, <3>3, <3>4 DEF Lesser
    <2>3. QED
        BY <2>1, <2>2 DEF StoreTypes
<1>5. offset' \in Nat
    BY <1>1, <1>2 DEF StoreTypes
<1>6. trunc' \in [{"load", "stop"} -> TruncateState]
    BY <1>1 DEF StoreTypes, TruncateCall, TruncateState
<1>7. QED
    BY <1>1, <1>3, <1>4, <1>5, <1>6 DEF StoreTypes

LEMMA WriteTypes ==
    ASSUME StoreTypes, NEW batch \in Seq(Records), Write(batch)
    PROVE  recs' \in Seq(Records) /\ pos' \in Nat
<1>1. 0 \in Records
    BY Bounds DEF Records
<1>2. recs' \in Seq(Records)
    BY <1>1, WrittenType DEF StoreTypes, Write
<1>3. pos' \in Nat
    BY DEF StoreTypes, Write
<1>4. QED
    BY <1>2, <1>3

(* A Load that passes over all that is unread stops at the end of the file.  *)
LEMMA LoadRowsEnd ==
    ASSUME StoreTypes, Len(recs) - offset <= Chunk, offset <= Len(recs), NEW rows \in Nat, LoadRows(rows)
    PROVE  pos' = Len(recs') /\ offset' <= Len(recs') /\ offset' >= offset
<1> DEFINE available == Len(recs) - offset
<1> DEFINE w == Lesser(rows + 1, available)
<1> DEFINE chunks == (w + Chunk - 1) \div Chunk
<1>1. /\ offset' = offset + Greater(0, Lesser(rows, available))
      /\ pos' = IF available <= 0 THEN offset
                ELSE Lesser(Len(recs), offset + chunks * Chunk)
      /\ recs' = recs
    BY DEF LoadRows, ReadEnd
<1>2. available \in Nat /\ available <= Chunk /\ Len(recs) \in Nat /\ offset \in Nat
    BY DEF StoreTypes
<1>3. offset' <= Len(recs) /\ offset' >= offset
    <2> HIDE DEF w
    <2>1. Greater(0, Lesser(rows, available)) \in 0 .. available
        BY <1>2 DEF Greater, Lesser
    <2>2. QED
        BY <1>1, <1>2, <2>1
<1>4. pos' = Len(recs)
    <2>1. CASE available = 0
        BY <1>1, <1>2, <2>1
    <2>2. CASE available > 0
        <3>1. w \in Nat \ {0}
            BY <1>2, <2>2 DEF Lesser
        <3> HIDE DEF w
        <3>2. chunks \in Nat \ {0}
            BY <3>1, Bounds
        <3> HIDE DEF chunks
        <3>3. chunks * Chunk >= Chunk /\ chunks * Chunk \in Nat
            BY <3>2, Bounds
        <3>4. pos' = Lesser(Len(recs), offset + chunks * Chunk)
            BY <1>1, <1>2, <2>2
        <3> DEFINE m == chunks * Chunk
        <3> HIDE DEF m
        <3>5. m >= Chunk /\ m \in Nat /\ pos' = Lesser(Len(recs), offset + m)
            BY <3>3, <3>4 DEF m
        <3>6. ~(offset + m < Len(recs)) /\ (Len(recs) < offset + m => pos' = Len(recs))
            BY <1>2, <3>5, Bounds DEF Lesser
        <3>7. QED
            BY <1>2, <3>5, <3>6 DEF Lesser
    <2>3. QED
        BY <1>2, <2>1, <2>2
<1>5. QED
    BY <1>1, <1>3, <1>4

(* A file that is written at its end grows.                                  *)
LEMMA WriteEnd ==
    ASSUME StoreTypes, pos = Len(recs), NEW b \in Seq(Records), Write(b)
    PROVE  /\ recs' = recs \o b
           /\ pos' = Len(recs') /\ Len(recs') = Len(recs) + Len(b)
<1>1. recs' = recs \o b /\ pos' = Len(recs) + Len(b)
    BY WrittenAtEnd DEF Write, StoreTypes
<1>2. Len(recs \o b) = Len(recs) + Len(b)
    BY ConcatProperties DEF StoreTypes
<1>3. QED
    BY <1>1, <1>2

LEMMA UnreadGrows ==
    ASSUME StoreTypes, offset <= Len(recs), NEW b \in Seq(Records),
           recs' = recs \o b, offset' = offset
    PROVE  Unread' = Unread \o b
<1> DEFINE r == recs \o b
<1>1. /\ recs \in Seq(Records) /\ Len(recs) \in Nat /\ Len(b) \in Nat
      /\ offset \in Nat
    BY DEF StoreTypes
<1>2. /\ r \in Seq(Records) /\ Len(r) = Len(recs) + Len(b)
      /\ \A i \in 1 .. Len(r) : r[i] = IF i <= Len(recs) THEN recs[i] ELSE b[i - Len(recs)]
    BY <1>1, ConcatProperties
<1> HIDE DEF r
<1> DEFINE u == SubSeq(recs, offset + 1, Len(recs))
<1> DEFINE v == SubSeq(r, offset + 1, Len(r))
<1>3. /\ u \in Seq(Records) /\ Len(u) = Len(recs) - offset
      /\ \A i \in 1 .. Len(u) : u[i] = recs[offset + i]
    BY <1>1
<1>4. /\ v \in Seq(Records) /\ Len(v) = Len(r) - offset
      /\ \A i \in 1 .. Len(v) : v[i] = r[offset + i]
    BY <1>1, <1>2
<1> HIDE DEF u, v
<1>5. /\ u \o b \in Seq(Records) /\ Len(u \o b) = Len(u) + Len(b)
      /\ \A i \in 1 .. Len(u) + Len(b) : (u \o b)[i] = IF i <= Len(u) THEN u[i] ELSE b[i - Len(u)]
    BY <1>3, ConcatProperties
<1> DEFINE ub == u \o b
<1>6. Len(v) = Len(ub) /\ ub \in Seq(Records)
    BY <1>1, <1>2, <1>3, <1>4, <1>5
<1>8. \A i \in 1 .. Len(u) + Len(b) : ub[i] = IF i <= Len(u) THEN u[i] ELSE b[i - Len(u)]
    BY <1>5
<1> HIDE DEF ub
<1>9. ASSUME NEW i \in 1 .. Len(v) PROVE v[i] = ub[i]
    <2>1. v[i] = r[offset + i] /\ offset + i \in 1 .. Len(r)
        BY <1>1, <1>2, <1>4
    <2>2. CASE i <= Len(u)
        <3>1. ub[i] = recs[offset + i]
            BY <1>1, <1>2, <1>3, <1>4, <1>8, <2>2
        <3>2. offset + i <= Len(recs)
            BY <1>1, <1>3, <2>2
        <3>3. QED
            BY <1>2, <2>1, <3>1, <3>2
    <2>3. CASE i > Len(u)
        <3>1. ub[i] = b[i - Len(u)] /\ i - Len(u) = offset + i - Len(recs)
            BY <1>1, <1>2, <1>3, <1>4, <1>8, <2>3
        <3>2. offset + i > Len(recs)
            BY <1>1, <1>3, <2>3
        <3>3. r[offset + i] = b[(offset + i) - Len(recs)]
            BY <1>2, <2>1, <3>2
        <3>4. QED
            <4>1. (offset + i) - Len(recs) = i - Len(u)
                BY <1>1, <1>3
            <4>2. r[offset + i] = b[i - Len(u)]
                BY <3>3, <4>1
            <4>3. QED
                BY <2>1, <3>1, <4>2
    <2>4. QED
        BY <1>1, <1>3, <2>2, <2>3
<1>10. v = ub
    BY <1>4, <1>6, <1>9, SeqEqual
<1>11. Unread = u /\ Unread' = v
    BY DEF Unread, u, v, r
<1>12. QED
    BY <1>10, <1>11 DEF ub

LEMMA ConcatEmpty ==
    ASSUME NEW S, NEW s \in Seq(S)
    PROVE  s \o <<>> = s /\ <<>> \o s = s
BY ConcatEmptySeq

(* A Load takes from the front of what is unread.                            *)
LEMMA LoadRowsQueue ==
    ASSUME StoreTypes, offset <= Len(recs), NEW rows \in Nat, LoadRows(rows)
    PROVE  Unread = loaded' \o Backlog'
<1> DEFINE n == Greater(0, Lesser(rows, Len(recs) - offset))
<1>1. /\ loaded' = SubSeq(recs, offset + 1, offset + n)
      /\ offset' = offset + n /\ recs' = recs
      /\ trunc["load"].at = "idle"
      /\ trunc' = IF CleanThreshold < offset'
                THEN [trunc EXCEPT !["load"] = TruncateCall(<<>>, <<>>)]
                ELSE trunc
    BY DEF LoadRows, MutexFree
<1>2. Len(recs) \in Nat /\ offset \in Nat /\ n \in 0 .. Len(recs) - offset
    BY DEF Greater, Lesser, StoreTypes
<1> HIDE DEF n
<1>3. trunc'["load"].at \in {"idle", "read"}
    BY <1>1 DEF StoreTypes, TruncateCall
<1>4. Backlog' = SubSeq(recs, (offset + n) + 1, Len(recs))
    BY <1>1, <1>3 DEF Backlog, Unread
<1> DEFINE m == offset + 1
<1> DEFINE k == offset + n
<1>5. /\ m \in 1 .. Len(recs) + 1 /\ k \in m - 1 .. Len(recs)
      /\ Len(recs) \in k .. Len(recs)
    BY <1>2
<1> HIDE DEF m, k
<1>6. SubSeq(recs, m, k) \o SubSeq(recs, k + 1, Len(recs)) = SubSeq(recs, m, Len(recs))
    BY <1>5, ConcatAdjacentSubSeq DEF StoreTypes
<1>7. QED
    BY <1>1, <1>4, <1>6 DEF m, k, Unread

(* A Truncate changes nothing of what is unread.                             *)
LEMMA TruncateQueue ==
    ASSUME StoreTypes, FileInv, TruncateStep("load"), open
    PROVE  FileInv' /\ Backlog' = Backlog /\ UNCHANGED <<open, loaded>>
<1> DEFINE t == trunc["load"]
<1>0. /\ t \in TruncateState /\ trunc \in [{"load", "stop"} -> TruncateState]
      /\ recs \in Seq(Records) /\ Len(recs) \in Nat
    BY DEF StoreTypes
<1>a. UNCHANGED <<open, loaded>>
    BY DEF TruncateStep, TruncateRead, TruncateZero, TruncateWrite, TruncateReset
<1>1. CASE TruncateRead("load")
    <2>1. /\ t.at = "read" /\ trunc'["load"].at = "zero"
          /\ trunc'["load"].before = t.before /\ trunc'["load"].after = t.after
          /\ trunc'["load"].keep = Unread
          /\ UNCHANGED <<recs, offset, pos>>
        BY <1>0, <1>1 DEF TruncateRead, TruncateState
    <2>2. Unread' = Unread
        BY <2>1 DEF Unread
    <2>3. QED
        BY <2>1, <2>2, <1>a DEF FileInv, Backlog
<1>2. CASE TruncateZero("load")
    <2>1. /\ t.at = "zero" /\ trunc'["load"].at = "before"
          /\ trunc'["load"].before = t.before /\ trunc'["load"].after = t.after
          /\ trunc'["load"].keep = t.keep
          /\ recs' = <<>> /\ pos' = 0
        BY <1>0, <1>2 DEF TruncateZero, TruncateState
    <2>2. QED
        BY <2>1, <1>a DEF FileInv, Backlog
<1>3. CASE TruncateWrite("load")
    <2>1. PICK piece \in {"before", "keep", "after"} :
              /\ t.at = piece
              /\ Write(t[piece])
              /\ trunc' = [trunc EXCEPT !["load"].at =
                   CASE piece = "before" -> "keep" [] piece = "keep" -> "after"
                     [] piece = "after" -> "reset"]
        BY <1>3 DEF TruncateWrite
    <2>2. /\ trunc'["load"].before = t.before /\ trunc'["load"].after = t.after
          /\ trunc'["load"].keep = t.keep
          /\ trunc'["load"].at = CASE piece = "before" -> "keep" [] piece = "keep" -> "after"
                 [] piece = "after" -> "reset"
        BY <1>0, <2>1 DEF TruncateState
    <2>3. /\ t[piece] \in Seq(Records) /\ t.keep \in Seq(Records)
          /\ pos = Len(recs) /\ t.before = <<>> /\ t.after = <<>>
        BY <1>0, <2>1 DEF TruncateState, FileInv
    <2>4. recs' = recs \o t[piece] /\ pos' = Len(recs')
        BY <2>1, <2>3, WriteEnd
    <2>5. CASE piece = "before"
        <3>1. recs' = <<>>
            BY <2>1, <2>3, <2>4, <2>5 DEF FileInv
        <3>2. QED
            BY <2>1, <2>2, <2>3, <2>4, <2>5, <3>1, <1>a DEF FileInv, Backlog
    <2>6. CASE piece = "keep"
        <3>1. recs = <<>> /\ recs' = recs \o t.keep
            BY <2>1, <2>4, <2>6 DEF FileInv
        <3>2. recs' = t.keep
            BY <2>3, <3>1, ConcatEmpty
        <3>3. QED
            BY <2>1, <2>2, <2>3, <2>4, <2>6, <3>2, <1>a DEF FileInv, Backlog
    <2>7. CASE piece = "after"
        <3>1. recs = t.keep /\ recs' = recs \o <<>>
            BY <2>1, <2>3, <2>4, <2>7 DEF FileInv
        <3>2. recs' = t.keep
            BY <2>3, <3>1, ConcatEmpty
        <3>3. QED
            BY <2>1, <2>2, <2>3, <2>4, <2>7, <3>2, <1>a DEF FileInv, Backlog
    <2>8. QED
        BY <2>5, <2>6, <2>7
<1>4. CASE TruncateReset("load")
    <2>1. /\ t.at = "reset" /\ trunc'["load"] = Idle
          /\ recs' = recs /\ pos' = pos /\ offset' = 0
        BY <1>0, <1>4 DEF TruncateReset
    <2>2. trunc'["load"].at = "idle"
        BY <2>1, IdleType
    <2>3. Unread' = recs
        BY <1>0, <2>1, SubSeqFull DEF Unread
    <2>4. QED
        BY <1>0, <2>1, <2>2, <2>3, <1>a DEF FileInv, Backlog
<1>5. QED
    BY <1>a, <1>1, <1>2, <1>3, <1>4 DEF TruncateStep

(* What a Truncate leaves in the types (store.go:88-134).                    *)
LEMMA TruncateTypes ==
    ASSUME StoreTypes, TruncateStep("load"), next' = next
    PROVE  StoreTypes'
<1> USE DEF StoreTypes, TruncateState
<1>1. CASE TruncateRead("load")
    <2>1. Unread \in Seq(Records)
        BY UnreadAllType
    <2>2. QED
        BY <1>1, <2>1 DEF TruncateRead
<1>2. CASE TruncateZero("load")
    <2>1. /\ recs' = <<>> /\ pos' = 0 /\ trunc' = [trunc EXCEPT !["load"].at = "before"]
          /\ UNCHANGED <<offset, open, loaded, faults>>
        BY <1>2 DEF TruncateZero
    <2>2. recs' \in Seq(Records)
        BY <2>1, EmptySeq
    <2>3. QED
        BY <2>1, <2>2
<1>3. CASE TruncateWrite("load")
    <2>1. PICK piece \in {"before", "keep", "after"} :
              /\ Write(trunc["load"][piece])
              /\ trunc' = [trunc EXCEPT !["load"].at =
                   CASE piece = "before" -> "keep" [] piece = "keep" -> "after"
                     [] piece = "after" -> "reset"]
              /\ UNCHANGED <<offset, open, loaded, faults>>
        BY <1>3 DEF TruncateWrite
    <2>2. trunc["load"][piece] \in Seq(Records)
        OBVIOUS
    <2>3. recs' \in Seq(Records) /\ pos' \in Nat
        BY <2>1, <2>2, WriteTypes
    <2>4. QED
        BY <2>1, <2>3
<1>4. CASE TruncateReset("load")
    BY <1>4 DEF TruncateReset, Idle
<1>5. QED
    BY <1>1, <1>2, <1>3, <1>4 DEF TruncateStep

(* The requests of one Store.                                                *)
LEMMA BatchType ==
    ASSUME StoreTypes, NEW n \in 1 .. Rows, next + n <= MaxRecords + 1
    PROVE  Batch(n) \in Seq(Records) /\ Len(Batch(n)) = n
<1>1. n \in Nat /\ next \in Nat \ {0} /\ MaxRecords \in Nat
    BY Bounds DEF StoreTypes
<1>2. \A i \in 1 .. n : next + i - 1 \in Records
    BY <1>1 DEF Records
<1>3. QED
    BY <1>1, <1>2 DEF Batch

LEMMA BacklogType == StoreTypes => Backlog \in Seq(Records)
<1>1. StoreTypes => Unread \in Seq(Records)
    BY UnreadAllType
<1>2. QED
    BY <1>1 DEF Backlog, StoreTypes, TruncateState

LEMMA StoreInit == Init => StoreTypes /\ FileInv
<1> SUFFICES ASSUME Init PROVE StoreTypes /\ FileInv
    OBVIOUS
<1>1. /\ recs = <<>> /\ offset = 0 /\ pos = 0 /\ open = FALSE /\ loaded = <<>> /\ faults = 0
      /\ next = 1 /\ trunc = [c \in {"load", "stop"} |-> Idle]
    BY DEF Init, Callers
<1>2. StoreTypes
    <2>1. recs \in Seq(Records) /\ loaded \in Seq(Records)
        BY <1>1, EmptySeq
    <2>2. trunc \in [{"load", "stop"} -> TruncateState]
        BY <1>1, IdleType
    <2>3. faults \in 0 .. MaxFaults /\ next \in 1 .. MaxRecords + 1
        BY <1>1, Bounds
    <2>4. QED
        BY <1>1, <2>1, <2>2, <2>3 DEF StoreTypes
<1>3. FileInv
    BY <1>1, IdleType DEF FileInv
<1>4. QED
    BY <1>2, <1>3

LEMMA TypesStep == StoreTypes /\ [Next]_vars => StoreTypes'
<1> SUFFICES ASSUME StoreTypes, [Next]_vars PROVE StoreTypes'
    OBVIOUS
<1>1. CASE OpenFile /\ UNCHANGED next
    BY <1>1 DEF OpenFile, StoreTypes
<1>2. CASE ClientStore
    <2>1. PICK n \in 1 .. Rows : next + n <= MaxRecords + 1 /\ Store(Batch(n)) /\ next' = next + n
        BY <1>2 DEF ClientStore
    <2>2. recs' \in Seq(Records) /\ pos' \in Nat
        BY <2>1, BatchType, WriteTypes DEF Store
    <2>3. next' \in 1 .. MaxRecords + 1
        BY <2>1, Bounds DEF StoreTypes
    <2>4. QED
        BY <2>1, <2>2, <2>3 DEF Store, StoreTypes
<1>3. CASE ClientLoad
    <2>1. PICK rows \in 1 .. Rows : LoadRows(rows) /\ next' = next
        BY <1>3 DEF ClientLoad
    <2>2. rows \in Nat
        BY Bounds
    <2>3. QED
        BY <2>1, <2>2, LoadRowsTypes
<1>4. CASE TruncateStep("load") /\ UNCHANGED next
    BY <1>4, TruncateTypes
<1>5. CASE UNCHANGED vars
    BY <1>5 DEF vars, fileVars, StoreTypes
<1>6. QED
    BY <1>1, <1>2, <1>3, <1>4, <1>5 DEF Next

(* The ends of a concatenation.                                              *)
LEMMA Ends ==
    ASSUME NEW S, NEW s \in Seq(S), NEW t \in Seq(S)
    PROVE  /\ SubSeq(s \o t, 1, Len(s)) = s
           /\ SubSeq(s \o t, Len(s) + 1, Len(s \o t)) = t
           /\ Len(s \o t) = Len(s) + Len(t)
<1>1. Len(s) \in Nat /\ Len(t) \in Nat /\ Len(s \o t) = Len(s) + Len(t)
    BY ConcatProperties
<1>2. SubSeq(s \o t, 1, Len(s)) = SubSeq(s, 1, Len(s))
    BY <1>1, SubSeqOfConcat1
<1> DEFINE m == Len(s) + 1
<1> DEFINE n == Len(s) + Len(t)
<1>3. m \in Len(s) + 1 .. Len(s) + Len(t) + 1 /\ n \in m - 1 .. Len(s) + Len(t)
      /\ m - Len(s) = 1 /\ n - Len(s) = Len(t)
    BY <1>1
<1> HIDE DEF m, n
<1>4. SubSeq(s \o t, m, n) = SubSeq(t, m - Len(s), n - Len(s))
    BY <1>3, SubSeqOfConcat2
<1>5. QED
    BY <1>1, <1>2, <1>3, <1>4, SubSeqFull DEF m, n
-----------------------------------------------------------------------------
(* Every step of the store is a step of the queue or none of its business    *)
(* (store.go:50-134).                                                        *)
LEMMA QueueStep ==
    ASSUME StoreTypes, FileInv, FitsInOneRead, [Next]_vars
    PROVE  FileInv' /\ [Disk!Next]_(Disk!vars)
<1>1. recs \in Seq(Records) /\ Len(recs) \in Nat /\ offset \in Nat /\ Unread \in Seq(Records)
    BY UnreadAllType DEF StoreTypes
<1>2. CASE OpenFile /\ UNCHANGED next
    <2>1. recs = <<>> /\ offset = 0 /\ UNCHANGED <<recs, offset, trunc, loaded, next>>
          /\ open' = TRUE /\ pos' = 0
        BY <1>2 DEF OpenFile, FileInv
    <2>2. FileInv' /\ Backlog' = Backlog
        BY <2>1 DEF FileInv, Backlog, Unread
    <2>3. QED
        BY <2>1, <2>2 DEF Disk!vars
<1>3. CASE ClientStore
    <2>1. PICK n \in 1 .. Rows : next + n <= MaxRecords + 1 /\ Store(Batch(n)) /\ next' = next + n
        BY <1>3 DEF ClientStore
    <2>2. /\ Batch(n) \in Seq(Records) /\ Write(Batch(n)) /\ open /\ trunc["load"].at = "idle"
          /\ UNCHANGED <<offset, open, trunc, loaded>>
        BY <2>1, BatchType DEF Store, MutexFree
    <2>3. /\ recs' = recs \o Batch(n) /\ pos' = Len(recs') /\ Len(recs') = Len(recs) + Len(Batch(n))
        BY <2>2, WriteEnd DEF FileInv
    <2>4. Unread' = Unread \o Batch(n) /\ offset <= Len(recs)
        BY <2>2, <2>3, UnreadGrows DEF FileInv
    <2>5. Len(Batch(n)) \in Nat
        BY <2>2
    <2>6. offset' <= Len(recs')
        BY <1>1, <2>2, <2>3, <2>4, <2>5
    <2>7. FileInv'
        BY <2>2, <2>3, <2>6 DEF FileInv
    <2>8. Backlog' = Backlog \o Batch(n)
        BY <2>2, <2>4 DEF Backlog
    <2>9. Disk!Store
        BY <2>1, <2>2, <2>8 DEF Disk!Store, Batch
    <2>10. QED
        BY <2>7, <2>9 DEF Disk!Next
<1>4. CASE ClientLoad
    <2>1. PICK rows \in 1 .. Rows : LoadRows(rows) /\ next' = next
        BY <1>4 DEF ClientLoad
    <2>2. rows \in Nat /\ open /\ trunc["load"].at = "idle" /\ open' = open /\ recs' = recs
        BY <2>1, Bounds DEF LoadRows, MutexFree
    <2>3. offset <= Len(recs) /\ Backlog = Unread /\ Len(recs) - offset <= Chunk
        <3>1. offset <= Len(recs) /\ Backlog = Unread
            BY <2>2 DEF FileInv, Backlog
        <3>2. Len(Unread) = Len(recs) - offset
            BY <3>1, UnreadAllType
        <3>3. QED
            BY <3>1, <3>2 DEF FitsInOneRead
    <2>4. Unread = loaded' \o Backlog'
        BY <2>1, <2>2, <2>3, LoadRowsQueue
    <2>5. pos' = Len(recs') /\ offset' <= Len(recs')
        BY <2>1, <2>2, <2>3, LoadRowsEnd
    <2>6. trunc'["load"] \in {trunc["load"], TruncateCall(<<>>, <<>>)}
        BY <2>1 DEF LoadRows, StoreTypes
    <2>7. FileInv'
        BY <2>2, <2>5, <2>6 DEF FileInv, TruncateCall
    <2>8. StoreTypes'
        BY <2>1, <2>2, LoadRowsTypes
    <2>9. loaded' \in Seq(Records) /\ Backlog' \in Seq(Records)
        <3>1. (StoreTypes => Backlog \in Seq(Records))'
            BY BacklogType, PTL
        <3>2. loaded' \in Seq(Records)
            BY <2>8 DEF StoreTypes
        <3>3. QED
            BY <2>8, <3>1, <3>2
    <2> DEFINE n == IF rows < Len(Unread) THEN rows ELSE Len(Unread)
    <2>10. Len(loaded') = n
        <3>1. Len(Unread) = Len(recs) - offset /\ Len(Unread) \in Nat
            BY <2>3, <1>1, UnreadAllType
        <3>2. Greater(0, Lesser(rows, Len(recs) - offset)) = n
            BY <2>2, <3>1 DEF Greater, Lesser
        <3>3. n \in Nat /\ offset + n <= Len(recs)
            BY <1>1, <2>2, <3>1
        <3> HIDE DEF n
        <3>4. loaded' = SubSeq(recs, offset + 1, offset + n)
            BY <2>1, <3>2 DEF LoadRows
        <3>5. QED
            BY <3>3, <3>4, UnreadType
    <2>11. /\ loaded' = SubSeq(Unread, 1, n)
           /\ Backlog' = SubSeq(Unread, n + 1, Len(Unread))
        <3> DEFINE a == loaded'
        <3> DEFINE b == Backlog'
        <3>1. a \in Seq(Records) /\ b \in Seq(Records) /\ Unread = a \o b /\ Len(a) = n
            BY <2>4, <2>9, <2>10
        <3> HIDE DEF a, b, n
        <3>2. SubSeq(a \o b, 1, n) = a /\ SubSeq(a \o b, n + 1, Len(a \o b)) = b
            BY <3>1, Ends
        <3>3. QED
            BY <3>1, <3>2 DEF a, b
    <2>12. Disk!Load
        BY <2>1, <2>3, <2>11 DEF Disk!Load
    <2>13. QED
        BY <2>7, <2>12 DEF Disk!Next
<1>5. CASE TruncateStep("load") /\ UNCHANGED next
    <2>1. open
        BY <1>5 DEF FileInv, TruncateStep, TruncateRead, TruncateZero, TruncateWrite,
           TruncateReset
    <2>2. FileInv' /\ Backlog' = Backlog /\ UNCHANGED <<open, loaded>>
        BY <1>5, <2>1, TruncateQueue
    <2>3. QED
        BY <1>5, <2>2 DEF Disk!vars
<1>6. CASE UNCHANGED vars
    <2>1. UNCHANGED <<recs, offset, pos, open, trunc, loaded, next>>
        BY <1>6 DEF vars, fileVars
    <2>2. QED
        BY <2>1 DEF FileInv, Backlog, Unread, Disk!vars
<1>7. QED
    BY <1>2, <1>3, <1>4, <1>5, <1>6 DEF Next
(* The file store keeps requests in order and hands each out once, for any   *)
(* size of the file, of its reads and of the calls, as long as what is       *)
(* unread fits in one read of the buffer (store.go:50-134).                  *)
THEOREM KeepsTheQueue == Spec /\ []FitsInOneRead => ImplementsDiskQueue
<1>1. Init => StoreTypes /\ FileInv
    BY StoreInit
<1>2. Init => Disk!Init
    <2> SUFFICES ASSUME Init PROVE Disk!Init
        OBVIOUS
    <2>1. recs = <<>> /\ offset = 0 /\ loaded = <<>> /\ next = 1 /\ trunc["load"].at = "idle"
        BY IdleType DEF Init, Callers
    <2>2. Unread = <<>>
        BY <2>1, SubSeqEmpty DEF Unread
    <2>3. QED
        BY <2>1, <2>2 DEF Disk!Init, Backlog
<1>3. StoreTypes /\ FileInv /\ FitsInOneRead /\ [Next]_vars
          => (StoreTypes /\ FileInv)' /\ [Disk!Next]_(Disk!vars)
    BY TypesStep, QueueStep
<1>4. QED
    BY <1>1, <1>2, <1>3, PTL DEF Spec, ImplementsDiskQueue, Disk!Spec
-----------------------------------------------------------------------------
(* The transactions, for any number of callers and connections (tx.go:14-41, *)
(* where nothing has happened)                                               *)
LEMMA TxInitIInv == Tx!Init => Tx!IInv
BY DEF Tx!Init, Tx!IInv, Tx!TypeOK, Tx!NilMeansCommitted

(* A step of caller c changes nothing of another caller d, and what it has   *)
(* returned stays.  (tx.go:14-41)                                            *)
LEMMA TxOthersStay ==
    ASSUME Tx!TypeOK, NEW c \in TxCallers, NEW d \in TxCallers, Tx!Step(c), c # d
    PROVE  /\ tx_pc'[d] = tx_pc[d] /\ tx'[d] = tx[d]
           /\ panicked'[d] = panicked[d] /\ result'[d] = result[d]
<1>1. CASE Tx!Begin(c)
    BY <1>1 DEF Tx!Begin, Tx!TypeOK, Tx!Goto, Tx!Becomes
<1>2. CASE Tx!Fn(c)
    BY <1>2 DEF Tx!Fn, Tx!TypeOK, Tx!Goto
<1>3. CASE Tx!FnFailed(c)
    BY <1>3
       DEF Tx!FnFailed, Tx!Rollback, Tx!Finish, Tx!Return, Tx!TypeOK, Tx!Goto,
           Tx!Becomes
<1>4. CASE Tx!Recover(c)
    BY <1>4
       DEF Tx!Recover, Tx!Rollback, Tx!Finish, Tx!Return, Tx!TypeOK, Tx!Goto,
           Tx!Becomes
<1>5. CASE Tx!Commit(c)
    BY <1>5 DEF Tx!Commit, Tx!Finish, Tx!Return, Tx!TypeOK, Tx!Goto, Tx!Becomes
<1>6. QED
    BY <1>1, <1>2, <1>3, <1>4, <1>5 DEF Tx!Step

(* (tx.go:14-41, each step)                                                  *)
LEMMA TxNextIInv == Tx!IInv /\ [Tx!Next]_(Tx!txvars) => Tx!IInv'
<1> SUFFICES ASSUME Tx!IInv, [Tx!Next]_(Tx!txvars) PROVE Tx!IInv'
    OBVIOUS
<1>1. CASE UNCHANGED Tx!txvars
    BY <1>1 DEF Tx!IInv, Tx!TypeOK, Tx!NilMeansCommitted, Tx!txvars
<1>2. ASSUME NEW c \in TxCallers, Tx!Step(c) PROVE Tx!IInv'
    <2>1. Tx!TypeOK /\ Tx!TypeOK'
        <3>1. CASE Tx!Begin(c)
            BY <3>1 DEF Tx!IInv, Tx!Begin, Tx!TypeOK, Tx!Goto, Tx!Becomes
        <3>2. CASE Tx!Fn(c)
            BY <3>2 DEF Tx!IInv, Tx!Fn, Tx!TypeOK, Tx!Goto
        <3>3. CASE Tx!FnFailed(c)
            BY <3>3
               DEF Tx!IInv, Tx!FnFailed, Tx!Rollback, Tx!Finish, Tx!Return, Tx!TypeOK,
                   Tx!Goto, Tx!Becomes
        <3>4. CASE Tx!Recover(c)
            BY <3>4
               DEF Tx!IInv, Tx!Recover, Tx!Rollback, Tx!Finish, Tx!Return, Tx!TypeOK,
                   Tx!Goto, Tx!Becomes
        <3>5. CASE Tx!Commit(c)
            BY <3>5
               DEF Tx!IInv, Tx!Commit, Tx!CommitFailed, Tx!Finish, Tx!Return, Tx!TypeOK,
                   Tx!Goto, Tx!Becomes
        <3>6. QED
            BY <1>2, <3>1, <3>2, <3>3, <3>4, <3>5 DEF Tx!Step
    <2>2. /\ tx_pc'[c] = "recover" => panicked'[c]
          /\ tx_pc'[c] # "returned" => result'[c] = "none"
          /\ result'[c] = "nil" => tx'[c] = "committed" \/ panicked'[c]
        <3>1. CASE Tx!Begin(c)
            BY <3>1, <2>1
               DEF Tx!IInv, Tx!NilMeansCommitted, Tx!Begin, Tx!TypeOK, Tx!Goto,
                   Tx!Becomes
        <3>2. CASE Tx!Fn(c)
            <4>1. UNCHANGED <<tx, result>> /\ result[c] = "none"
                BY <3>2 DEF Tx!Fn, Tx!IInv
            <4>2. tx_pc'[c] = "recover" => panicked'[c]
                BY <3>2, <2>1 DEF Tx!Fn, Tx!TypeOK, Tx!Goto
            <4>3. QED
                BY <4>1, <4>2
        <3>3. CASE Tx!FnFailed(c)
            BY <3>3, <2>1 DEF Tx!FnFailed, Tx!Return, Tx!TypeOK, Tx!Goto
        <3>4. CASE Tx!Recover(c)
            BY <3>4, <2>1 DEF Tx!IInv, Tx!Recover, Tx!Return, Tx!TypeOK, Tx!Goto
        <3>5. CASE Tx!Commit(c)
            BY <3>5, <2>1
               DEF Tx!Commit, Tx!CommitFailed, Tx!Return, Tx!TypeOK, Tx!Goto,
                   Tx!Becomes
        <3>6. QED
            BY <1>2, <3>1, <3>2, <3>3, <3>4, <3>5 DEF Tx!Step
    <2>3. ASSUME NEW d \in TxCallers
          PROVE  /\ tx_pc'[d] = "recover" => panicked'[d]
                 /\ tx_pc'[d] # "returned" => result'[d] = "none"
                 /\ result'[d] = "nil" => tx'[d] = "committed" \/ panicked'[d]
        BY <1>2, <2>1, <2>2, TxOthersStay DEF Tx!IInv, Tx!NilMeansCommitted
    <2>4. QED
        BY <2>1, <2>3 DEF Tx!IInv, Tx!NilMeansCommitted
<1>3. QED
    BY <1>1, <1>2 DEF Tx!Next
-----------------------------------------------------------------------------
(* The logs.  Cardinality is that of FiniteSetTheorems.                      *)
LEMMA SameSet ==
    ASSUME NEW S
    PROVE  (Logs!IsFiniteSet(S) <=> IsFiniteSet(S)) /\ Logs!Cardinality(S) = Cardinality(S)
<1>1. Logs!IsFiniteSet(S) <=> IsFiniteSet(S)
    BY DEF Logs!IsFiniteSet, IsFiniteSet
<1>2. Logs!Cardinality(S) = Cardinality(S)
    BY DEF Logs!Cardinality, Cardinality
<1>3. QED
    BY <1>1, <1>2

LEMMA SizeType == ASSUME NEW S, Logs!IsFiniteSet(S) PROVE Logs!Cardinality(S) \in Nat
BY SameSet, FS_CardinalityType

LEMMA SizeSubset ==
    ASSUME NEW S, Logs!IsFiniteSet(S), NEW T \in SUBSET S
    PROVE  Logs!IsFiniteSet(T) /\ Logs!Cardinality(T) <= Logs!Cardinality(S)
<1>1. IsFiniteSet(S)
    BY SameSet
<1>2. IsFiniteSet(T) /\ Cardinality(T) <= Cardinality(S)
    BY <1>1, FS_Subset
<1>3. QED
    BY <1>2, SameSet

LEMMA SizeAdds ==
    ASSUME NEW S, Logs!IsFiniteSet(S), NEW x, x \notin S
    PROVE  Logs!Cardinality(S \cup {x}) = Logs!Cardinality(S) + 1
<1>1. IsFiniteSet(S)
    BY SameSet
<1>2. Cardinality(S \cup {x}) = Cardinality(S) + 1
    BY <1>1, FS_AddElement
<1>3. QED
    BY <1>2, SameSet

LEMMA SizeEmpty == Logs!Cardinality({}) = 0
BY SameSet, FS_EmptySet

(* The files whose uploads the properties are about, and where one may be.   *)
Recent == Files \ old
Beyond == uploaded \cup swept \cup torn
Accounted == Logs!Copies \cup zip.files \cup Beyond

Began == Logs!Steps \ {"new", "copy", "ended"}
Writing == {"fill", "purge", "close"}

(* What a walk has passed is somewhere else too; after the walk that is      *)
(* everything, and an archive is made only then.                             *)
CopiedSoFar == \A c \in Calls : pc[c] = "copy" => Recent \ todo[c] \subseteq Accounted
CallsCopied == \A c \in Calls : pc[c] \in Began => Recent \subseteq Accounted
ZipCopied == zip.state # "none" => Recent \subseteq Accounted

(* One call at most writes an archive that nobody has truncated; it has      *)
(* everything when the copies are removed.                                   *)
NoZipIsEmpty == zip.state = "none" => zip = Logs!NoZip
WritersOpen == \A c \in zip.by : pc[c] \in Writing => zip.state \in {"open", "garbled"}
OneWriter == zip.state = "open" =>
    \A c, d \in zip.by : pc[c] \in Writing /\ pc[d] \in Writing => c = d
Fresh == zip.state = "open" => \A c \in zip.by : pc[c] = "fill" => zip.files = {}
ArchiveWhole == zip.state = "open" =>
    \A c \in zip.by : pc[c] \in {"purge", "close"} => Recent \subseteq zip.files \cup Beyond
GarbledElsewhere == zip.state = "garbled" => zip.files \subseteq Logs!Copies \cup Beyond

(* What a call uploads, and what it then removes.                            *)
TakenWhole == ~reused => \A c \in zip.by : pc[c] = "upload" =>
    zip.state = "garbled" \/ (zip.state = "closed" /\ Recent \subseteq zip.files \cup Beyond)
CleansOwn == \A c \in zip.by : pc[c] = "clean" =>
    \/ zip.state = "garbled"
    \/ Recent \subseteq Beyond
    \/ zip.state = "closed" /\ zip.files \subseteq uploaded
AllBeyond == ~reused => \A c \in Calls : pc[c] \in {"clean", "success"} => Recent \subseteq Beyond

(* The attempts are counted, and every cleaner was started by a call.        *)
AttemptsLeft == \A c \in Calls :
    /\ pc[c] \in {"new", "copy", "remove"} => attempt[c] = 0
    /\ pc[c] # "ended" => attempt[c] < Attempts
Begun == {c \in Calls : pc[c] # "new"}
CleanersCounted == cleaners <= Logs!Cardinality(Begun)

CallInv == CopiedSoFar /\ CallsCopied /\ ZipCopied
ZipInv ==
    NoZipIsEmpty /\ WritersOpen /\ OneWriter /\ Fresh /\ ArchiveWhole /\ GarbledElsewhere
EndInv == TakenWhole /\ CleansOwn /\ AllBeyond
LogsInv ==
    /\ Logs!TypeOK /\ CallInv /\ ZipInv /\ EndInv
    /\ AttemptsLeft /\ CleanersCounted
    /\ Logs!NotLost

-----------------------------------------------------------------------------
(* (pipeline.go:39, before the first call)                                   *)
LEMMA LogsInit == ASSUME Logs!LogAssumption PROVE Logs!Init => LogsInv
<1> SUFFICES ASSUME Logs!Init PROVE LogsInv
    OBVIOUS
<1>1. old \subseteq Files /\ Logs!Cardinality(Calls) \in Nat
    BY SizeType DEF Logs!Init, Logs!LogAssumption
<1>2. Logs!TypeOK
    <2>1. /\ pc \in [Calls -> Logs!Steps] /\ todo \in [Calls -> SUBSET Files]
          /\ attempt \in [Calls -> 0..Attempts]
        BY DEF Logs!LogAssumption, Logs!Init, Logs!Steps
    <2>2. /\ zip \in [state : {"none", "open", "closed", "garbled"}, files : SUBSET Files,
                      by : SUBSET Calls]
          /\ tmp \in [Files -> {"no", "part", "whole"}]
        BY DEF Logs!Init, Logs!NoZip
    <2>3. /\ cleaners \in 0..Logs!Cardinality(Calls)
          /\ log_faults \in 0..MaxLogFaults /\ ageing \in 0..MaxAgeing
        BY <1>1 DEF Logs!LogAssumption, Logs!Init
    <2>4. QED
        BY <1>1, <2>1, <2>2, <2>3 DEF Logs!Init, Logs!TypeOK
<1>3. CallInv /\ ZipInv /\ EndInv
    BY DEF Logs!Init, Logs!NoZip, Began, Logs!Steps, Writing, CallInv, CopiedSoFar, CallsCopied,
               ZipCopied,
       ZipInv, NoZipIsEmpty, WritersOpen, OneWriter, Fresh, ArchiveWhole, GarbledElsewhere,
       EndInv, TakenWhole, CleansOwn, AllBeyond
<1>4. AttemptsLeft
    BY DEF Logs!LogAssumption, Logs!Init, AttemptsLeft
<1>5. CleanersCounted
    <2>1. Begun = {}
        BY DEF Logs!Init, Begun
    <2>2. QED
        BY <2>1, SizeEmpty DEF Logs!Init, CleanersCounted
<1>6. Logs!NotLost
    BY DEF Logs!Init, Logs!NotLost
<1>7. QED
    BY <1>2, <1>3, <1>4, <1>5, <1>6 DEF LogsInv

(* Calls that have begun stay so, and no cleaner comes without a call.       *)
LEMMA CleanersStayCounted ==
    ASSUME Logs!LogAssumption, Logs!TypeOK, CleanersCounted, Begun \subseteq Begun',
           cleaners' \in {cleaners, cleaners - 1, 0}, cleaners' \in Nat
    PROVE  CleanersCounted'
<1>1. Logs!IsFiniteSet(Begun') /\ Logs!IsFiniteSet(Begun)
    BY SizeSubset DEF Begun, Logs!LogAssumption
<1>2. Logs!Cardinality(Begun) \in Nat /\ Logs!Cardinality(Begun') \in Nat
      /\ Logs!Cardinality(Begun) <= Logs!Cardinality(Begun')
    BY <1>1, SizeSubset, SizeType
<1>3. QED
    BY <1>2 DEF CleanersCounted, Logs!TypeOK

(* The loop of UploadLog (pipeline.go:54-65).                                *)
LEMMA RetryRight ==
    ASSUME Logs!LogAssumption, LogsInv, NEW c \in Calls, Logs!Retry(c),
           pc[c] \notin {"new", "copy", "remove", "ended"}
    PROVE  /\ pc' \in {[pc EXCEPT ![c] = "archive"], [pc EXCEPT ![c] = "ended"]}
           /\ attempt' \in [Calls -> 0..Attempts]
           /\ AttemptsLeft'
<1>1. /\ attempt[c] \in 0..Attempts - 1 /\ attempt'[c] = attempt[c] + 1
      /\ attempt' = [attempt EXCEPT ![c] = @ + 1]
    BY DEF Logs!Retry, LogsInv, AttemptsLeft, Logs!TypeOK, Logs!LogAssumption
<1>2. pc' = [pc EXCEPT ![c] = IF attempt'[c] < Attempts THEN "archive" ELSE "ended"]
    BY DEF Logs!Retry, Logs!Goto
<1>3. attempt' \in [Calls -> 0..Attempts]
    BY <1>1 DEF LogsInv, Logs!TypeOK, Logs!LogAssumption
<1>4. AttemptsLeft'
    BY <1>1, <1>2 DEF LogsInv, AttemptsLeft, Logs!TypeOK
<1>5. QED
    BY <1>2, <1>3, <1>4

(* An attempt that fails and leaves the files alone (pipeline.go:54-65).     *)
LEMMA AttemptFailed ==
    ASSUME Logs!LogAssumption, LogsInv, NEW c \in Calls, Logs!Retry(c),
           pc[c] \in Logs!Steps \ {"new", "copy", "remove", "success", "ended"},
           log_faults' \in {log_faults, log_faults + 1}, log_faults' # log_faults =>
               log_faults < MaxLogFaults,
           UNCHANGED <<Logs!config, source, dir, tmp, expired, cleaners, listed, todo, ageing,
                       swept, zip, uploaded>>,
           torn' \in SUBSET Files, torn \subseteq torn', reused' = reused
    PROVE  LogsInv'
<1>1. /\ pc' \in {[pc EXCEPT ![c] = "archive"], [pc EXCEPT ![c] = "ended"]}
      /\ attempt' \in [Calls -> 0..Attempts]
      /\ AttemptsLeft'
    BY RetryRight
<1>2. Logs!TypeOK'
    <2>1. pc' \in [Calls -> Logs!Steps] /\ log_faults' \in 0..MaxLogFaults
        BY <1>1 DEF LogsInv, Logs!TypeOK, Logs!Steps, Logs!LogAssumption
    <2>2. QED
        BY <1>1, <2>1 DEF LogsInv, Logs!TypeOK, Logs!config
<1>3. Recent' = Recent /\ Beyond \subseteq Beyond' /\ Accounted \subseteq Accounted'
      /\ Logs!Copies' = Logs!Copies
    BY DEF Recent, Beyond, Accounted, Logs!Copies, Logs!config
<1>4. CallInv'
    BY <1>1, <1>3 DEF LogsInv, CallInv, CopiedSoFar, CallsCopied, ZipCopied, Logs!TypeOK, Began,
                          Logs!Steps
<1>5. ZipInv'
    BY <1>1, <1>3 DEF LogsInv, ZipInv, NoZipIsEmpty, WritersOpen, OneWriter, Fresh,
       ArchiveWhole, GarbledElsewhere, Logs!NoZip, Logs!TypeOK, Writing
<1>6. EndInv'
    BY <1>1, <1>3 DEF LogsInv, EndInv, TakenWhole, CleansOwn, AllBeyond, Logs!TypeOK
<1>7. CleanersCounted'
    <2>1. Begun \subseteq Begun'
        BY <1>1 DEF Begun, LogsInv, Logs!TypeOK
    <2>2. QED
        BY <2>1, CleanersStayCounted DEF LogsInv, Logs!TypeOK
<1>8. Logs!NotLost'
    BY <1>3 DEF LogsInv, Logs!NotLost, Logs!config, Recent, Accounted, Beyond
<1>9. QED
    BY <1>1, <1>2, <1>4, <1>5, <1>6, <1>7, <1>8 DEF LogsInv

(* A call that ends and leaves the files alone.                              *)
LEMMA CallEnds ==
    ASSUME Logs!LogAssumption, LogsInv, NEW c \in Calls, pc' = [pc EXCEPT ![c] = "ended"],
           UNCHANGED <<Logs!config, source, dir, tmp, zip, expired, cleaners, listed, todo,
                       attempt, uploaded, log_faults, ageing, Logs!history>>
    PROVE  LogsInv'
<1>1. Recent' = Recent /\ Beyond' = Beyond /\ Accounted' = Accounted /\ Logs!Copies' = Logs!Copies
    BY DEF Recent, Beyond, Accounted, Logs!Copies, Logs!config, Logs!history
<1>2. Logs!TypeOK'
    <2>1. pc' \in [Calls -> Logs!Steps]
        BY DEF LogsInv, Logs!TypeOK, Logs!Steps
    <2>2. QED
        BY <2>1 DEF LogsInv, Logs!TypeOK, Logs!config, Logs!history
<1>3. CallInv'
    BY <1>1 DEF LogsInv, CallInv, CopiedSoFar, CallsCopied, ZipCopied, Logs!TypeOK, Began
<1>4. ZipInv'
    BY <1>1 DEF LogsInv, ZipInv, NoZipIsEmpty, WritersOpen, OneWriter, Fresh,
       ArchiveWhole, GarbledElsewhere, Logs!NoZip, Logs!TypeOK, Writing
<1>5. EndInv'
    BY <1>1 DEF LogsInv, EndInv, TakenWhole, CleansOwn, AllBeyond, Logs!TypeOK, Logs!history
<1>6. AttemptsLeft'
    BY DEF LogsInv, AttemptsLeft, Logs!TypeOK
<1>7. CleanersCounted'
    <2>1. Begun \subseteq Begun'
        BY DEF Begun, LogsInv, Logs!TypeOK
    <2>2. QED
        BY <2>1, CleanersStayCounted DEF LogsInv, Logs!TypeOK
<1>8. Logs!NotLost'
    BY <1>1 DEF LogsInv, Logs!NotLost, Logs!config, Logs!history
<1>9. QED
    BY <1>2, <1>3, <1>4, <1>5, <1>6, <1>7, <1>8 DEF LogsInv

-----------------------------------------------------------------------------
(* The beginning of a call (move.go:39-60).                                  *)
LEMMA UploadLogStep ==
    ASSUME Logs!LogAssumption, LogsInv, NEW c \in Calls, Logs!UploadLog(c) PROVE LogsInv'
<1>1. /\ UNCHANGED <<Logs!config, source, tmp, zip, expired, listed, attempt, uploaded,
             log_faults,
                     ageing, swept, torn>>
      /\ pc[c] = "new" /\ cleaners' = cleaners + 1 /\ dir' \in BOOLEAN
      /\ reused \in BOOLEAN /\ reused' \in BOOLEAN /\ (reused => reused')
    BY DEF Logs!UploadLog, LogsInv, Logs!TypeOK, Logs!ReusesZip
<1>2. \/ pc' = [pc EXCEPT ![c] = "archive"] /\ todo' = todo /\ zip.state # "none"
      \/ pc' = [pc EXCEPT ![c] = "copy"] /\ todo' = [todo EXCEPT ![c] = source \ old]
    BY DEF Logs!UploadLog, Logs!Goto
<1>3. CleanersCounted'
    <2>1. Begun' = Begun \cup {c} /\ c \notin Begun /\ c \in Calls
        BY <1>1, <1>2 DEF Begun, LogsInv, Logs!TypeOK
    <2>2. Logs!IsFiniteSet(Begun)
        BY SizeSubset DEF Begun, Logs!LogAssumption
    <2>3. Logs!Cardinality(Begun') = Logs!Cardinality(Begun) + 1
              /\ Logs!Cardinality(Begun) \in Nat
        BY <2>1, <2>2, SizeAdds, SizeType
    <2>4. QED
        BY <1>1, <2>3 DEF CleanersCounted, LogsInv, Logs!TypeOK
<1>4. cleaners' \in 0..Logs!Cardinality(Calls)
    <2>1. Logs!Cardinality(Begun') <= Logs!Cardinality(Calls) /\ Logs!Cardinality(Begun') \in Nat
          /\ Logs!Cardinality(Calls) \in Nat
        BY SizeSubset, SizeType DEF Begun, Logs!LogAssumption
    <2>2. QED
        BY <1>1, <1>3, <2>1 DEF CleanersCounted, LogsInv, Logs!TypeOK
<1>5. Logs!TypeOK'
    <2>1. pc' \in [Calls -> Logs!Steps] /\ todo' \in [Calls -> SUBSET Files]
        BY <1>2 DEF LogsInv, Logs!TypeOK, Logs!Steps
    <2>2. QED
        BY <1>1, <1>4, <2>1 DEF LogsInv, Logs!TypeOK, Logs!config
<1>6. Recent' = Recent /\ Beyond' = Beyond /\ Accounted' = Accounted /\ Logs!Copies' = Logs!Copies
    BY <1>1 DEF Recent, Beyond, Accounted, Logs!Copies, Logs!config
<1>7. CallInv'
    BY <1>1, <1>2, <1>6 DEF LogsInv, CallInv, CopiedSoFar, CallsCopied, ZipCopied, Logs!TypeOK,
                                Began,
       Logs!NotLost, Accounted, Beyond, Recent
<1>8. ZipInv'
    BY <1>1, <1>2, <1>6 DEF LogsInv, ZipInv, NoZipIsEmpty, WritersOpen, OneWriter, Fresh,
       ArchiveWhole, GarbledElsewhere, Logs!NoZip, Logs!TypeOK, Writing
<1>9. EndInv'
    BY <1>1, <1>2, <1>6 DEF LogsInv, EndInv, TakenWhole, CleansOwn, AllBeyond, Logs!TypeOK
<1>10. AttemptsLeft'
    BY <1>1, <1>2 DEF LogsInv, AttemptsLeft, Logs!TypeOK
<1>11. Logs!NotLost'
    BY <1>1, <1>6 DEF LogsInv, Logs!NotLost, Logs!config
<1>12. QED
    BY <1>3, <1>5, <1>7, <1>8, <1>9, <1>10, <1>11 DEF LogsInv

(* One file of the walk                                                      *)
LEMMA CopyFileStep ==
    ASSUME Logs!LogAssumption, LogsInv, NEW c \in Calls, Logs!CopyFile(c) PROVE LogsInv'
<1> DEFINE same == <<Logs!config, source, zip, expired, cleaners, listed, attempt, uploaded,
                   ageing, Logs!history>>
<1>1. /\ UNCHANGED same
      /\ pc[c] = "copy" /\ pc' \in {pc, [pc EXCEPT ![c] = "ended"]}
      /\ log_faults' \in {log_faults, log_faults + 1} /\ (log_faults' # log_faults =>
             log_faults < MaxLogFaults)
      /\ dir' = TRUE
    BY DEF Logs!CopyFile, Logs!CopyFails, Logs!Goto, Logs!Fault
<1>2. PICK f \in todo[c] : 
         /\ todo' = [todo EXCEPT ![c] = @ \ {f}]
         /\ tmp' \in {[tmp EXCEPT ![f] = "whole"], [tmp EXCEPT ![f] = IF @ = "whole" THEN @
                ELSE "part"]}
         /\ pc' = pc => tmp' = [tmp EXCEPT ![f] = "whole"]
    BY DEF Logs!CopyFile, LogsInv, Logs!TypeOK, Logs!CopyFails, Logs!Goto, Logs!Fault, Logs!Steps
<1>3. Logs!TypeOK'
    BY <1>1, <1>2 DEF LogsInv, Logs!TypeOK, Logs!config, Logs!history, Logs!Steps,
                          Logs!LogAssumption
<1>4. Logs!Copies \subseteq Logs!Copies' /\ (pc' = pc => f \in Logs!Copies')
    BY <1>2 DEF LogsInv, Logs!TypeOK, Logs!Copies
<1>5. Recent' = Recent /\ Beyond' = Beyond /\ Accounted \subseteq Accounted'
    BY <1>1, <1>4 DEF Recent, Beyond, Accounted, Logs!config, Logs!history
<1>6. CallInv'
    BY <1>1, <1>2, <1>4, <1>5 DEF LogsInv, CallInv, CopiedSoFar, CallsCopied, ZipCopied,
                                      Logs!TypeOK, Began, Accounted
<1>7. ZipInv'
    BY <1>1, <1>4, <1>5 DEF LogsInv, ZipInv, NoZipIsEmpty, WritersOpen, OneWriter, Fresh,
                                ArchiveWhole, GarbledElsewhere, Logs!NoZip, Logs!TypeOK, Writing
<1>8. EndInv'
    BY <1>1, <1>5 DEF LogsInv, EndInv, TakenWhole, CleansOwn, AllBeyond, Logs!TypeOK, Logs!history
<1>9. AttemptsLeft'
    BY <1>1 DEF LogsInv, AttemptsLeft, Logs!TypeOK
<1>10. CleanersCounted'
    <2>1. Begun' = Begun
        BY <1>1 DEF Begun, LogsInv, Logs!TypeOK
    <2>2. QED
        BY <1>1, <2>1 DEF LogsInv, CleanersCounted
<1>11. Logs!NotLost'
    BY <1>1, <1>4 DEF LogsInv, Logs!NotLost, Logs!config, Logs!history
<1>12. QED
    BY <1>3, <1>6, <1>7, <1>8, <1>9, <1>10, <1>11 DEF LogsInv
(* The walk is over (move.go:57-64). *)
LEMMA CopyDoneStep ==
    ASSUME Logs!LogAssumption, LogsInv, NEW c \in Calls, Logs!CopyDone(c) PROVE LogsInv'
<1>1. /\ UNCHANGED <<Logs!config, source, dir, tmp, zip, expired, cleaners, listed, todo, attempt,
                     uploaded, log_faults, ageing, Logs!history>>
      /\ pc[c] = "copy" /\ todo[c] = {}
      /\ pc' \in {[pc EXCEPT ![c] = "remove"], [pc EXCEPT ![c] = "archive"]}
    BY DEF Logs!CopyDone, Logs!Goto
<1>2. Logs!TypeOK'
    <2>1. pc' \in [Calls -> Logs!Steps]
        BY <1>1 DEF LogsInv, Logs!TypeOK, Logs!Steps
    <2>2. QED
        BY <1>1, <2>1 DEF LogsInv, Logs!TypeOK, Logs!config, Logs!history
<1>3. Recent' = Recent /\ Beyond' = Beyond /\ Accounted' = Accounted /\ Logs!Copies' = Logs!Copies
    BY <1>1 DEF Recent, Beyond, Accounted, Logs!Copies, Logs!config, Logs!history
<1>4. CallInv'
    BY <1>1, <1>3 DEF LogsInv, CallInv, CopiedSoFar, CallsCopied, ZipCopied, Logs!TypeOK, Began
<1>5. ZipInv'
    BY <1>1, <1>3 DEF LogsInv, ZipInv, NoZipIsEmpty, WritersOpen, OneWriter, Fresh,
       ArchiveWhole, GarbledElsewhere, Logs!NoZip, Logs!TypeOK, Writing
<1>6. EndInv'
    BY <1>1, <1>3 DEF LogsInv, EndInv, TakenWhole, CleansOwn, AllBeyond, Logs!TypeOK, Logs!history
<1>7. AttemptsLeft'
    BY <1>1 DEF LogsInv, AttemptsLeft, Logs!TypeOK
<1>8. CleanersCounted'
    <2>1. Begun \subseteq Begun'
        BY <1>1 DEF Begun, LogsInv, Logs!TypeOK
    <2>2. QED
        BY <1>1, <2>1, CleanersStayCounted DEF LogsInv, Logs!TypeOK
<1>9. Logs!NotLost'
    BY <1>1, <1>3 DEF LogsInv, Logs!NotLost, Logs!config, Logs!history
<1>10. QED
    BY <1>2, <1>4, <1>5, <1>6, <1>7, <1>8, <1>9 DEF LogsInv

(* The sources go: what is recent has been copied by then (move.go:64-79).   *)
LEMMA RemoveSourceStep ==
    ASSUME Logs!LogAssumption, LogsInv, NEW c \in Calls, Logs!RemoveSource(c) PROVE LogsInv'
<1>1. /\ UNCHANGED <<Logs!config, dir, tmp, zip, expired, cleaners, listed, todo, attempt,
                     uploaded, ageing, Logs!history>>
      /\ pc[c] = "remove" /\ source' \subseteq source
      /\ pc' \in {[pc EXCEPT ![c] = "archive"], [pc EXCEPT ![c] = "ended"]}
      /\ log_faults' \in 0..MaxLogFaults
    BY DEF Logs!RemoveSource, Logs!Goto, Logs!Fault, LogsInv, Logs!TypeOK, Logs!LogAssumption
<1>2. Logs!TypeOK'
    <2>1. pc' \in [Calls -> Logs!Steps]
        BY <1>1 DEF LogsInv, Logs!TypeOK, Logs!Steps
    <2>2. QED
        BY <1>1, <2>1 DEF LogsInv, Logs!TypeOK, Logs!config, Logs!history
<1>3. Recent' = Recent /\ Beyond' = Beyond /\ Accounted' = Accounted /\ Logs!Copies' = Logs!Copies
    BY <1>1 DEF Recent, Beyond, Accounted, Logs!Copies, Logs!config, Logs!history
<1>4. CallInv'
    BY <1>1, <1>3 DEF LogsInv, CallInv, CopiedSoFar, CallsCopied, ZipCopied, Logs!TypeOK, Began,
                          Logs!Steps
<1>5. ZipInv'
    BY <1>1, <1>3 DEF LogsInv, ZipInv, NoZipIsEmpty, WritersOpen, OneWriter, Fresh,
       ArchiveWhole, GarbledElsewhere, Logs!NoZip, Logs!TypeOK, Writing
<1>6. EndInv'
    BY <1>1, <1>3 DEF LogsInv, EndInv, TakenWhole, CleansOwn, AllBeyond, Logs!TypeOK, Logs!history
<1>7. AttemptsLeft'
    BY <1>1 DEF LogsInv, AttemptsLeft, Logs!TypeOK
<1>8. CleanersCounted'
    <2>1. Begun \subseteq Begun'
        BY <1>1 DEF Begun, LogsInv, Logs!TypeOK
    <2>2. QED
        BY <1>1, <2>1, CleanersStayCounted DEF LogsInv, Logs!TypeOK
<1>9. Logs!NotLost'
    <2>1. Recent \subseteq Accounted
        BY <1>1 DEF LogsInv, CallInv, CallsCopied, Began, Logs!Steps
    <2>2. QED
        BY <1>3, <2>1 DEF Logs!NotLost, Recent, Accounted, Beyond
<1>10. QED
    BY <1>2, <1>4, <1>5, <1>6, <1>7, <1>8, <1>9 DEF LogsInv

(* zipArchive looks whether there is an archive (archive.go:67-75).          *)
LEMMA ArchiveStep ==
    ASSUME Logs!LogAssumption, LogsInv, NEW c \in Calls, Logs!Archive(c) PROVE LogsInv'
<1>1. /\ UNCHANGED <<Logs!config, source, dir, tmp, expired, cleaners, listed, todo, attempt,
                     uploaded, log_faults, ageing, swept, torn>>
      /\ pc[c] = "archive"
      /\ reused \in BOOLEAN /\ reused' \in BOOLEAN /\ (reused => reused')
    BY DEF Logs!Archive, LogsInv, Logs!TypeOK, Logs!ReusesZip
<1>2. \/ /\ pc' = [pc EXCEPT ![c] = "create"] /\ zip' = zip /\ zip.state = "none"
      \/ /\ pc' = [pc EXCEPT ![c] = "upload"]
         /\ zip' = [zip EXCEPT !.by = @ \cup {c}] /\ zip.state # "none"
         /\ ~reused' => zip.state # "open" /\ Logs!Copies \subseteq zip.files
    BY DEF Logs!Archive, Logs!Goto, Logs!Takes, Logs!ReusesZip, Logs!Incomplete
<1>3. /\ zip'.state = zip.state /\ zip'.files = zip.files
      /\ zip'.by \in {zip.by, zip.by \cup {c}}
      /\ zip' \in [state : {"none", "open", "closed", "garbled"}, files : SUBSET Files,
                   by : SUBSET Calls]
      /\ zip.state = "none" => zip' = zip
    BY <1>2 DEF LogsInv, Logs!TypeOK
<1>4. pc' \in [Calls -> Logs!Steps] /\ pc'[c] \in {"create", "upload"}
      /\ \A d \in Calls : d # c => pc'[d] = pc[d]
    BY <1>2 DEF LogsInv, Logs!TypeOK, Logs!Steps
<1>5. Logs!TypeOK'
    BY <1>1, <1>3, <1>4 DEF LogsInv, Logs!TypeOK, Logs!config
<1>6. /\ Recent' = Recent /\ Beyond' = Beyond /\ Accounted' = Accounted
             /\ Logs!Copies' = Logs!Copies
      /\ Recent \subseteq Accounted
    BY <1>1, <1>3 DEF Recent, Beyond, Accounted, Logs!Copies, Logs!config, LogsInv, CallInv,
                          CallsCopied,
       Began, Logs!Steps
<1>7. CallInv'
    BY <1>1, <1>4, <1>6 DEF LogsInv, CallInv, CopiedSoFar, CallsCopied, ZipCopied
<1>8. ZipInv'
    BY <1>1, <1>3, <1>4, <1>6 DEF LogsInv, ZipInv, NoZipIsEmpty, WritersOpen, OneWriter, Fresh,
       ArchiveWhole, GarbledElsewhere, Logs!NoZip, Logs!TypeOK, Writing
<1>9. TakenWhole'
    <2>1. CASE zip.state = "none"
        BY <1>3, <2>1 DEF LogsInv, ZipInv, NoZipIsEmpty, Logs!NoZip, TakenWhole
    <2>2. CASE zip.state # "none"
        BY <1>1, <1>2, <1>3, <1>4, <1>6, <2>2 DEF LogsInv, EndInv, TakenWhole, Logs!TypeOK,
                                                      Accounted
    <2>3. QED
        BY <2>1, <2>2
<1>10. CleansOwn' /\ AllBeyond'
    BY <1>1, <1>3, <1>4, <1>6 DEF LogsInv, EndInv, CleansOwn, AllBeyond, Logs!TypeOK
<1>11. AttemptsLeft'
    BY <1>1, <1>4 DEF LogsInv, AttemptsLeft, Logs!TypeOK
<1>12. CleanersCounted'
    <2>1. Begun \subseteq Begun'
        BY <1>1, <1>4 DEF Begun, LogsInv, Logs!TypeOK
    <2>2. QED
        BY <1>1, <2>1, CleanersStayCounted DEF LogsInv, Logs!TypeOK
<1>13. Logs!NotLost'
    BY <1>1, <1>6, <1>3 DEF LogsInv, Logs!NotLost, Logs!config
<1>14. QED
    BY <1>5, <1>7, <1>8, <1>9, <1>10, <1>11, <1>12, <1>13 DEF LogsInv, EndInv
(* createIfNeeded makes the archive, or truncates one (archive.go:182-193).  *)
LEMMA CreateStep ==
    ASSUME Logs!LogAssumption, LogsInv, NEW c \in Calls, Logs!Create(c) PROVE LogsInv'
<1>1. /\ UNCHANGED <<Logs!config, source, dir, tmp, cleaners, listed, todo, uploaded, ageing,
                     swept, reused>>
      /\ pc[c] = "create"
    BY DEF Logs!Create
<1>2. /\ Recent' = Recent /\ Logs!Copies' = Logs!Copies /\ Recent \subseteq Accounted
    BY <1>1 DEF Recent, Accounted, Logs!Copies, Logs!config, LogsInv, CallInv, CallsCopied,
                    Began, Logs!Steps
<1>3. ASSUME /\ pc' = [pc EXCEPT ![c] = "fill"] /\ attempt' = attempt /\ log_faults' = log_faults
             /\ zip' = [state |-> IF zip.state = "none" THEN "open" ELSE "garbled",
                        files |-> {}, by |-> zip.by \cup {c}]
             /\ torn' = torn \cup zip.files
             /\ expired' = expired \ {"zip"}
      PROVE  LogsInv'
    <2>1. Logs!TypeOK'
        <3>1. pc' \in [Calls -> Logs!Steps]
            BY <1>3 DEF LogsInv, Logs!TypeOK, Logs!Steps
        <3>2. zip' \in [state : {"none", "open", "closed", "garbled"}, files : SUBSET Files,
                        by : SUBSET Calls]
            BY <1>3 DEF LogsInv, Logs!TypeOK
        <3>3. QED
            BY <1>1, <1>3, <3>1, <3>2 DEF LogsInv, Logs!TypeOK, Logs!config
    <2>2. Beyond' = Beyond \cup zip.files /\ Recent \subseteq Accounted'
        BY <1>1, <1>2, <1>3 DEF Beyond, Accounted
    <2>3. zip.state = "none" => zip.by = {}
        BY DEF LogsInv, ZipInv, NoZipIsEmpty, Logs!NoZip
    <2>4. CallInv'
        BY <1>1, <1>2, <1>3, <2>2 DEF LogsInv, CallInv, CopiedSoFar, CallsCopied, ZipCopied,
                                          Logs!TypeOK
    <2>5. ZipInv'
        BY <1>1, <1>2, <1>3, <2>2, <2>3 DEF LogsInv, ZipInv, NoZipIsEmpty, WritersOpen, OneWriter,
           Fresh, ArchiveWhole, GarbledElsewhere, Logs!TypeOK, Writing
    <2>6. EndInv'
        BY <1>1, <1>2, <1>3, <2>2, <2>3 DEF LogsInv, EndInv, TakenWhole, CleansOwn, AllBeyond,
                                                Logs!TypeOK
    <2>7. AttemptsLeft'
        BY <1>1, <1>3 DEF LogsInv, AttemptsLeft, Logs!TypeOK
    <2>8. CleanersCounted'
        <3>1. Begun \subseteq Begun'
            BY <1>3 DEF Begun, LogsInv, Logs!TypeOK
        <3>2. QED
            BY <1>1, <3>1, CleanersStayCounted DEF LogsInv, Logs!TypeOK
    <2>9. Logs!NotLost'
        BY <1>2, <2>2 DEF Logs!NotLost, Recent, Accounted, Beyond
    <2>10. QED
        BY <2>1, <2>4, <2>5, <2>6, <2>7, <2>8, <2>9 DEF LogsInv
<1>4. ASSUME Logs!Fault, Logs!Retry(c), UNCHANGED <<zip, torn, expired>> PROVE LogsInv'
    <2>1. torn' \in SUBSET Files
              /\ pc[c] \in Logs!Steps \ {"new", "copy", "remove", "success", "ended"}
        BY <1>1, <1>4 DEF LogsInv, Logs!TypeOK, Logs!Steps
    <2>2. QED
        BY <1>1, <1>4, <2>1, AttemptFailed DEF Logs!Fault
<1>5. QED
    BY <1>3, <1>4 DEF Logs!Create, Logs!Goto
(* The copies go into the archive, or some of them (archive.go:89-110).      *)
LEMMA FillStep ==
    ASSUME Logs!LogAssumption, LogsInv, NEW c \in Calls, Logs!Fill(c) PROVE LogsInv'
<1>1. /\ UNCHANGED <<Logs!config, source, dir, tmp, expired, cleaners, listed, todo, uploaded,
                     ageing, Logs!history>>
      /\ pc[c] = "fill"
    BY DEF Logs!Fill
<1>2. /\ pc' \in {[pc EXCEPT ![c] = step] : step \in {"purge", "archive", "ended"}}
      /\ attempt' \in [Calls -> 0..Attempts]
      /\ AttemptsLeft'
      /\ log_faults' \in 0..MaxLogFaults
    <2>1. CASE Logs!Goto(c, "purge") /\ UNCHANGED <<attempt, log_faults>>
        BY <1>1, <2>1 DEF Logs!Goto, LogsInv, AttemptsLeft, Logs!TypeOK
    <2>2. CASE Logs!Fault /\ \E done \in SUBSET Logs!Copies : Logs!ArchiveFails(c, done)
        <3>1. log_faults' \in 0..MaxLogFaults
            BY <2>2 DEF Logs!Fault, LogsInv, Logs!TypeOK, Logs!LogAssumption
        <3>2. CASE Logs!Retry(c)
            BY <1>1, <3>1, <3>2, RetryRight
        <3>3. CASE Logs!Goto(c, "ended") /\ UNCHANGED attempt
            BY <1>1, <3>1, <3>3 DEF Logs!Goto, LogsInv, AttemptsLeft, Logs!TypeOK
        <3>4. QED
            BY <2>2, <3>2, <3>3 DEF Logs!ArchiveFails
    <2>3. QED
        BY <2>1, <2>2 DEF Logs!Fill
<1>3. \E done \in SUBSET Logs!Copies :
         /\ zip' \in {zip, [zip EXCEPT !.files = done],
                      [zip EXCEPT !.files = done, !.state = Logs!Closed]}
         /\ c \notin zip.by => zip' = zip
         /\ pc' = [pc EXCEPT ![c] = "purge"] /\ c \in zip.by =>
                zip' = [zip EXCEPT !.files = Logs!Copies]
    <2>1. CASE Logs!Filled(c, Logs!Copies)
        <3>1. Logs!Copies \in SUBSET Logs!Copies
            OBVIOUS
        <3>2. QED
            BY <2>1, <3>1 DEF Logs!Filled
    <2>2. CASE Logs!Fault /\ \E done \in SUBSET Logs!Copies : Logs!ArchiveFails(c, done)
        <3>1. pc' # [pc EXCEPT ![c] = "purge"]
            <4>1. CASE Logs!Retry(c)
                BY <1>1, <4>1, RetryRight DEF LogsInv, Logs!TypeOK
            <4>2. CASE Logs!Goto(c, "ended")
                BY <4>2 DEF Logs!Goto, LogsInv, Logs!TypeOK
            <4>3. QED
                BY <2>2, <4>1, <4>2 DEF Logs!ArchiveFails
        <3>2. QED
            BY <2>2, <3>1 DEF Logs!ArchiveFails, Logs!Filled
    <2>3. QED
        BY <2>1, <2>2 DEF Logs!Fill
<1>4. PICK done \in SUBSET Logs!Copies :
         /\ zip' \in {zip, [zip EXCEPT !.files = done],
                      [zip EXCEPT !.files = done, !.state = Logs!Closed]}
         /\ c \notin zip.by => zip' = zip
         /\ pc' = [pc EXCEPT ![c] = "purge"] /\ c \in zip.by =>
                zip' = [zip EXCEPT !.files = Logs!Copies]
    BY <1>3
<1>5. /\ zip' \in [state : {"none", "open", "closed", "garbled"}, files : SUBSET Files,
                   by : SUBSET Calls]
      /\ zip'.by = zip.by
      /\ zip'.state = zip.state \/ (zip.state = "open" /\ zip'.state = "closed")
      /\ zip'.state = "closed" /\ zip.state = "open" => c \in zip.by /\ pc'[c] # "purge"
      /\ zip'.files = zip.files \/ (c \in zip.by /\ zip'.files \subseteq Logs!Copies)
      /\ pc'[c] = "purge" /\ c \in zip.by => zip'.files = Logs!Copies
    <2>1. Logs!Copies \subseteq Files
        BY DEF Logs!Copies
    <2>2. zip \in [state : {"none", "open", "closed", "garbled"}, files : SUBSET Files,
                   by : SUBSET Calls]
        BY DEF LogsInv, Logs!TypeOK
    <2>3. pc'[c] = "purge" => pc' = [pc EXCEPT ![c] = "purge"]
        BY <1>2 DEF LogsInv, Logs!TypeOK
    <2>4. c \notin zip.by => zip' = zip
        BY <1>4
    <2>5. pc'[c] = "purge" /\ c \in zip.by => zip' = [zip EXCEPT !.files = Logs!Copies]
        BY <1>4, <2>3
    <2>6. CASE zip' = zip
        BY <2>1, <2>2, <2>5, <2>6
    <2>7. CASE zip' = [zip EXCEPT !.files = done]
        BY <2>1, <2>2, <2>4, <2>5, <2>7
    <2>8. CASE zip' = [zip EXCEPT !.files = done, !.state = Logs!Closed]
        <3>1. Logs!Closed \in {"none", "open", "closed", "garbled"}
            BY <2>2 DEF Logs!Closed
        <3>2. /\ zip'.files = done /\ zip'.by = zip.by /\ zip'.state = Logs!Closed
              /\ done \subseteq Files
            BY <2>1, <2>2, <2>8
        <3>3. zip' \in [state : {"none", "open", "closed", "garbled"}, files : SUBSET Files,
                        by : SUBSET Calls]
            BY <2>2, <2>8, <3>1, <3>2
        <3>4. pc'[c] = "purge" /\ c \in zip.by =>
                  zip'.state = zip.state /\ zip'.files = Logs!Copies
            BY <2>2, <2>5
        <3>5. zip'.files = zip.files \/ (c \in zip.by /\ zip'.files \subseteq Logs!Copies)
            BY <2>4, <3>2
        <3>6. /\ zip'.state = zip.state \/ (zip.state = "open" /\ zip'.state = "closed")
              /\ zip'.state = "closed" /\ zip.state = "open" => c \in zip.by /\ pc'[c] # "purge"
            BY <2>4, <3>2, <3>4 DEF Logs!Closed
        <3>7. QED
            BY <3>2, <3>3, <3>4, <3>5, <3>6
    <2>9. QED
        BY <1>4, <2>6, <2>7, <2>8
<1>6. pc' \in [Calls -> Logs!Steps] /\ pc'[c] \in {"purge", "archive", "ended"}
      /\ \A d \in Calls : d # c => pc'[d] = pc[d]
    BY <1>2 DEF LogsInv, Logs!TypeOK, Logs!Steps
<1>7. Logs!TypeOK'
    BY <1>1, <1>2, <1>5, <1>6 DEF LogsInv, Logs!TypeOK, Logs!config, Logs!history
<1>8. /\ Recent' = Recent /\ Beyond' = Beyond /\ Logs!Copies' = Logs!Copies
      /\ Recent \subseteq Accounted
    BY <1>1 DEF Recent, Beyond, Accounted, Logs!Copies, Logs!config, Logs!history, LogsInv,
                    CallInv,
       CallsCopied, Began, Logs!Steps
<1>9. c \in zip.by => zip.state \in {"open", "garbled"}
                      /\ (zip.state = "open" => zip.files = {})
    BY <1>1 DEF LogsInv, ZipInv, WritersOpen, Fresh, Writing
<1>10. c \in zip.by => zip.files \subseteq Logs!Copies \cup Beyond
    BY <1>9 DEF LogsInv, ZipInv, GarbledElsewhere
<1>11. Accounted \subseteq Accounted'
    BY <1>5, <1>8, <1>10 DEF Accounted
<1>12. CallInv'
    BY <1>1, <1>5, <1>6, <1>8, <1>11 DEF LogsInv, CallInv, CopiedSoFar, CallsCopied, ZipCopied,
       Began
<1>13. NoZipIsEmpty' /\ WritersOpen' /\ OneWriter' /\ Fresh'
    <2>1. zip.state = "none" => zip' = zip
        BY <1>4, <1>9
    <2>2. NoZipIsEmpty'
        BY <1>5, <2>1 DEF LogsInv, ZipInv, NoZipIsEmpty, Logs!NoZip
    <2>3. WritersOpen' /\ OneWriter'
        BY <1>1, <1>5, <1>6 DEF LogsInv, ZipInv, WritersOpen, OneWriter, Writing, Logs!TypeOK
    <2>4. Fresh'
        BY <1>1, <1>5, <1>6 DEF LogsInv, ZipInv, OneWriter, Fresh, Writing, Logs!TypeOK
    <2>5. QED
        BY <2>2, <2>3, <2>4
<1>14. ArchiveWhole'
    BY <1>1, <1>5, <1>6, <1>8, <1>9 DEF LogsInv, ZipInv, OneWriter, ArchiveWhole, Writing,
                                            Logs!TypeOK,
       Accounted
<1>15. GarbledElsewhere'
    BY <1>5, <1>8 DEF LogsInv, ZipInv, GarbledElsewhere
<1>16. TakenWhole'
    BY <1>1, <1>5, <1>6, <1>8, <1>9 DEF LogsInv, EndInv, TakenWhole, Logs!TypeOK, Logs!history
<1>17. CleansOwn' /\ AllBeyond'
    BY <1>1, <1>5, <1>6, <1>8, <1>9 DEF LogsInv, EndInv, CleansOwn, AllBeyond, Logs!TypeOK,
                                            Logs!history
<1>18. CleanersCounted'
    <2>1. Begun \subseteq Begun'
        BY <1>1, <1>6 DEF Begun, LogsInv, Logs!TypeOK
    <2>2. QED
        BY <1>1, <2>1, CleanersStayCounted DEF LogsInv, Logs!TypeOK
<1>19. Logs!NotLost'
    BY <1>8, <1>11 DEF Logs!NotLost, Recent, Accounted, Beyond
<1>20. QED
    BY <1>2, <1>7, <1>12, <1>13, <1>14, <1>15, <1>16, <1>17, <1>18, <1>19
    DEF LogsInv, ZipInv, EndInv

(* The copies are removed while the archive is open (archive.go:111-122).    *)
LEMMA PurgeStep ==
    ASSUME Logs!LogAssumption, LogsInv, NEW c \in Calls, Logs!Purge(c) PROVE LogsInv'
<1>1. /\ UNCHANGED <<Logs!config, source, zip, cleaners, listed, todo, attempt, uploaded, ageing,
                     swept, reused>>
      /\ pc[c] = "purge" /\ pc' = [pc EXCEPT ![c] = "close"]
      /\ log_faults' \in 0..MaxLogFaults
      /\ \/ dir' = FALSE /\ tmp' = [f \in Files |-> "no"]
         \/ UNCHANGED <<dir, tmp>>
      /\ torn' = IF dir' \/ (c \in zip.by
             /\ zip.state = "open") THEN torn ELSE torn \cup Logs!Copies
      /\ expired' \subseteq expired
    BY DEF Logs!Purge, Logs!Goto, Logs!Fault, LogsInv, Logs!TypeOK, Logs!LogAssumption
<1>2. pc' \in [Calls -> Logs!Steps] /\ pc'[c] = "close" /\ \A d \in Calls : d # c =>
          pc'[d] = pc[d]
    BY <1>1 DEF LogsInv, Logs!TypeOK, Logs!Steps
<1>3. Logs!Copies \subseteq Files /\ Logs!Copies' \in {Logs!Copies, {}}
      /\ (Logs!Copies' = Logs!Copies \/ Logs!Copies \subseteq torn' \/ (c \in zip.by
             /\ zip.state = "open"))
    BY <1>1 DEF Logs!Copies, LogsInv, Logs!TypeOK
<1>4. Logs!TypeOK'
    BY <1>1, <1>2, <1>3 DEF LogsInv, Logs!TypeOK, Logs!config
<1>5. /\ Recent' = Recent /\ Beyond \subseteq Beyond'
      /\ Recent \subseteq Accounted
    BY <1>1 DEF Recent, Beyond, Accounted, Logs!Copies, Logs!config, LogsInv, CallInv,
                    CallsCopied, Began,
       Logs!Steps
<1>6. Recent \subseteq Accounted'
    <2>1. CASE Logs!Copies' = Logs!Copies \/ Logs!Copies \subseteq torn'
        BY <1>1, <1>5, <2>1 DEF Accounted, Beyond
    <2>2. CASE c \in zip.by /\ zip.state = "open"
        BY <1>1, <1>5, <2>2 DEF LogsInv, ZipInv, ArchiveWhole, Accounted
    <2>3. QED
        BY <1>3, <2>1, <2>2
<1>7. CallInv'
    BY <1>1, <1>2, <1>5, <1>6 DEF CallInv, CopiedSoFar, CallsCopied, ZipCopied
<1>8. NoZipIsEmpty' /\ WritersOpen' /\ OneWriter' /\ Fresh'
    BY <1>1, <1>2 DEF LogsInv, ZipInv, NoZipIsEmpty, Logs!NoZip, WritersOpen, OneWriter, Fresh,
                          Writing,
       Logs!TypeOK
<1>9. ArchiveWhole'
    BY <1>1, <1>2, <1>5 DEF LogsInv, ZipInv, ArchiveWhole, Logs!TypeOK
<1>10. GarbledElsewhere'
    BY <1>1, <1>3, <1>5 DEF LogsInv, ZipInv, GarbledElsewhere, Beyond
<1>11. EndInv'
    BY <1>1, <1>2, <1>5 DEF LogsInv, EndInv, TakenWhole, CleansOwn, AllBeyond, Logs!TypeOK
<1>12. AttemptsLeft'
    BY <1>1 DEF LogsInv, AttemptsLeft, Logs!TypeOK
<1>13. CleanersCounted'
    <2>1. Begun \subseteq Begun'
        BY <1>1 DEF Begun, LogsInv, Logs!TypeOK
    <2>2. QED
        BY <1>1, <2>1, CleanersStayCounted DEF LogsInv, Logs!TypeOK
<1>14. Logs!NotLost'
    BY <1>5, <1>6 DEF Logs!NotLost, Recent, Accounted, Beyond
<1>15. QED
    BY <1>4, <1>7, <1>8, <1>9, <1>10, <1>11, <1>12, <1>13, <1>14 DEF LogsInv, ZipInv
(* Close ends the archive (archive.go:81-87).                                *)
LEMMA CloseZipStep ==
    ASSUME Logs!LogAssumption, LogsInv, NEW c \in Calls, Logs!CloseZip(c) PROVE LogsInv'
<1>1. /\ UNCHANGED <<Logs!config, source, dir, tmp, expired, cleaners, listed, todo, uploaded,
                     ageing, swept, reused>>
      /\ pc[c] = "close"
    BY DEF Logs!CloseZip
<1>2. ASSUME /\ zip' = IF c \in zip.by THEN [zip EXCEPT !.state = Logs!Closed] ELSE zip
             /\ Logs!Goto(c, "upload")
             /\ UNCHANGED <<torn, attempt, log_faults>>
      PROVE  LogsInv'
    <2>1. /\ pc' \in [Calls -> Logs!Steps] /\ pc'[c] = "upload"
          /\ \A d \in Calls : d # c => pc'[d] = pc[d]
        BY <1>2 DEF Logs!Goto, LogsInv, Logs!TypeOK, Logs!Steps
    <2>2. /\ zip' \in [state : {"none", "open", "closed", "garbled"}, files : SUBSET Files,
                       by : SUBSET Calls]
          /\ zip'.by = zip.by /\ zip'.files = zip.files
          /\ zip'.state = zip.state \/ (c \in zip.by /\ zip.state = "open"
                 /\ zip'.state = "closed")
          /\ c \in zip.by => zip'.state # "open"
          /\ zip.state = "none" => zip' = zip
        BY <1>2 DEF LogsInv, Logs!TypeOK, Logs!Closed
    <2>3. Logs!TypeOK'
        BY <1>1, <1>2, <2>1, <2>2 DEF LogsInv, Logs!TypeOK, Logs!config
    <2>4. Recent' = Recent /\ Beyond' = Beyond /\ Accounted' = Accounted
              /\ Logs!Copies' = Logs!Copies
        BY <1>1, <1>2, <2>2 DEF Recent, Beyond, Accounted, Logs!Copies, Logs!config
    <2>5. CallInv'
        BY <1>1, <2>1, <2>2, <2>4 DEF LogsInv, CallInv, CopiedSoFar, CallsCopied, ZipCopied,
           Began, Logs!Steps
    <2>6. c \in zip.by => zip.state \in {"open", "garbled"}
        BY <1>1 DEF LogsInv, ZipInv, WritersOpen, Writing
    <2>7. ZipInv'
        BY <1>1, <2>1, <2>2, <2>4 DEF LogsInv, ZipInv, NoZipIsEmpty, WritersOpen, OneWriter,
                                          Fresh,
           ArchiveWhole, GarbledElsewhere, Logs!NoZip, Logs!TypeOK, Writing
    <2>8. TakenWhole'
        BY <1>1, <2>1, <2>2, <2>4, <2>6 DEF LogsInv, EndInv, ZipInv, TakenWhole, ArchiveWhole,
                                                Logs!TypeOK
    <2>9. CleansOwn' /\ AllBeyond'
        BY <1>1, <2>1, <2>2, <2>4 DEF LogsInv, EndInv, CleansOwn, AllBeyond, Logs!TypeOK
    <2>10. AttemptsLeft'
        BY <1>1, <1>2, <2>1 DEF LogsInv, AttemptsLeft, Logs!TypeOK
    <2>11. CleanersCounted'
        <3>1. Begun \subseteq Begun'
            BY <1>1, <2>1 DEF Begun
        <3>2. QED
            BY <1>1, <3>1, CleanersStayCounted DEF LogsInv, Logs!TypeOK
    <2>12. Logs!NotLost'
        BY <1>1, <2>2, <2>4 DEF LogsInv, Logs!NotLost, Logs!config, Beyond, Accounted, Recent
    <2>13. QED
        BY <2>3, <2>5, <2>7, <2>8, <2>9, <2>10, <2>11, <2>12 DEF LogsInv, EndInv
<1>3. ASSUME Logs!Fault, torn' = (IF c \in zip.by THEN torn \cup zip.files
                 ELSE torn), Logs!Retry(c),
             UNCHANGED zip
      PROVE  LogsInv'
    <2>1. torn' \in SUBSET Files /\ torn \subseteq torn'
          /\ pc[c] \in Logs!Steps \ {"new", "copy", "remove", "success", "ended"}
        BY <1>1, <1>3 DEF LogsInv, Logs!TypeOK, Logs!Steps
    <2>2. QED
        BY <1>1, <1>3, <2>1, AttemptFailed DEF Logs!Fault
<1>4. QED
    BY <1>2, <1>3 DEF Logs!CloseZip

(* UploadTask takes what has the name of the archive (upload.go:34-70).      *)
LEMMA UploadStep ==
    ASSUME Logs!LogAssumption, LogsInv, NEW c \in Calls, Logs!Upload(c) PROVE LogsInv'
<1>1. /\ UNCHANGED <<Logs!config, source, dir, tmp, expired, cleaners, listed, todo, ageing,
             swept>>
      /\ pc[c] = "upload"
      /\ pc[c] \in Logs!Steps \ {"new", "copy", "remove", "success", "ended"}
    BY DEF Logs!Upload, Logs!Steps
<1>2. /\ Recent' = Recent /\ Logs!Copies' = Logs!Copies /\ Recent \subseteq Accounted
      /\ Logs!Copies \subseteq Files
    BY <1>1 DEF Recent, Accounted, Logs!Copies, Logs!config, LogsInv, CallInv, CallsCopied,
                    Began, Logs!Steps
<1>3. ASSUME Logs!Arrives(c),
             pc' \in {[pc EXCEPT ![c] = step] : step \in {"clean", "archive", "ended"}},
             attempt' \in [Calls -> 0..Attempts], AttemptsLeft', log_faults' \in 0..MaxLogFaults
      PROVE  LogsInv'
    <2>1. /\ pc' \in [Calls -> Logs!Steps] /\ pc'[c] \in {"clean", "archive", "ended"}
          /\ \A d \in Calls : d # c => pc'[d] = pc[d]
        BY <1>3 DEF LogsInv, Logs!TypeOK, Logs!Steps
    <2>2. /\ zip' \in [state : {"none", "open", "closed", "garbled"}, files : SUBSET Files,
                       by : SUBSET Calls]
          /\ zip'.by = zip.by \cup {c} /\ zip'.files = zip.files /\ zip'.state = zip.state
          /\ zip.state # "none"
        BY <1>3 DEF Logs!Arrives, Logs!Takes, LogsInv, Logs!TypeOK
    <2>3. /\ uploaded \subseteq uploaded' /\ torn \subseteq torn'
          /\ uploaded' \subseteq Files /\ torn' \subseteq Files
          /\ zip.files \subseteq Beyond'
          /\ zip.state = "closed" => zip.files \subseteq uploaded'
          /\ zip.state # "closed" => Logs!Copies \subseteq Beyond'
        BY <1>2, <1>3 DEF Logs!Arrives, LogsInv, Logs!TypeOK, Beyond
    <2>4. /\ reused' \in BOOLEAN /\ (reused => reused')
          /\ ~reused' => c \in zip.by \/ (zip.state # "open" /\ Logs!Copies \subseteq zip.files)
        BY <1>3 DEF Logs!Arrives, Logs!ReusesZip, Logs!Incomplete, LogsInv, Logs!TypeOK
    <2>5. Logs!TypeOK'
        BY <1>1, <1>3, <2>1, <2>2, <2>3, <2>4 DEF LogsInv, Logs!TypeOK, Logs!config
    <2>6. /\ Beyond \subseteq Beyond' /\ Accounted \subseteq Accounted'
          /\ zip.state # "closed" => Recent \subseteq Beyond'
        BY <1>1, <1>2, <2>2, <2>3 DEF Beyond, Accounted
    <2>7. CallInv'
        BY <1>1, <1>2, <2>1, <2>2, <2>6 DEF LogsInv, CallInv, CopiedSoFar, CallsCopied, ZipCopied
    <2>8. ZipInv'
        BY <1>1, <1>2, <2>1, <2>2, <2>6 DEF LogsInv, ZipInv, NoZipIsEmpty, WritersOpen, OneWriter,
           Fresh, ArchiveWhole, GarbledElsewhere, Logs!NoZip, Logs!TypeOK, Writing
    <2>9. TakenWhole'
        BY <1>1, <1>2, <2>1, <2>2, <2>4, <2>6 DEF LogsInv, EndInv, TakenWhole, Logs!TypeOK
    <2>10. CleansOwn'
        BY <1>1, <1>2, <2>1, <2>2, <2>3, <2>6 DEF LogsInv, EndInv, CleansOwn, Logs!TypeOK
    <2>11. ~reused' => Recent \subseteq Beyond'
        <3>1. CASE zip.state # "closed"
            BY <2>6, <3>1
        <3>2. CASE c \in zip.by /\ ~reused
            BY <1>1, <2>3, <2>6, <3>2 DEF LogsInv, EndInv, TakenWhole
        <3>3. CASE Logs!Copies \subseteq zip.files
            BY <1>2, <2>3, <2>6, <3>3 DEF Accounted
        <3>4. QED
            BY <2>4, <3>1, <3>2, <3>3
    <2>12. AllBeyond'
        BY <1>2, <2>11 DEF AllBeyond
    <2>13. CleanersCounted'
        <3>1. Begun \subseteq Begun'
            BY <1>1, <2>1 DEF Begun
        <3>2. QED
            BY <1>1, <3>1, CleanersStayCounted DEF LogsInv, Logs!TypeOK
    <2>14. Logs!NotLost'
        BY <1>2, <2>6 DEF Logs!NotLost, Recent, Accounted, Beyond
    <2>15. QED
        BY <1>3, <2>5, <2>7, <2>8, <2>9, <2>10, <2>12, <2>13, <2>14 DEF LogsInv, EndInv
<1>4. ASSUME Logs!NothingArrives, Logs!Retry(c), log_faults' \in {log_faults, log_faults + 1},
             log_faults' # log_faults => log_faults < MaxLogFaults
      PROVE  LogsInv'
    <2>1. torn' \in SUBSET Files
        BY <1>4 DEF Logs!NothingArrives, LogsInv, Logs!TypeOK
    <2>2. QED
        BY <1>1, <1>4, <2>1, AttemptFailed DEF Logs!NothingArrives
<1>5. ASSUME Logs!NothingArrives, Logs!Goto(c, "ended"), UNCHANGED <<attempt, log_faults>>
      PROVE LogsInv'
    BY <1>1, <1>5, CallEnds DEF Logs!NothingArrives, Logs!history, Logs!Goto
<1>6. CASE client /\ Logs!Arrives(c) /\ Logs!Goto(c, "clean") /\ UNCHANGED <<attempt, log_faults>>
    <2>1. pc' \in {[pc EXCEPT ![c] = step] : step \in {"clean", "archive", "ended"}}
        BY <1>6 DEF Logs!Goto
    <2>2. AttemptsLeft'
        BY <1>1, <1>6 DEF Logs!Goto, LogsInv, AttemptsLeft, Logs!TypeOK
    <2>3. QED
        BY <1>3, <1>6, <2>1, <2>2 DEF LogsInv, Logs!TypeOK
<1>7. CASE client /\ Logs!Arrives(c) /\ Logs!Fault /\ Logs!Retry(c)
    <2>1. log_faults' \in 0..MaxLogFaults
        BY <1>7 DEF Logs!Fault, LogsInv, Logs!TypeOK, Logs!LogAssumption
    <2>2. /\ pc' \in {[pc EXCEPT ![c] = "archive"], [pc EXCEPT ![c] = "ended"]}
          /\ attempt' \in [Calls -> 0..Attempts] /\ AttemptsLeft'
        BY <1>1, <1>7, RetryRight
    <2>3. QED
        BY <1>3, <1>7, <2>1, <2>2
<1>8. QED
    BY <1>4, <1>5, <1>6, <1>7 DEF Logs!Upload, Logs!Fault
(* CleanTask removes what has the name of the archive: its own, whose files  *)
(* have been uploaded, or that of another call (clean.go:18-34).             *)
LEMMA CleanStep ==
    ASSUME Logs!LogAssumption, LogsInv, NEW c \in Calls, Logs!Clean(c) PROVE LogsInv'
<1>1. /\ UNCHANGED <<Logs!config, source, dir, tmp, cleaners, listed, todo, uploaded, ageing,
                     swept, reused>>
      /\ pc[c] = "clean"
    BY DEF Logs!Clean
<1>2. ASSUME zip' = Logs!NoZip, torn' = (IF c \in zip.by THEN torn ELSE torn \cup zip.files),
             expired' = expired \ {"zip"}, Logs!Goto(c, "success"), UNCHANGED <<attempt,
                 log_faults>>
      PROVE  LogsInv'
    <2>1. /\ pc' \in [Calls -> Logs!Steps] /\ pc'[c] = "success"
          /\ \A d \in Calls : d # c => pc'[d] = pc[d]
        BY <1>2 DEF Logs!Goto, LogsInv, Logs!TypeOK, Logs!Steps
    <2>2. Logs!TypeOK'
        BY <1>1, <1>2, <2>1 DEF LogsInv, Logs!TypeOK, Logs!NoZip, Logs!config
    <2>3. /\ Recent' = Recent /\ Logs!Copies' = Logs!Copies /\ Beyond \subseteq Beyond'
          /\ Recent \subseteq Accounted
        BY <1>1, <1>2 DEF Recent, Beyond, Accounted, Logs!Copies, Logs!config, LogsInv, CallInv,
           CallsCopied, Began, Logs!Steps
    <2>4. Recent \subseteq Logs!Copies' \cup Beyond'
        <3>1. CASE c \notin zip.by
            BY <1>2, <2>3, <3>1 DEF Accounted, Beyond
        <3>2. CASE c \in zip.by
            <4>1. Recent \subseteq Beyond \/ zip.files \subseteq Logs!Copies \cup Beyond
                BY <1>1, <3>2 DEF LogsInv, EndInv, CleansOwn, ZipInv, GarbledElsewhere, Beyond
            <4>2. QED
                BY <2>3, <4>1 DEF Accounted
        <3>3. QED
            BY <3>1, <3>2
    <2>5. CallInv'
        BY <2>3, <2>4 DEF CallInv, CopiedSoFar, CallsCopied, ZipCopied, Accounted
    <2>6. ZipInv' /\ TakenWhole' /\ CleansOwn'
        BY <1>2 DEF ZipInv, NoZipIsEmpty, WritersOpen, OneWriter, Fresh, ArchiveWhole,
           GarbledElsewhere, Logs!NoZip, TakenWhole, CleansOwn
    <2>7. AllBeyond'
        BY <1>1, <2>1, <2>3 DEF LogsInv, EndInv, AllBeyond
    <2>8. AttemptsLeft'
        BY <1>1, <1>2, <2>1 DEF LogsInv, AttemptsLeft, Logs!TypeOK
    <2>9. CleanersCounted'
        <3>1. Begun \subseteq Begun'
            BY <1>1, <2>1 DEF Begun
        <3>2. QED
            BY <1>1, <3>1, CleanersStayCounted DEF LogsInv, Logs!TypeOK
    <2>10. Logs!NotLost'
        BY <2>3, <2>4 DEF Logs!NotLost, Recent, Beyond
    <2>11. QED
        BY <2>2, <2>5, <2>6, <2>7, <2>8, <2>9, <2>10 DEF LogsInv, EndInv
<1>3. ASSUME Logs!Fault, Logs!Retry(c), UNCHANGED <<zip, torn, expired>> PROVE LogsInv'
    <2>1. torn' \in SUBSET Files
              /\ pc[c] \in Logs!Steps \ {"new", "copy", "remove", "success", "ended"}
        BY <1>1, <1>3 DEF LogsInv, Logs!TypeOK, Logs!Steps
    <2>2. QED
        BY <1>1, <1>3, <2>1, AttemptFailed DEF Logs!Fault
<1>4. QED
    BY <1>2, <1>3 DEF Logs!Clean

(* A cleaner lists what is old (move.go:200-217), or time passes: nothing    *)
(* that the other parts of the invariant are about.                          *)
LEMMA ListStep ==
    ASSUME Logs!LogAssumption, LogsInv, Logs!TypeOK', cleaners' \in {cleaners, cleaners - 1},
           UNCHANGED <<Logs!config, source, dir, tmp, zip, pc, todo, attempt, uploaded,
               Logs!history>>
    PROVE  LogsInv'
<1>1. Recent' = Recent /\ Beyond' = Beyond /\ Accounted' = Accounted /\ Logs!Copies' = Logs!Copies
    BY DEF Recent, Beyond, Accounted, Logs!Copies, Logs!config, Logs!history
<1>2. CallInv'
    BY <1>1 DEF LogsInv, CallInv, CopiedSoFar, CallsCopied, ZipCopied
<1>3. ZipInv'
    BY <1>1 DEF LogsInv, ZipInv, NoZipIsEmpty, WritersOpen, OneWriter, Fresh,
       ArchiveWhole, GarbledElsewhere, Logs!NoZip
<1>4. EndInv'
    BY <1>1 DEF LogsInv, EndInv, TakenWhole, CleansOwn, AllBeyond, Logs!history
<1>5. AttemptsLeft'
    BY DEF LogsInv, AttemptsLeft
<1>6. CleanersCounted'
    <2>1. Begun \subseteq Begun' /\ cleaners' \in Nat
        BY DEF Begun, Logs!TypeOK
    <2>2. QED
        BY <2>1, CleanersStayCounted DEF LogsInv
<1>7. Logs!NotLost'
    BY <1>1 DEF LogsInv, Logs!NotLost, Logs!config, Logs!history
<1>8. QED
    BY <1>2, <1>3, <1>4, <1>5, <1>6, <1>7 DEF LogsInv

LEMMA CleanExpiredDataStep ==
    ASSUME Logs!LogAssumption, LogsInv, Logs!CleanExpiredData PROVE LogsInv'
<1>1. cleaners \in Nat /\ cleaners > 0 /\ cleaners' = cleaners - 1
      /\ Logs!Cardinality(Calls) \in Nat /\ cleaners <= Logs!Cardinality(Calls)
    BY SizeType DEF Logs!CleanExpiredData, LogsInv, Logs!TypeOK, Logs!LogAssumption
<1>2. cleaners' \in 0..Logs!Cardinality(Calls)
    BY <1>1
<1>3. Logs!TypeOK'
    BY <1>2 DEF Logs!CleanExpiredData, LogsInv, Logs!TypeOK, Logs!config, Logs!history
<1>4. QED
    BY <1>1, <1>3, ListStep DEF Logs!CleanExpiredData

LEMMA AgeingStep == ASSUME Logs!LogAssumption, LogsInv, Logs!Ageing PROVE LogsInv'
<1>1. ageing' \in 0..MaxAgeing /\ expired' \subseteq {"dir", "zip"}
    BY DEF Logs!Ageing, LogsInv, Logs!TypeOK, Logs!LogAssumption
<1>2. Logs!TypeOK'
    BY <1>1 DEF Logs!Ageing, LogsInv, Logs!TypeOK, Logs!config, Logs!history
<1>3. QED
    BY <1>2, ListStep DEF Logs!Ageing

(* ... and removes it (move.go:218-228). *)
LEMMA RemoveListedStep == ASSUME Logs!LogAssumption, LogsInv, Logs!RemoveListed PROVE LogsInv'
<1>1. UNCHANGED <<Logs!config, source, cleaners, pc, todo, attempt, uploaded, log_faults, ageing,
                  torn, reused>>
    BY DEF Logs!RemoveListed
<1>2. /\ \/ Logs!Copies' = {} /\ Logs!Copies \subseteq swept' /\ zip' = zip
         \/ Logs!Copies' = Logs!Copies /\ zip.files \subseteq swept' /\ zip' = Logs!NoZip
      /\ swept \subseteq swept'
      /\ tmp' \in [Files -> {"no", "part", "whole"}]
      /\ dir' \in BOOLEAN /\ swept' \subseteq Files
      /\ listed' \subseteq {"dir", "zip"} /\ expired' \subseteq {"dir", "zip"}
    BY DEF Logs!RemoveListed, Logs!Copies, LogsInv, Logs!TypeOK
<1>3. Logs!TypeOK'
    BY <1>1, <1>2 DEF LogsInv, Logs!TypeOK, Logs!NoZip, Logs!config
<1>4. Recent' = Recent /\ Beyond \subseteq Beyond' /\ Accounted \subseteq Accounted'
    BY <1>1, <1>2 DEF Recent, Beyond, Accounted, Logs!config
<1>5. CallInv'
    BY <1>1, <1>2, <1>4 DEF LogsInv, CallInv, CopiedSoFar, CallsCopied, ZipCopied, Logs!NoZip
<1>6. ASSUME zip' = Logs!NoZip PROVE ZipInv' /\ TakenWhole' /\ CleansOwn'
    BY <1>6 DEF ZipInv, NoZipIsEmpty, WritersOpen, OneWriter, Fresh, ArchiveWhole,
       GarbledElsewhere, Logs!NoZip, TakenWhole, CleansOwn
<1>7. ASSUME zip' = zip, Logs!Copies' = {}, Logs!Copies \subseteq swept'
      PROVE  ZipInv' /\ TakenWhole' /\ CleansOwn'
    <2>1. NoZipIsEmpty' /\ WritersOpen' /\ OneWriter' /\ Fresh' /\ ArchiveWhole'
        BY <1>1, <1>4, <1>7 DEF LogsInv, ZipInv, NoZipIsEmpty, WritersOpen, OneWriter, Fresh,
           ArchiveWhole, Logs!NoZip
    <2>2. GarbledElsewhere'
        BY <1>4, <1>7 DEF LogsInv, ZipInv, GarbledElsewhere, Beyond
    <2>3. TakenWhole' /\ CleansOwn'
        BY <1>1, <1>4, <1>7 DEF LogsInv, EndInv, TakenWhole, CleansOwn
    <2>4. QED
        BY <2>1, <2>2, <2>3 DEF ZipInv
<1>8. ZipInv' /\ TakenWhole' /\ CleansOwn'
    BY <1>2, <1>6, <1>7
<1>9. AllBeyond'
    BY <1>1, <1>4 DEF LogsInv, EndInv, AllBeyond
<1>10. AttemptsLeft'
    BY <1>1 DEF LogsInv, AttemptsLeft
<1>11. CleanersCounted'
    BY <1>1 DEF LogsInv, CleanersCounted, Begun
<1>12. Logs!NotLost'
    BY <1>1, <1>4 DEF LogsInv, Logs!NotLost, Recent, Beyond, Accounted, Logs!config
<1>13. QED
    BY <1>3, <1>5, <1>8, <1>9, <1>10, <1>11, <1>12 DEF LogsInv, EndInv

(* The process dies (pipeline.go:45-53). *)
LEMMA CrashStep == ASSUME Logs!LogAssumption, LogsInv, Logs!Crash PROVE LogsInv'
<1>1. /\ UNCHANGED <<Logs!config, source, dir, tmp, zip, expired, todo, attempt, uploaded, ageing,
                     swept, reused>>
      /\ pc' = [c \in Calls |-> IF pc[c] \in Logs!Done THEN pc[c] ELSE "ended"]
      /\ cleaners' = 0 /\ listed' = {} /\ log_faults' \in 0..MaxLogFaults
      /\ torn \subseteq torn' /\ torn' \subseteq Files
    BY DEF Logs!Crash, Logs!Fault, LogsInv, Logs!TypeOK, Logs!LogAssumption
<1>2. /\ pc' \in [Calls -> Logs!Steps]
      /\ \A c \in Calls : pc'[c] = pc[c] \/ pc'[c] = "ended"
      /\ \A c \in Calls : pc'[c] \in Logs!Done
    BY <1>1 DEF LogsInv, Logs!TypeOK, Logs!Steps, Logs!Done
<1>3. Logs!TypeOK'
    <2>1. 0 \in 0..Logs!Cardinality(Calls)
        BY SizeType DEF Logs!LogAssumption
    <2>2. QED
        BY <1>1, <1>2, <2>1 DEF LogsInv, Logs!TypeOK, Logs!config
<1>4. Recent' = Recent /\ Beyond \subseteq Beyond' /\ Accounted \subseteq Accounted'
      /\ Logs!Copies' = Logs!Copies
    BY <1>1 DEF Recent, Beyond, Accounted, Logs!Copies, Logs!config
<1>5. CallInv'
    BY <1>1, <1>2, <1>4 DEF LogsInv, CallInv, CopiedSoFar, CallsCopied, ZipCopied, Began,
                                Logs!Steps
<1>6. zip.by \subseteq Calls
    BY DEF LogsInv, Logs!TypeOK
<1>7. ZipInv'
    BY <1>1, <1>2, <1>4, <1>6 DEF LogsInv, ZipInv, NoZipIsEmpty, WritersOpen, OneWriter, Fresh,
       ArchiveWhole, GarbledElsewhere, Logs!NoZip, Logs!Done, Writing
<1>8. EndInv'
    BY <1>1, <1>2, <1>4, <1>6 DEF LogsInv, EndInv, TakenWhole, CleansOwn, AllBeyond, Logs!Done
<1>9. AttemptsLeft'
    BY <1>1, <1>2 DEF LogsInv, AttemptsLeft
<1>10. CleanersCounted'
    <2>1. Begun \subseteq Begun'
        BY <1>2 DEF Begun
    <2>2. QED
        BY <1>1, <2>1, CleanersStayCounted DEF LogsInv
<1>11. Logs!NotLost'
    BY <1>1, <1>4 DEF LogsInv, Logs!NotLost, Recent, Beyond, Accounted, Logs!config
<1>12. QED
    BY <1>3, <1>5, <1>7, <1>8, <1>9, <1>10, <1>11 DEF LogsInv

-----------------------------------------------------------------------------
(* A stuttering step keeps it. *)
LEMMA LogsStutter == ASSUME Logs!LogAssumption, LogsInv, UNCHANGED Logs!logvars PROVE LogsInv'
<1>1. Logs!TypeOK'
    BY DEF LogsInv, Logs!TypeOK, Logs!logvars
<1>2. QED
    BY <1>1, ListStep DEF Logs!logvars, Logs!config, Logs!history

LEMMA LogsNext == ASSUME Logs!LogAssumption, LogsInv, [Logs!Next]_(Logs!logvars) PROVE LogsInv'
<1>1. ASSUME NEW c \in Calls, Logs!UploadLog(c) \/ Logs!Step(c) PROVE LogsInv'
    BY <1>1, UploadLogStep, CopyFileStep, CopyDoneStep, RemoveSourceStep, ArchiveStep,
       CreateStep, FillStep, PurgeStep, CloseZipStep, UploadStep, CleanStep DEF Logs!Step
<1>2. QED
    BY <1>1, CleanExpiredDataStep, RemoveListedStep, AgeingStep, CrashStep, LogsStutter
    DEF Logs!Next

(* "log upload success" follows from what the end of a call needs.           *)

LEMMA SuccessFollows == LogsInv => Logs!SuccessMeansUploaded
BY DEF LogsInv, EndInv, AllBeyond, Logs!SuccessMeansUploaded, Recent, Beyond
-----------------------------------------------------------------------------
(* The three parts beside each other: a step of one is no step of another.   *)
LEMMA Assumptions == Logs!LogAssumption
BY StorageAssumption

StorageInv == StoreTypes /\ LogsInv /\ Tx!IInv

LEMMA StorageInitInv == StorageInit => StorageInv
<1>1. Init => StoreTypes
    BY StoreInit
<1>2. Logs!Init => LogsInv
    BY Assumptions, LogsInit
<1>3. Tx!Init => Tx!IInv
    BY TxInitIInv
<1>4. QED
    BY <1>1, <1>2, <1>3 DEF StorageInit, StorageInv

LEMMA StorageStep == StorageInv /\ [StorageNext]_storageVars => StorageInv'
<1> SUFFICES ASSUME StorageInv, [StorageNext]_storageVars PROVE StorageInv'
    OBVIOUS
<1>1. [Next]_vars
    BY DEF StorageNext, StoreNext, LogsDo, TxDo, storageVars
<1>2. [Logs!Next]_(Logs!logvars)
    BY DEF StorageNext, StoreNext, LogsDo, TxDo, storageVars, logVars, Logs!logvars
<1>3. [Tx!Next]_(Tx!txvars)
    BY DEF StorageNext, StoreNext, LogsDo, TxDo, storageVars, txVars, Tx!txvars
<1>4. StoreTypes'
    BY <1>1, TypesStep DEF StorageInv
<1>5. LogsInv'
    BY <1>2, Assumptions, LogsNext DEF StorageInv
<1>6. Tx!IInv'
    BY <1>3, TxNextIInv DEF StorageInv
<1>7. QED
    BY <1>4, <1>5, <1>6 DEF StorageInv

LEMMA StorageInvariance == StorageSpec => []StorageInv
BY StorageInitInv, StorageStep, PTL DEF StorageSpec

(* All variables have their types, whatever fails (store.go:17-134,          *)
(* move.go:39-228, archive.go:67-193, tx.go:14-41).                          *)
THEOREM TypesCorrect == StorageSpec => []TypesOK
<1>1. StorageInv => TypesOK
    BY TypesAre DEF StorageInv, TypesOK, LogsInv, Tx!IInv
<1>2. QED
    BY <1>1, StorageInvariance, PTL

(* A recent log file that is gone from its place is among the copies, in the *)
(* archive or uploaded, or was lost in one of the ways that swept and torn   *)
(* record: for any number of files, calls, attempts, failures and crashes    *)
(* (move.go:39-160, archive.go:67-193, clean.go:18-34).                      *)
THEOREM LogsAreKept == StorageSpec => []NotLost
<1>1. StorageInv => NotLost
    BY DEF StorageInv, NotLost, LogsInv
<1>2. QED
    BY <1>1, StorageInvariance, PTL

(* What UploadLog calls a success is one, unless some call took an archive   *)
(* that was not complete (pipeline.go:54-65).                                *)
THEOREM SuccessIsUploaded == StorageSpec => []SuccessMeansUploaded
<1>1. StorageInv => SuccessMeansUploaded
    BY SuccessFollows DEF StorageInv, SuccessMeansUploaded
<1>2. QED
    BY <1>1, StorageInvariance, PTL

(* DoTransaction answers nil for what was committed, or after a panic        *)
(* (tx.go:14-41).                                                            *)
THEOREM NilIsCommitted == StorageSpec => []NilMeansCommitted
<1>1. StorageInv => NilMeansCommitted
    BY DEF StorageInv, NilMeansCommitted, Tx!IInv
<1>2. QED
    BY <1>1, StorageInvariance, PTL
=============================================================================
