--------------------------- MODULE RingBuff_proofs ---------------------------
(* Proofs about the ring of the report job, for every capacity, every set of *)
(* producers and every set of requests.                                      *)
EXTENDS RingBuff, TLAPS

(* Slot arithmetic without the modulus: places wrap at most once. *)
LEMMA SlotValue ==
    ASSUME NEW h \in Slots, NEW k \in 0 .. Capacity
    PROVE  /\ Slot(h, k) = IF h + k < Capacity THEN h + k ELSE h + k - Capacity
           /\ Slot(h, k) \in Slots
    BY CapacityAssumption DEF Slot, Slots

(* The slot after a slot, as Enqueue and Dequeue compute it. *)
LEMMA NextSlot ==
    ASSUME NEW h \in Slots
    PROVE  /\ (h + 1) % Capacity = IF h + 1 < Capacity THEN h + 1 ELSE 0
           /\ (h + 1) % Capacity \in Slots
    BY CapacityAssumption DEF Slots

(* Advancing head by one shifts every place by one. *)
LEMMA SlotShift ==
    ASSUME NEW h \in Slots, NEW k \in 0 .. Capacity - 1
    PROVE  /\ Slot((h + 1) % Capacity, k) = Slot(h, k + 1)
           /\ (Slot(h, k) + 1) % Capacity = Slot(h, k + 1)
  <1>1. k \in 0 .. Capacity /\ k + 1 \in 0 .. Capacity
    BY CapacityAssumption
  <1> DEFINE next == (h + 1) % Capacity
  <1>2. next \in Slots /\ next = IF h + 1 < Capacity THEN h + 1 ELSE 0
    BY NextSlot
  <1>3. Slot(next, k) = IF next + k < Capacity THEN next + k ELSE next + k - Capacity
    BY <1>1, <1>2, SlotValue
  <1>4. Slot(h, k + 1) = IF h + (k + 1) < Capacity THEN h + (k + 1)
                                                   ELSE h + (k + 1) - Capacity
    BY <1>1, SlotValue
  <1>5. Slot(next, k) = Slot(h, k + 1)
    BY <1>2, <1>3, <1>4, CapacityAssumption DEF Slots
  <1> DEFINE here == Slot(h, k)
  <1>6. here \in Slots /\ here = IF h + k < Capacity THEN h + k ELSE h + k - Capacity
    BY <1>1, SlotValue
  <1>7. (here + 1) % Capacity = IF here + 1 < Capacity THEN here + 1 ELSE 0
    BY <1>6, NextSlot
  <1>8. (here + 1) % Capacity = Slot(h, k + 1)
    BY <1>4, <1>6, <1>7, CapacityAssumption DEF Slots
  <1> QED BY <1>5, <1>8

(* Places less than a lap apart are different slots. *)
LEMMA SlotInjective ==
    ASSUME NEW h \in Slots, NEW j \in 0 .. Capacity - 1, NEW k \in 0 .. Capacity - 1,
           Slot(h, j) = Slot(h, k)
    PROVE  j = k
  <1>1. j \in 0 .. Capacity /\ k \in 0 .. Capacity
    BY CapacityAssumption
  <1>2. Slot(h, j) = IF h + j < Capacity THEN h + j ELSE h + j - Capacity
    BY <1>1, SlotValue
  <1>3. Slot(h, k) = IF h + k < Capacity THEN h + k ELSE h + k - Capacity
    BY <1>1, SlotValue
  <1>4. h \in Int /\ j \in Int /\ k \in Int /\ Capacity \in Int
    BY CapacityAssumption DEF Slots
  <1>5. CASE h + j < Capacity
    <2>1. h + j = IF h + k < Capacity THEN h + k ELSE h + k - Capacity
      BY <1>2, <1>3, <1>5
    <2> QED BY <2>1, <1>4
  <1>6. CASE ~(h + j < Capacity)
    <2>1. h + j - Capacity = IF h + k < Capacity THEN h + k ELSE h + k - Capacity
      BY <1>2, <1>3, <1>6
    <2> QED BY <2>1, <1>4
  <1> QED BY <1>5, <1>6
-----------------------------------------------------------------------------
(* What a step leaves alone when it touches neither the slots nor the counts.*)
LEMMA ContentsUnchanged ==
    ASSUME UNCHANGED <<items, head, size, cpc>>
    PROVE  Count' = Count /\ Contents' = Contents
    BY DEF Count, Contents

(* Contents read through its definition. *)
LEMMA ContentsValue ==
    /\ DOMAIN Contents = 1 .. Count
    /\ \A i \in 1 .. Count : Contents[i] = items[Slot(head, i - 1)]
    BY DEF Contents

LEMMA CountType ==
    ASSUME IInv
    PROVE  Count \in 0 .. Capacity
    BY CapacityAssumption DEF IInv, TypeOK, ConsumerInvariant, Count

LEMMA InitIInv ==
    ASSUME Init
    PROVE  IInv
  <1>1. Count = 0
    BY DEF Init, Count
  <1>2. Slot(0, 0) = 0
    BY CapacityAssumption DEF Slot
  <1>3. TypeOK
    BY CapacityAssumption DEF Init, TypeOK, Slots
  <1>4. OneHolder
    BY ThreadAssumption DEF Init, OneHolder
  <1>5. EnqueueInvariant
    BY DEF Init, EnqueueInvariant
  <1>6. TailInvariant
    BY <1>1, <1>2 DEF Init, TailInvariant
  <1>7. ConsumerInvariant /\ CurrentIsOldest
    BY DEF Init, ConsumerInvariant, CurrentIsOldest
  <1>8. NoHole
    BY <1>1 DEF NoHole
  <1> QED BY <1>3, <1>4, <1>5, <1>6, <1>7, <1>8 DEF IInv

(* Lock of Enqueue: nothing of the ring changes, and there is a free slot.   *)
LEMMA EnqueueLockStep ==
    ASSUME IInv, NEW p \in Producers, NEW v \in Item, EnqueueLock(p, v)
    PROVE  IInv'
  <1> USE DEF IInv, EnqueueLock, ringVars, producerVars, consumerVars, surplusVars
  <1>1. Count' = Count /\ Contents' = Contents
    BY ContentsUnchanged
  <1>2. \A q \in Producers : pc[q] = "idle"
    BY ThreadAssumption DEF OneHolder
  <1>3. TypeOK'
    BY DEF TypeOK
  <1>4. OneHolder'
    BY <1>2, ThreadAssumption DEF OneHolder, TypeOK
  <1>5. EnqueueInvariant'
    BY <1>2, <1>3, CapacityAssumption DEF EnqueueInvariant, TypeOK, Full
  <1>6. TailInvariant'
    BY <1>1, <1>2 DEF TailInvariant
  <1>7. NoHole' /\ ConsumerInvariant' /\ CurrentIsOldest'
    BY <1>1 DEF NoHole, ConsumerInvariant, CurrentIsOldest
  <1> QED BY <1>3, <1>4, <1>5, <1>6, <1>7

(* The store into the free slot is outside the contents. *)
LEMMA EnqueueItemStep ==
    ASSUME IInv, NEW p \in Producers, EnqueueItem(p)
    PROVE  IInv' /\ Contents' = Contents
  <1> USE DEF IInv, EnqueueItem, ringVars, producerVars, consumerVars, surplusVars
  <1>1. mutex = p /\ cpc \notin {"head", "size"}
    BY ThreadAssumption DEF OneHolder
  <1>2. \A q \in Producers : q # p => pc[q] = "idle"
    BY <1>1 DEF OneHolder
  <1>3. Count = size /\ Count' = size /\ size \in 0 .. Capacity - 1
    BY <1>1, CapacityAssumption DEF Count, EnqueueInvariant, TypeOK
  <1>4. tail = Slot(head, size)
    BY <1>2, <1>3 DEF TailInvariant
  <1>5. \A i \in 1 .. size : Slot(head, i - 1) # tail
    <2> SUFFICES ASSUME NEW i \in 1 .. size, Slot(head, i - 1) = tail PROVE FALSE
      OBVIOUS
    <2>1. i - 1 \in 0 .. Capacity - 1 /\ i - 1 # size
      BY <1>3, CapacityAssumption
    <2> QED BY <2>1, <1>3, <1>4, SlotInjective DEF TypeOK
  <1>6. \A i \in 1 .. size : Slot(head, i - 1) \in Slots
    BY <1>3, SlotValue, CapacityAssumption DEF TypeOK
  <1>7. Contents' = Contents
    BY <1>3, <1>5, <1>6 DEF Contents, TypeOK
  <1>8. TypeOK'
    BY DEF TypeOK, EnqueueInvariant
  <1>9. OneHolder'
    BY DEF OneHolder, TypeOK
  <1>10. EnqueueInvariant'
    BY <1>2, <1>4 DEF EnqueueInvariant, TypeOK
  <1>11. TailInvariant'
    BY <1>2, <1>3, <1>4 DEF TailInvariant, TypeOK
  <1>12. NoHole' /\ ConsumerInvariant' /\ CurrentIsOldest'
    BY <1>3, <1>7 DEF NoHole, ConsumerInvariant, CurrentIsOldest
  <1> QED BY <1>7, <1>8, <1>9, <1>10, <1>11, <1>12

LEMMA EnqueueTailStep ==
    ASSUME IInv, NEW p \in Producers, EnqueueTail(p)
    PROVE  IInv'
  <1> USE DEF IInv, EnqueueTail, ringVars, producerVars, consumerVars, surplusVars
  <1>1. mutex = p /\ cpc \notin {"head", "size"}
    BY ThreadAssumption DEF OneHolder
  <1>2. \A q \in Producers : q # p => pc[q] = "idle"
    BY <1>1 DEF OneHolder
  <1>3. Count = size /\ Count' = size /\ Contents' = Contents
    BY <1>1, ContentsUnchanged DEF Count
  <1>4. tail = Slot(head, size)
    BY <1>2, <1>3 DEF TailInvariant
  <1>5. TypeOK'
    BY NextSlot DEF TypeOK
  <1>6. OneHolder'
    BY DEF OneHolder, TypeOK
  <1>7. EnqueueInvariant'
    BY <1>2, <1>4 DEF EnqueueInvariant, TypeOK
  <1>8. TailInvariant'
    BY DEF TailInvariant, TypeOK
  <1>9. NoHole' /\ ConsumerInvariant' /\ CurrentIsOldest'
    BY <1>3 DEF NoHole, ConsumerInvariant, CurrentIsOldest
  <1> QED BY <1>5, <1>6, <1>7, <1>8, <1>9

(* Counting the new value in appends it to the contents. *)
LEMMA EnqueueSizeStep ==
    ASSUME IInv, NEW p \in Producers, EnqueueSize(p)
    PROVE  /\ IInv'
           /\ Len(Contents) < Capacity
           /\ val[p] \in Item
           /\ Contents' = Append(Contents, val[p])
  <1> USE DEF IInv, EnqueueSize, ringVars, producerVars, consumerVars, surplusVars
  <1>1. mutex = p /\ cpc \notin {"head", "size"}
    BY ThreadAssumption DEF OneHolder
  <1>2. \A q \in Producers : q # p => pc[q] = "idle"
    BY <1>1 DEF OneHolder
  <1>3. /\ Count = size /\ Count' = size + 1
        /\ size \in 0 .. Capacity - 1 /\ head \in Slots /\ val[p] \in Item
    BY <1>1, CapacityAssumption DEF Count, EnqueueInvariant, TypeOK
  <1>4. items[Slot(head, size)] = val[p] /\ tail = (Slot(head, size) + 1) % Capacity
    BY DEF EnqueueInvariant
  <1>5. tail = Slot(head, size + 1)
    BY <1>3, <1>4, SlotShift
  <1>6. \A i \in 1 .. size : Contents'[i] = Contents[i]
    BY <1>3 DEF Contents
  <1>7. Contents'[size + 1] = val[p]
    BY <1>3, <1>4 DEF Contents
  <1>8. /\ Len(Contents) = size
        /\ Contents' = [i \in 1 .. size + 1 |-> Contents'[i]]
        /\ Contents = [i \in 1 .. size |-> Contents[i]]
    BY <1>3 DEF Contents
  <1>9. Contents' = Append(Contents, val[p])
    BY <1>3, <1>6, <1>7, <1>8
  <1>10. TypeOK'
    BY <1>3, CapacityAssumption DEF TypeOK
  <1>11. OneHolder'
    BY <1>1, <1>2, ThreadAssumption DEF OneHolder, TypeOK
  <1>12. EnqueueInvariant'
    BY <1>2 DEF EnqueueInvariant, TypeOK
  <1>13. TailInvariant'
    BY <1>3, <1>5 DEF TailInvariant, TypeOK
  <1>14. NoHole'
    BY <1>3, <1>6, <1>7 DEF NoHole
  <1>15. ConsumerInvariant'
    BY <1>3 DEF ConsumerInvariant
  <1>16. CurrentIsOldest'
    BY <1>3, <1>6 DEF CurrentIsOldest
  <1>17. Len(Contents) < Capacity
    BY <1>3, <1>8, CapacityAssumption
  <1> QED BY <1>3, <1>9, <1>10, <1>11, <1>12, <1>13, <1>14, <1>15, <1>16, <1>17

(* The consumer's steps that leave the ring alone. *)
LEMMA ConsumerStep ==
    ASSUME IInv, CurrentSize \/ ReportOK \/ ReportFails \/ DequeueLock
    PROVE  IInv' /\ Contents' = Contents
  <1> USE DEF IInv, CurrentSize, ReportOK, ReportFails, DequeueLock,
              ringVars, producerVars, consumerVars, surplusVars
  <1>1. cpc # "size" /\ cpc' # "size"
    BY DEF OneHolder
  <1>2. Count' = Count /\ Contents' = Contents
    BY <1>1 DEF Count, Contents
  <1>3. TypeOK'
    BY DEF TypeOK
  <1>4. OneHolder'
    BY ThreadAssumption DEF OneHolder, ConsumerInvariant, TypeOK
  <1>5. EnqueueInvariant'
    BY DEF EnqueueInvariant
  <1>6. TailInvariant'
    BY <1>2 DEF TailInvariant
  <1>7. NoHole'
    BY <1>2 DEF NoHole
  <1>8. ConsumerInvariant'
    BY ItemAssumption DEF ConsumerInvariant, TypeOK
  <1>9. CurrentIsOldest'
    BY <1>2 DEF CurrentIsOldest
  <1> QED BY <1>2, <1>3, <1>4, <1>5, <1>6, <1>7, <1>8, <1>9

(* Current returns the oldest request. *)
LEMMA CurrentItemStep ==
    ASSUME IInv, CurrentItem
    PROVE  IInv' /\ Contents' = Contents /\ cur' = Contents[1] /\ Len(Contents) > 0
  <1> USE DEF IInv, CurrentItem, ringVars, producerVars, consumerVars, surplusVars
  <1>1. Count = size /\ Count' = size /\ Contents' = Contents /\ size \in 1 .. Capacity
    BY CapacityAssumption DEF Count, Contents, ConsumerInvariant, TypeOK
  <1>2. Slot(head, 0) = head /\ Len(Contents) = size
    BY <1>1, SlotValue, CapacityAssumption DEF TypeOK, Contents, Slots
  <1>3. Contents[1] = items[head]
    BY <1>1, <1>2 DEF Contents
  <1>4. cur' = Contents[1] /\ cur' \in Item
    BY <1>1, <1>3 DEF NoHole
  <1>5. TypeOK'
    BY <1>4 DEF TypeOK
  <1>6. OneHolder' /\ EnqueueInvariant'
    BY DEF OneHolder, EnqueueInvariant
  <1>7. TailInvariant' /\ NoHole'
    BY <1>1 DEF TailInvariant, NoHole
  <1>8. ConsumerInvariant' /\ CurrentIsOldest'
    BY <1>1, <1>4, ItemAssumption DEF ConsumerInvariant, CurrentIsOldest
  <1> QED BY <1>1, <1>2, <1>4, <1>5, <1>6, <1>7, <1>8

(* Moving head drops the oldest request, the one that was delivered. *)
LEMMA DequeueHeadStep ==
    ASSUME IInv, DequeueHead
    PROVE  /\ IInv'
           /\ Len(Contents) > 0
           /\ cur = Contents[1]
           /\ Contents' = Tail(Contents)
  <1> USE DEF IInv, DequeueHead, ringVars, producerVars, consumerVars, surplusVars
  <1>1. \A p \in Producers : pc[p] = "idle"
    BY ThreadAssumption DEF OneHolder
  <1>2. Count = size /\ Count' = size - 1 /\ size \in 1 .. Capacity /\ head \in Slots
    BY CapacityAssumption DEF Count, ConsumerInvariant, TypeOK
  <1>3. head' \in Slots
    BY <1>2, NextSlot
  <1>4. \A k \in 0 .. Capacity - 1 : Slot(head', k) = Slot(head, k + 1)
    BY <1>2, SlotShift
  <1>5. \A i \in 1 .. size - 1 : Contents'[i] = Contents[i + 1]
    <2> SUFFICES ASSUME NEW i \in 1 .. size - 1 PROVE Contents'[i] = Contents[i + 1]
      OBVIOUS
    <2>1. i - 1 \in 0 .. Capacity - 1 /\ (i - 1) + 1 = i /\ i + 1 \in 1 .. size
      BY <1>2, CapacityAssumption
    <2>2. Contents'[i] = items[Slot(head', i - 1)]
      BY <1>2 DEF Contents
    <2>3. Contents[i + 1] = items[Slot(head, (i + 1) - 1)] /\ (i + 1) - 1 = i
      BY <1>2, <2>1 DEF Contents
    <2> QED BY <1>4, <2>1, <2>2, <2>3
  <1>6. /\ Len(Contents) = size /\ Len(Contents') = size - 1
        /\ Contents' = [i \in 1 .. size - 1 |-> Contents'[i]]
        /\ Contents = [i \in 1 .. size |-> Contents[i]]
    BY <1>2 DEF Contents
  <1>7. Contents' = Tail(Contents)
    BY <1>2, <1>5, <1>6
  <1>8. TypeOK'
    BY <1>3 DEF TypeOK
  <1>9. OneHolder' /\ EnqueueInvariant'
    BY <1>1 DEF OneHolder, EnqueueInvariant
  <1>10. tail = Slot(head, size)
    BY <1>1, <1>2 DEF TailInvariant
  <1>11. Slot(head', size - 1) = Slot(head, (size - 1) + 1) /\ (size - 1) + 1 = size
    BY <1>2, <1>4, CapacityAssumption
  <1>12. TailInvariant'
    BY <1>2, <1>10, <1>11 DEF TailInvariant
  <1>13. NoHole'
    <2> SUFFICES ASSUME NEW i \in 1 .. size - 1 PROVE Contents'[i] \in Item
      BY <1>2 DEF NoHole
    <2>1. i + 1 \in 1 .. size
      BY <1>2
    <2> QED BY <1>2, <1>5, <2>1 DEF NoHole
  <1>14. ConsumerInvariant' /\ CurrentIsOldest'
    BY DEF ConsumerInvariant, CurrentIsOldest
  <1>15. cur = Contents[1]
    BY DEF CurrentIsOldest
  <1>16. Len(Contents) > 0
    BY <1>2, <1>6
  <1> QED BY <1>7, <1>8, <1>9, <1>12, <1>13, <1>14, <1>15, <1>16

(* The second half of Dequeue: size follows head. *)
LEMMA DequeueSizeStep ==
    ASSUME IInv, DequeueSize
    PROVE  IInv' /\ Contents' = Contents
  <1> USE DEF IInv, DequeueSize, ringVars, producerVars, consumerVars, surplusVars
  <1>1. \A p \in Producers : pc[p] = "idle"
    BY ThreadAssumption DEF OneHolder
  <1>2. Count' = Count /\ Contents' = Contents /\ size \in 1 .. Capacity
    BY CapacityAssumption DEF Count, Contents, ConsumerInvariant, TypeOK
  <1>3. TypeOK'
    BY <1>2, CapacityAssumption DEF TypeOK
  <1>4. OneHolder' /\ EnqueueInvariant'
    BY <1>1, ThreadAssumption DEF OneHolder, EnqueueInvariant
  <1>5. TailInvariant' /\ NoHole'
    BY <1>2 DEF TailInvariant, NoHole
  <1>6. ConsumerInvariant' /\ CurrentIsOldest'
    BY <1>2 DEF ConsumerInvariant, CurrentIsOldest
  <1> QED BY <1>2, <1>3, <1>4, <1>5, <1>6

(* Surplus only reads. *)
LEMMA SurplusStep ==
    ASSUME IInv, Surplus
    PROVE  IInv' /\ Contents' = Contents
  <1> USE DEF IInv, Surplus, SurplusSize, SurplusHead, SurplusItem, SurplusReturn,
              SurplusAgain, ringVars, producerVars, consumerVars
  <1>1. Count' = Count /\ Contents' = Contents
    BY ContentsUnchanged
  <1>2. ToSet(Contents) \in SUBSET Item
    BY DEF NoHole, Contents, ToSet
  <1>3. UNCHANGED <<items, head, tail, size, mutex, pc, val, cpc, cur>>
    OBVIOUS
  <1>4. TypeOK'
    <2>1. CASE SurplusItem
      <3>1. Len(result) \in 0 .. Capacity
        BY <2>1, CapacityAssumption DEF TypeOK
      <3>2. items[Slot(sHead, Len(result))] \in Item \cup {None}
        BY <3>1, SlotValue DEF TypeOK
      <3>3. result' \in Seq(Item \cup {None})
        BY <2>1, <3>2 DEF TypeOK
      <3> QED BY <1>3, <2>1, <3>3 DEF TypeOK
    <2>2. CASE SurplusSize
      <3>1. result' \in Seq(Item \cup {None}) /\ resident' \in SUBSET Item
        BY <1>2, <2>2
      <3>2. spc' = "head" /\ sSize' = size /\ sHead' = sHead
        BY <2>2
      <3> QED BY <1>3, <3>1, <3>2 DEF TypeOK
    <2>4. CASE SurplusHead \/ SurplusReturn
      BY <1>3, <2>4 DEF TypeOK
    <2>3. CASE SurplusAgain
      BY <1>3, <2>3, CapacityAssumption DEF TypeOK, Slots
    <2> QED BY <2>1, <2>2, <2>3, <2>4
  <1>5. OneHolder' /\ EnqueueInvariant'
    BY DEF OneHolder, EnqueueInvariant
  <1>6. TailInvariant' /\ NoHole'
    BY <1>1 DEF TailInvariant, NoHole
  <1>7. ConsumerInvariant' /\ CurrentIsOldest'
    BY <1>1 DEF ConsumerInvariant, CurrentIsOldest
  <1> QED BY <1>1, <1>4, <1>5, <1>6, <1>7
-----------------------------------------------------------------------------
(* Every step keeps the inductive invariant. *)
LEMMA NextIInv ==
    ASSUME IInv, [Next]_vars
    PROVE  IInv'
  <1>1. ASSUME NEW p \in Producers, Enqueue(p) PROVE IInv'
    BY <1>1, EnqueueLockStep, EnqueueItemStep, EnqueueTailStep, EnqueueSizeStep DEF Enqueue
  <1>2. CASE Consume
    BY <1>2, ConsumerStep, CurrentItemStep, DequeueHeadStep, DequeueSizeStep DEF Consume
  <1>3. CASE Surplus
    BY <1>3, SurplusStep
  <1>4. CASE UNCHANGED vars
    <2>1. Count' = Count /\ Contents' = Contents
      BY <1>4, ContentsUnchanged DEF vars, ringVars, consumerVars
    <2> QED BY <1>4, <2>1 DEF IInv, TypeOK, OneHolder, NoHole, EnqueueInvariant, TailInvariant,
              ConsumerInvariant, CurrentIsOldest, vars, ringVars, producerVars,
              consumerVars, surplusVars
  <1> QED BY <1>1, <1>2, <1>3, <1>4 DEF Next

(* The invariant holds throughout every execution. *)
THEOREM Invariance == Spec => []IInv
  <1>1. Init => IInv
    BY InitIInv
  <1>2. IInv /\ [Next]_vars => IInv'
    BY NextIInv
  <1> QED BY <1>1, <1>2, PTL DEF Spec

(* The variables keep their types: head and tail never leave the slots, and  *)
(* size never exceeds the capacity or becomes negative (ring_buff.go:6-13).  *)
THEOREM TypeCorrect == Spec => []TypeOK
  <1>1. IInv => TypeOK
    BY DEF IInv
  <1> QED BY <1>1, Invariance, PTL

(* The request read by Current without the lock (ring_buff.go:49-55) is the  *)
(* oldest one, and still is when the Dequeue of loopReport removes it, for   *)
(* every capacity and any number of producers.                               *)
THEOREM CurrentCorrect == Spec => []CurrentIsOldest
  <1>1. IInv => CurrentIsOldest
    BY DEF IInv
  <1> QED BY <1>1, Invariance, PTL
-----------------------------------------------------------------------------
(* Each step is a step of the bounded queue or leaves it alone. *)
LEMMA StepRefines ==
    ASSUME IInv, IInv', [Next]_vars
    PROVE  [Queue!Next]_(Queue!vars)
  <1> USE DEF Queue!Next, Queue!vars, Queue!Enqueue, Queue!Peek, Queue!Release, Queue!Dequeue
  <1>0. Len(Contents) = Count /\ (Contents = <<>> <=> Count = 0)
    BY CountType DEF Contents
  <1>1. ASSUME NEW p \in Producers, Enqueue(p) PROVE [Queue!Next]_(Queue!vars)
    <2>1. ASSUME NEW v \in Item, EnqueueLock(p, v) PROVE UNCHANGED Queue!vars
      BY <2>1, ContentsUnchanged DEF EnqueueLock, consumerVars
    <2>2. CASE EnqueueItem(p)
      BY <2>2, EnqueueItemStep DEF EnqueueItem, consumerVars
    <2>3. CASE EnqueueTail(p)
      BY <2>3, ContentsUnchanged DEF EnqueueTail, consumerVars
    <2>4. CASE EnqueueSize(p)
      BY <2>4, EnqueueSizeStep DEF EnqueueSize, consumerVars
    <2> QED BY <1>1, <2>1, <2>2, <2>3, <2>4 DEF Enqueue
  <1>2. CASE Consume
    <2>1. CASE CurrentSize \/ ReportOK
      BY <2>1, ConsumerStep DEF CurrentSize, ReportOK
    <2>2. CASE CurrentItem
      <3>1. cur = None
        BY <2>2 DEF CurrentItem, IInv, ConsumerInvariant
      <3>2. Contents' = Contents /\ cur' = Contents[1] /\ Contents # <<>>
        BY <2>2, <1>0, CurrentItemStep
      <3> QED BY <3>1, <3>2
    <2>3. CASE ReportFails
      <3>1. cur # None
        BY <2>3 DEF ReportFails, IInv, ConsumerInvariant
      <3> QED BY <2>3, <3>1, ConsumerStep DEF ReportFails
    <2>4. CASE DequeueLock
      <3>1. size # 0
        BY <2>4 DEF DequeueLock, IInv, ConsumerInvariant, TypeOK
      <3> QED BY <2>4, <3>1, ConsumerStep DEF DequeueLock
    <2>5. CASE DequeueHead
      <3>1. Contents' = Tail(Contents) /\ cur = Contents[1] /\ Contents # <<>>
        BY <2>5, <1>0, DequeueHeadStep
      <3> QED BY <2>5, <3>1 DEF DequeueHead
    <2>6. CASE DequeueSize
      BY <2>6, DequeueSizeStep DEF DequeueSize
    <2> QED BY <1>2, <2>1, <2>2, <2>3, <2>4, <2>5, <2>6 DEF Consume
  <1>3. CASE Surplus
    BY <1>3, SurplusStep DEF Surplus, SurplusSize, SurplusHead, SurplusItem, SurplusReturn,
                             SurplusAgain, consumerVars
  <1>4. CASE UNCHANGED vars
    BY <1>4, ContentsUnchanged DEF vars, ringVars, consumerVars
  <1> QED BY <1>1, <1>2, <1>3, <1>4 DEF Next

(* The ring with its separate stores and unlocked reads (ring_buff.go:25-55) *)
(* is a bounded FIFO queue whose consumer removes exactly what it delivered. *)
THEOREM Refinement == Spec => ImplementsQueue
  <1>1. Init => Queue!Init
    <2>1. ASSUME Init PROVE Contents = <<>>
      <3>1. Count = 0
        BY <2>1 DEF Init, Count
      <3> QED BY <3>1 DEF Contents
    <2> QED BY <2>1 DEF Init, Queue!Init
  <1>2. IInv /\ IInv' /\ [Next]_vars => [Queue!Next]_(Queue!vars)
    BY StepRefines
  <1> QED BY <1>1, <1>2, Invariance, PTL DEF Spec, ImplementsQueue, Queue!Spec
-----------------------------------------------------------------------------
(* What Surplus relies on between two of its unlocked reads.  Once it has    *)
(* read size, a value that has stayed in the ring is among the first sSize;  *)
(* once it has read head, that value is the one in one of the sSize slots    *)
(* from sHead on, copied or still to be copied, wherever head is by then.    *)
StaysAhead(v) == \E i \in 1 .. Count : i <= sSize /\ Contents[i] = v

StaysInSlot(v, s) == \E i \in 1 .. Count : Contents[i] = v /\ Slot(head, i - 1) = s

CopiedOrThere(v, k) ==
    /\ k < Len(result) => result[k + 1] = v
    /\ k >= Len(result) => StaysInSlot(v, Slot(sHead, k))

SurplusInvariant ==
    /\ Len(result) <= sSize
    /\ spc = "head" => result = <<>> /\ \A v \in resident : StaysAhead(v)
    /\ spc = "items" =>
           \A v \in resident : \E k \in 0 .. sSize - 1 : CopiedOrThere(v, k)
    /\ SurplusKeepsResidents

(* A step of Enqueue or Dequeue keeps a value that stays in the ring in its  *)
(* slot, and never moves it further from head.                               *)
LEMMA RingStep ==
    ASSUME IInv, (\E p \in Producers : Enqueue(p)) \/ Consume
    PROVE  /\ UNCHANGED surplusVars
           /\ resident' \subseteq resident
           /\ \A v \in resident' : \A i \in 1 .. Count :
                  Contents[i] = v =>
                      \E j \in 1 .. Count' : /\ j <= i
                                             /\ Contents'[j] = v
                                             /\ Slot(head', j - 1) = Slot(head, i - 1)
  <1>1. Count \in 0 .. Capacity /\ IInv'
    BY CountType, NextIInv DEF Next
  <1>2. Count' \in 0 .. Capacity
    <2>1. size' \in 0 .. Capacity /\ (cpc' = "size" => size' > 0)
      BY <1>1 DEF IInv, TypeOK, ConsumerInvariant
    <2>2. CASE cpc' = "size"
      <3>1. Count' = size' - 1
        BY <2>2 DEF Count
      <3>2. size' \in 1 .. Capacity
        BY <2>1, <2>2, CapacityAssumption
      <3>3. \A n \in 1 .. Capacity : n - 1 \in 0 .. Capacity
        BY CapacityAssumption
      <3> QED BY <3>1, <3>2, <3>3
    <2>3. CASE cpc' # "size"
      <3>1. Count' = size'
        BY <2>3 DEF Count
      <3> QED BY <2>1, <3>1
    <2> QED BY <2>2, <2>3
  <1> DEFINE Kept == \A v \in resident' : \A i \in 1 .. Count :
                  Contents[i] = v =>
                      \E j \in 1 .. Count' : /\ j <= i
                                             /\ Contents'[j] = v
                                             /\ Slot(head', j - 1) = Slot(head, i - 1)
  <1>3. Len(Contents) = Count /\ Len(Contents') = Count'
    BY <1>1, <1>2 DEF Contents
  <1>4. Contents \in Seq(Item)
    <2>1. \A i \in 1 .. Count : items[Slot(head, i - 1)] \in Item
      BY ContentsValue DEF IInv, NoHole
    <2> QED BY <1>1, <2>1 DEF Contents
  <1>5. ASSUME Contents' = Contents, head' = head PROVE Kept
    BY <1>1, <1>3, <1>5
  <1>6. ASSUME NEW p \in Producers, Enqueue(p)
        PROVE  UNCHANGED surplusVars /\ resident' = resident /\ Kept
    <2>1. UNCHANGED <<surplusVars, head, resident>>
      BY <1>6 DEF Enqueue, EnqueueLock, EnqueueItem, EnqueueTail, EnqueueSize
    <2>2. ASSUME NEW v \in Item, EnqueueLock(p, v) PROVE Contents' = Contents
      BY <2>2, ContentsUnchanged DEF EnqueueLock, consumerVars
    <2>3. CASE ~ EnqueueSize(p)
      <3>1. Contents' = Contents
        BY <1>6, <2>2, <2>3, EnqueueItemStep, ContentsUnchanged
           DEF Enqueue, EnqueueTail, consumerVars
      <3> QED BY <2>1, <3>1, <1>5
    <2>4. CASE EnqueueSize(p)
      <3>1. Contents' = Append(Contents, val[p]) /\ Contents \in Seq(Item)
        BY <1>4, <2>4, EnqueueSizeStep
      <3>2. Count' = Count + 1 /\ \A i \in 1 .. Count : Contents'[i] = Contents[i]
        BY <1>1, <1>3, <3>1
      <3> QED BY <1>1, <2>1, <3>2
    <2> QED BY <2>1, <2>3, <2>4
  <1>7. CASE Consume
    <2>1. UNCHANGED surplusVars
      BY <1>7 DEF Consume, CurrentSize, CurrentItem, ReportOK, ReportFails, DequeueLock,
                  DequeueHead, DequeueSize
    <2>2. CASE ~ DequeueHead
      <3>1. UNCHANGED <<head, resident>>
        BY <1>7, <2>2 DEF Consume, CurrentSize, CurrentItem, ReportOK, ReportFails,
                          DequeueLock, DequeueSize, ringVars
      <3>2. Contents' = Contents
        BY <1>7, <2>2, ConsumerStep, CurrentItemStep, DequeueSizeStep DEF Consume
      <3> QED BY <2>1, <3>1, <3>2, <1>5
    <2>3. CASE DequeueHead
      <3>1. Contents' = Tail(Contents) /\ Len(Contents) > 0 /\ Contents \in Seq(Item)
        BY <1>4, <2>3, DequeueHeadStep
      <3>2. Count' = Count - 1 /\ \A j \in 1 .. Count - 1 : Contents'[j] = Contents[j + 1]
        BY <1>1, <1>3, <3>1
      <3>3. head \in Slots /\ head' = (head + 1) % Capacity
        BY <2>3 DEF DequeueHead, IInv, TypeOK
      <3>4. Slot(head, 0) = head
        BY <3>3, CapacityAssumption DEF Slot, Slots
      <3>5. resident' = resident \ {Contents[1]}
        BY <1>1, <1>3, <2>3, <3>1, <3>4, ContentsValue DEF DequeueHead
      <3>6. SUFFICES ASSUME NEW v \in resident', NEW i \in 1 .. Count, Contents[i] = v
                     PROVE  \E j \in 1 .. Count' :
                                /\ j <= i
                                /\ Contents'[j] = v
                                /\ Slot(head', j - 1) = Slot(head, i - 1)
        BY <2>1, <3>5
      <3>7. i # 1 /\ i - 1 \in 1 .. Count' /\ i - 1 <= i
        BY <1>1, <3>2, <3>5, <3>6
      <3>8. Contents'[i - 1] = v
        BY <1>1, <3>2, <3>6, <3>7
      <3>9. i - 2 \in 0 .. Capacity - 1 /\ (i - 2) + 1 = i - 1 /\ (i - 1) - 1 = i - 2
        BY <1>1, <3>2, <3>7, CapacityAssumption
      <3>10. Slot(head', (i - 1) - 1) = Slot(head, i - 1)
        BY <3>3, <3>9, SlotShift
      <3> QED BY <3>7, <3>8, <3>10
    <2> QED BY <2>2, <2>3
  <1> QED BY <1>6, <1>7

(* Surplus keeps what it relies on, and ends with a copy of every resident.  *)
LEMMA SurplusKeeps ==
    ASSUME IInv, SurplusInvariant, [Next]_vars
    PROVE  SurplusInvariant'
  <1>1. Count \in 0 .. Capacity /\ size \in 0 .. Capacity /\ Count <= size
    BY CountType DEF IInv, TypeOK, Count
  <1>2. /\ result \in Seq(Item \cup {None}) /\ sSize \in 0 .. Capacity
        /\ Len(result) \in Nat /\ Len(result) <= sSize
    BY CapacityAssumption DEF IInv, TypeOK, SurplusInvariant
  <1>3. CASE (\E p \in Producers : Enqueue(p)) \/ Consume
    <2>1. UNCHANGED <<spc, sSize, sHead, result>> /\ resident' \subseteq resident
      BY <1>3, RingStep DEF surplusVars
    <2>2. ASSUME NEW v \in resident', StaysAhead(v) PROVE StaysAhead(v)'
      <3>1. PICK i \in 1 .. Count : i <= sSize /\ Contents[i] = v
        BY <2>2 DEF StaysAhead
      <3>2. PICK j \in 1 .. Count' : j <= i /\ Contents'[j] = v
        BY <1>3, <3>1, RingStep
      <3>3. j \in Int /\ j <= sSize
        BY <1>2, <3>1, <3>2
      <3> QED BY <2>1, <3>2, <3>3 DEF StaysAhead
    <2>3. ASSUME NEW v \in resident', NEW s, StaysInSlot(v, s)
          PROVE  \E j \in 1 .. Count' : Contents'[j] = v /\ Slot(head', j - 1) = s
      BY <1>3, <2>3, RingStep DEF StaysInSlot
    <2>4. ASSUME NEW v \in resident', NEW k \in 0 .. sSize - 1, CopiedOrThere(v, k)
          PROVE  CopiedOrThere(v, k)'
      BY <2>1, <2>3, <2>4 DEF CopiedOrThere, StaysInSlot
    <2> QED BY <2>1, <2>2, <2>4 DEF SurplusInvariant, SurplusKeepsResidents
  <1>4. CASE Surplus
    <2>1. IInv' /\ Contents' = Contents /\ Count' = Count /\ UNCHANGED <<items, head>>
      BY <1>4, SurplusStep, ContentsUnchanged
         DEF Surplus, SurplusSize, SurplusHead, SurplusItem, SurplusReturn, SurplusAgain,
             ringVars, consumerVars
    <2>2. CASE SurplusSize
      <3>1. /\ spc' = "head" /\ sSize' = size /\ result' = <<>>
            /\ resident' = ToSet(Contents)
        BY <2>2 DEF SurplusSize
      <3>2. \A v \in resident' : \E i \in 1 .. Count : i <= size /\ Contents[i] = v
        BY <1>1, <3>1, ContentsValue DEF ToSet
      <3> QED BY <1>1, <2>1, <3>1, <3>2
              DEF SurplusInvariant, SurplusKeepsResidents, StaysAhead
    <2>3. CASE SurplusHead
      <3>1. /\ spc' = "items" /\ sHead' = head /\ result = <<>>
            /\ UNCHANGED <<sSize, result, resident>>
            /\ \A v \in resident : StaysAhead(v)
        BY <2>3 DEF SurplusHead, SurplusInvariant
      <3>2. ASSUME NEW v \in resident
            PROVE  \E k \in 0 .. sSize - 1 : CopiedOrThere(v, k)'
        <4>1. PICK i \in 1 .. Count : i <= sSize /\ Contents[i] = v
          BY <3>1 DEF StaysAhead
        <4>2. i - 1 \in 0 .. sSize - 1 /\ ~(i - 1 < Len(result'))
          BY <1>1, <1>2, <3>1, <4>1
        <4>3. CopiedOrThere(v, i - 1)'
          BY <2>1, <3>1, <4>1, <4>2 DEF CopiedOrThere, StaysInSlot
        <4> QED BY <4>2, <4>3
      <3> QED BY <1>2, <3>1, <3>2 DEF SurplusInvariant, SurplusKeepsResidents
    <2>4. CASE SurplusItem
      <3> DEFINE read == items[Slot(sHead, Len(result))]
      <3>1. /\ spc = "items" /\ Len(result) < sSize
            /\ result' = Append(result, read)
            /\ UNCHANGED <<spc, sSize, sHead, resident>>
        BY <2>4 DEF SurplusItem
      <3> HIDE DEF read
      <3>2. /\ Len(result') = Len(result) + 1
            /\ \A n \in 1 .. Len(result) : result'[n] = result[n]
            /\ result'[Len(result) + 1] = read
        BY <1>2, <3>1
      <3>3. ASSUME NEW v \in resident, NEW k \in 0 .. sSize - 1, CopiedOrThere(v, k)
            PROVE  CopiedOrThere(v, k)'
        <4>1. CASE k < Len(result)
          BY <1>2, <3>2, <3>3, <4>1 DEF CopiedOrThere
        <4>2. CASE k = Len(result)
          <5>1. PICK i \in 1 .. Count : /\ Contents[i] = v
                                        /\ Slot(head, i - 1) = Slot(sHead, Len(result))
            BY <1>2, <3>3, <4>2 DEF CopiedOrThere, StaysInSlot
          <5>2. read = v
            BY <5>1, ContentsValue DEF read
          <5> QED BY <1>2, <3>2, <4>2, <5>2 DEF CopiedOrThere
        <4>3. CASE k > Len(result)
          <5>1. StaysInSlot(v, Slot(sHead, k))
            BY <1>2, <3>3, <4>3 DEF CopiedOrThere
          <5>2. StaysInSlot(v, Slot(sHead, k))'
            BY <2>1, <3>1, <5>1 DEF StaysInSlot
          <5>3. ~(k < Len(result'))
            BY <1>2, <3>2, <4>3
          <5> QED BY <3>1, <5>2, <5>3 DEF CopiedOrThere
        <4> QED BY <1>2, <4>1, <4>2, <4>3
      <3>4. Len(result') <= sSize'
        BY <1>2, <3>1, <3>2
      <3> QED BY <3>1, <3>3, <3>4 DEF SurplusInvariant, SurplusKeepsResidents
    <2>5. CASE SurplusReturn
      <3>1. /\ spc = "items" /\ spc' = "done" /\ Len(result) = sSize
            /\ UNCHANGED <<sSize, sHead, result, resident>>
        BY <2>5 DEF SurplusReturn
      <3>2. ASSUME NEW v \in resident PROVE v \in ToSet(result)
        <4>1. PICK k \in 0 .. sSize - 1 : CopiedOrThere(v, k)
          BY <3>1 DEF SurplusInvariant
        <4>2. k + 1 \in 1 .. Len(result) /\ result[k + 1] = v
          BY <1>2, <3>1, <4>1 DEF CopiedOrThere
        <4> QED BY <1>2, <4>2 DEF ToSet
      <3> QED BY <1>2, <3>1, <3>2 DEF SurplusInvariant, SurplusKeepsResidents
    <2>6. CASE SurplusAgain
      BY <2>6 DEF SurplusAgain, SurplusInvariant, SurplusKeepsResidents
    <2> QED BY <1>4, <2>2, <2>3, <2>4, <2>5, <2>6 DEF Surplus
  <1>5. CASE UNCHANGED vars
    BY <1>5, ContentsUnchanged
       DEF vars, ringVars, consumerVars, surplusVars, SurplusInvariant, SurplusKeepsResidents,
           StaysAhead, StaysInSlot, CopiedOrThere, ToSet
  <1> QED BY <1>3, <1>4, <1>5 DEF Next

(* Surplus (ring_buff.go:60-68) reads size, head and the slots without the   *)
(* lock while requests come and go, and still returns every request that is  *)
(* in the ring all along, for every capacity and any number of producers:    *)
(* what Stop persists from it leaves no such request out.                    *)
THEOREM SurplusComplete == Spec => []SurplusKeepsResidents
  <1>1. Init => SurplusInvariant
    BY DEF Init, SurplusInvariant, SurplusKeepsResidents
  <1>2. IInv /\ SurplusInvariant /\ [Next]_vars => SurplusInvariant'
    BY SurplusKeeps
  <1>3. SurplusInvariant => SurplusKeepsResidents
    BY DEF SurplusInvariant
  <1> QED BY <1>1, <1>2, <1>3, Invariance, PTL DEF Spec
=============================================================================
