------------------------------ MODULE RingBuff ------------------------------
(* report/ring_buff.go: the ring of the report job, at the grain of its      *)
(* memory accesses.  Enqueue and Dequeue hold rb.mutex, but Current and      *)
(* Surplus hold no lock and read size, head and the slots one at a time, so  *)
(* what they may see between two stores of a locked operation matters.       *)
(* Goroutines: any number of producers (Add), the consumer loopReport        *)
(* (Current, deliver, Dequeue) and the goroutine of Stop (Surplus).  Stores  *)
(* of one goroutine are seen in program order, as on the amd64 builds of     *)
(* this repository.                                                          *)
EXTENDS Integers, Sequences, SequencesExt

CONSTANTS Capacity, Item, None,
          Producers,  \* goroutines that call Enqueue
          Consumer,   \* the goroutine of loopReport
          NoOne       \* holder of a free mutex

ASSUME CapacityAssumption == Capacity \in Nat \ {0}
ASSUME ItemAssumption == None \notin Item
ASSUME ThreadAssumption ==
    Consumer \notin Producers /\ NoOne \notin Producers /\ NoOne # Consumer

VARIABLES
    items, head, tail, size, mutex,  \* the fields of RingBuff
    pc, val,                         \* per producer: its place in Enqueue, its argument
    cpc, cur,                        \* the consumer's place in its loop, its local req
    spc, sSize, sHead, result,       \* the place in Surplus and its locals
    resident                         \* history: in the ring ever since Surplus began

ringVars == <<items, head, tail, size, mutex>>
producerVars == <<pc, val>>
consumerVars == <<cpc, cur>>
surplusVars == <<spc, sSize, sHead, result>>
vars == <<ringVars, producerVars, consumerVars, surplusVars, resident>>

Slots == 0 .. Capacity - 1

(* The slot k places after the slot h. *)
Slot(h, k) == (h + k) % Capacity

(* The number of values in the ring; Dequeue moves head before size. *)
Count == IF cpc = "size" THEN size - 1 ELSE size

(* The values in the ring, the oldest first. *)
Contents == [i \in 1 .. Count |-> items[Slot(head, i - 1)]]

TypeOK ==
    /\ items \in [Slots -> Item \cup {None}]
    /\ head \in Slots
    /\ tail \in Slots
    /\ size \in 0 .. Capacity
    /\ mutex \in Producers \cup {Consumer, NoOne}
    /\ pc \in [Producers -> {"idle", "item", "tail", "size"}]
    /\ val \in [Producers -> Item \cup {None}]
    /\ cpc \in {"idle", "item", "report", "lock", "head", "size"}
    /\ cur \in Item \cup {None}
    /\ spc \in {"idle", "head", "items", "done"}
    /\ sSize \in 0 .. Capacity
    /\ sHead \in Slots
    /\ result \in Seq(Item \cup {None})
    /\ resident \in SUBSET Item

Init ==
    /\ items = [s \in Slots |-> None]
    /\ head = 0 /\ tail = 0 /\ size = 0
    /\ mutex = NoOne
    /\ pc = [p \in Producers |-> "idle"]
    /\ val = [p \in Producers |-> None]
    /\ cpc = "idle" /\ cur = None
    /\ spc = "idle" /\ sSize = 0 /\ sHead = 0 /\ result = <<>>
    /\ resident = {}
-----------------------------------------------------------------------------
FullOffByOne == size > Capacity
Full == size = Capacity

EnqueueLockWithoutMutex(p, v) ==
    /\ pc[p] = "idle"
    /\ ~Full
    /\ \A i \in 1 .. Count : Contents[i] # v
    /\ mutex' = p
    /\ pc' = [pc EXCEPT ![p] = "item"]
    /\ val' = [val EXCEPT ![p] = v]
    /\ UNCHANGED <<items, head, tail, size, consumerVars, surplusVars, resident>>

(* Enqueue.  A full ring makes it return false and change nothing.  The      *)
(* argument is a pointer to a request that is not in the ring already.       *)
EnqueueLock(p, v) ==
    /\ pc[p] = "idle" /\ mutex = NoOne
    /\ ~Full
    /\ \A i \in 1 .. Count : Contents[i] # v
    /\ mutex' = p
    /\ pc' = [pc EXCEPT ![p] = "item"]
    /\ val' = [val EXCEPT ![p] = v]
    /\ UNCHANGED <<items, head, tail, size, consumerVars, surplusVars, resident>>

EnqueueItem(p) ==
    /\ pc[p] = "item"
    /\ items' = [items EXCEPT ![tail] = val[p]]
    /\ pc' = [pc EXCEPT ![p] = "tail"]
    /\ UNCHANGED <<head, tail, size, mutex, val, consumerVars, surplusVars, resident>>

EnqueueTail(p) ==
    /\ pc[p] = "tail"
    /\ tail' = (tail + 1) % Capacity
    /\ pc' = [pc EXCEPT ![p] = "size"]
    /\ UNCHANGED <<items, head, size, mutex, val, consumerVars, surplusVars, resident>>

EnqueueSize(p) ==
    /\ pc[p] = "size"
    /\ size' = size + 1
    /\ mutex' = NoOne
    /\ pc' = [pc EXCEPT ![p] = "idle"]
    /\ val' = [val EXCEPT ![p] = None]
    /\ UNCHANGED <<items, head, tail, consumerVars, surplusVars, resident>>
-----------------------------------------------------------------------------
CurrentSizeOffByOne ==
    /\ cpc = "idle"
    /\ size > 1
    /\ cpc' = "item"
    /\ UNCHANGED <<ringVars, producerVars, cur, surplusVars, resident>>

(* Current, without the lock: size first, then the slot at head.  An empty   *)
(* ring makes it return nil and loopReport come back later.                  *)
CurrentSize ==
    /\ cpc = "idle"
    /\ size # 0
    /\ cpc' = "item"
    /\ UNCHANGED <<ringVars, producerVars, cur, surplusVars, resident>>

CurrentItemNewest ==
    /\ cpc = "item"
    /\ cur' = items[Slot(head, size - 1)]
    /\ cpc' = "report"
    /\ UNCHANGED <<ringVars, producerVars, surplusVars, resident>>

CurrentItem ==
    /\ cpc = "item"
    /\ cur' = items[head]
    /\ cpc' = "report"
    /\ UNCHANGED <<ringVars, producerVars, surplusVars, resident>>

(* creport takes the request, or loopReport keeps it and tries again. *)
ReportOK ==
    /\ cpc = "report"
    /\ cpc' = "lock"
    /\ UNCHANGED <<ringVars, producerVars, cur, surplusVars, resident>>

ReportFails ==
    /\ cpc = "report"
    /\ cpc' = "idle"
    /\ cur' = None
    /\ UNCHANGED <<ringVars, producerVars, surplusVars, resident>>

(* Dequeue.  loopReport drops its result: req is dead once head has moved. *)
DequeueLock ==
    /\ cpc = "lock" /\ mutex = NoOne
    /\ IF size = 0
       THEN cpc' = "idle" /\ cur' = None /\ UNCHANGED mutex
       ELSE cpc' = "head" /\ mutex' = Consumer /\ UNCHANGED cur
    /\ UNCHANGED <<items, head, tail, size, producerVars, surplusVars, resident>>

DequeueHead ==
    /\ cpc = "head"
    /\ head' = (head + 1) % Capacity
    /\ resident' = resident \ {items[head]}
    /\ cpc' = "size"
    /\ cur' = None
    /\ UNCHANGED <<items, tail, size, mutex, producerVars, surplusVars>>

DequeueSize ==
    /\ cpc = "size"
    /\ size' = size - 1
    /\ mutex' = NoOne
    /\ cpc' = "idle"
    /\ UNCHANGED <<items, head, tail, producerVars, cur, surplusVars, resident>>
-----------------------------------------------------------------------------
(* Surplus, without the lock: size, then head, then size slots. *)
SurplusSize ==
    /\ spc = "idle"
    /\ spc' = "head"
    /\ sSize' = size
    /\ result' = <<>>
    /\ resident' = ToSet(Contents)
    /\ UNCHANGED <<ringVars, producerVars, consumerVars, sHead>>

SurplusHeadForgotten ==
    /\ spc = "head"
    /\ spc' = "items"
    /\ sHead' = 0
    /\ UNCHANGED <<ringVars, producerVars, consumerVars, sSize, result, resident>>

SurplusHead ==
    /\ spc = "head"
    /\ spc' = "items"
    /\ sHead' = head
    /\ UNCHANGED <<ringVars, producerVars, consumerVars, sSize, result, resident>>

SurplusItem ==
    /\ spc = "items"
    /\ Len(result) < sSize
    /\ result' = Append(result, items[Slot(sHead, Len(result))])
    /\ UNCHANGED <<ringVars, producerVars, consumerVars, spc, sSize, sHead, resident>>

SurplusReturn ==
    /\ spc = "items"
    /\ Len(result) = sSize
    /\ spc' = "done"
    /\ UNCHANGED <<ringVars, producerVars, consumerVars, sSize, sHead, result, resident>>

(* Stop has used the snapshot; another call may come. *)
SurplusAgain ==
    /\ spc = "done"
    /\ spc' = "idle"
    /\ result' = <<>> /\ resident' = {} /\ sSize' = 0 /\ sHead' = 0
    /\ UNCHANGED <<ringVars, producerVars, consumerVars>>
-----------------------------------------------------------------------------
Enqueue(p) ==
    \/ \E v \in Item : EnqueueLock(p, v)
    \/ EnqueueItem(p) \/ EnqueueTail(p) \/ EnqueueSize(p)

Consume ==
    \/ CurrentSize \/ CurrentItem \/ ReportOK \/ ReportFails
    \/ DequeueLock \/ DequeueHead \/ DequeueSize

Surplus == SurplusSize \/ SurplusHead \/ SurplusItem \/ SurplusReturn \/ SurplusAgain

Next == (\E p \in Producers : Enqueue(p)) \/ Consume \/ Surplus

Spec == Init /\ [][Next]_vars

(* Every goroutine keeps running; creport sooner or later takes a request.   *)
FairSpec ==
    /\ Spec
    /\ WF_vars(Consume)
    /\ SF_vars(ReportOK)
    /\ \A p \in Producers :
           WF_vars(EnqueueItem(p) \/ EnqueueTail(p) \/ EnqueueSize(p))
-----------------------------------------------------------------------------
(* The request that loopReport is delivering is the oldest one of the ring   *)
(* (Current, ring_buff.go:49-55, reads it without the lock while producers   *)
(* store): it is never a hole, a stale slot or a newer request, so the       *)
(* Dequeue that follows removes what was delivered.                          *)
CurrentIsOldest ==
    cpc \in {"report", "lock", "head"} => Count > 0 /\ cur = Contents[1]

(* Surplus (ring_buff.go:60-68) misses nothing that stays in the ring while  *)
(* it runs, whatever producers and the consumer do between its reads: Stop   *)
(* persists every request it is responsible for.                             *)
SurplusKeepsResidents == spc = "done" => resident \subseteq ToSet(result)

(* RingBuff implements the bounded FIFO queue: Enqueue, Dequeue and the      *)
(* unlocked Current (ring_buff.go:25-55) act as the atomic operations of     *)
(* BoundedQueue on the contents of the ring.                                 *)
Queue == INSTANCE BoundedQueue WITH queue <- Contents, peeked <- cur
ImplementsQueue == Queue!Spec

(* A request that was accepted is delivered in the end, if creport keeps     *)
(* recovering: no interleaving parks a request in the ring.                  *)
EveryItemLeaves ==
    \A v \in Item : (v \in ToSet(Contents)) ~> (v \notin ToSet(Contents))
-----------------------------------------------------------------------------
(* The holder of the mutex is the one goroutine inside Enqueue or Dequeue. *)
OneHolder ==
    /\ \A p \in Producers : pc[p] # "idle" <=> mutex = p
    /\ cpc \in {"head", "size"} <=> mutex = Consumer

(* The values in the ring are requests, never a hole. *)
NoHole == \A i \in 1 .. Count : Contents[i] \in Item

(* Inside Enqueue there is a free slot; the new value waits in it. *)
EnqueueInvariant ==
    \A p \in Producers :
        /\ pc[p] # "idle" => size < Capacity /\ val[p] \in Item
        /\ pc[p] \in {"tail", "size"} => items[Slot(head, size)] = val[p]
        /\ pc[p] = "size" => tail = (Slot(head, size) + 1) % Capacity

(* Otherwise tail is the slot after the newest value. *)
TailInvariant ==
    (\A p \in Producers : pc[p] # "size") => tail = Slot(head, Count)

(* Only the consumer removes, so what Current saw is still there. *)
ConsumerInvariant ==
    /\ cpc # "idle" => size > 0
    /\ cpc \in {"idle", "item", "size"} <=> cur = None

(* The inductive invariant of the locked operations and of Current: it holds *)
(* between any two memory accesses of ring_buff.go:25-55.                    *)
IInv ==
    /\ TypeOK
    /\ OneHolder
    /\ NoHole
    /\ EnqueueInvariant
    /\ TailInvariant
    /\ ConsumerInvariant
    /\ CurrentIsOldest
=============================================================================
