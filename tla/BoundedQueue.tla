---------------------------- MODULE BoundedQueue ----------------------------
(* What report/ring_buff.go promises to the report job: a FIFO queue of at   *)
(* most Capacity requests whose single consumer looks at the oldest request, *)
(* tries to deliver it, and only then removes it.  RingBuff implements this  *)
(* specification; ReportJob uses the ring at this level of abstraction.      *)
EXTENDS Naturals, Sequences

CONSTANTS Capacity,   \* NewRingBuff's argument
          Item,       \* the values queued (pointers to report requests)
          None        \* "no value": the zero value that Current returns

VARIABLES queue,      \* the queued values, the oldest first
          peeked      \* the value the consumer is delivering, or None

vars == <<queue, peeked>>

Init == queue = <<>> /\ peeked = None

Enqueue(v) ==
    /\ Len(queue) < Capacity
    /\ queue' = Append(queue, v)
    /\ UNCHANGED peeked

(* The consumer looks at the oldest value and leaves it in the queue. *)
Peek ==
    /\ queue # <<>>
    /\ peeked = None
    /\ peeked' = Head(queue)
    /\ UNCHANGED queue

(* The delivery failed: the value stays where it is. *)
Release ==
    /\ peeked # None
    /\ peeked' = None
    /\ UNCHANGED queue

(* The delivery succeeded: what is removed is what was delivered. *)
Dequeue ==
    /\ queue # <<>>
    /\ peeked = Head(queue)
    /\ queue' = Tail(queue)
    /\ peeked' = None

Next == (\E v \in Item : Enqueue(v)) \/ Peek \/ Release \/ Dequeue

Spec == Init /\ [][Next]_vars
=============================================================================
