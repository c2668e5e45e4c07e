------------------------------- MODULE Outbox -------------------------------
(* What report/report_job.go promises to the tasks: a request it accepted is *)
(* kept until creport received it.  The order of delivery is left open.      *)
CONSTANT Request

VARIABLES pending,   \* accepted and not yet received by creport
          received   \* received by creport at least once

vars == <<pending, received>>

Init == pending = {} /\ received = {}

Accept(r) ==
    /\ r \notin pending \cup received
    /\ pending' = pending \cup {r}
    /\ UNCHANGED received

Deliver(r) ==
    /\ r \in pending
    /\ pending' = pending \ {r}
    /\ received' = received \cup {r}

Next == \E r \in Request : Accept(r) \/ Deliver(r)

Spec == Init /\ [][Next]_vars
=============================================================================
