----------------------------- MODULE DiskQueue -----------------------------
(* What store/store.go promises: requests are kept in the order in which     *)
(* they were stored, and each is handed out once.  FileStore implements it   *)
(* as long as what is unread fits in one buffered read.                      *)
EXTENDS Naturals, Sequences

CONSTANT Rows        \* most rows of one call

VARIABLES unread,    \* what was stored and not handed out
          out,       \* what the last Load handed out
          next       \* the next record to store

vars == <<unread, out, next>>

Init == unread = <<>> /\ out = <<>> /\ next = 1

Store ==
    \E n \in 1 .. Rows :
        /\ unread' = unread \o [i \in 1 .. n |-> next + i - 1]
        /\ next' = next + n
        /\ UNCHANGED out

(* A Load may be short only when there is nothing more. *)
Load ==
    \E rows \in 1 .. Rows :
        LET n == IF rows < Len(unread) THEN rows ELSE Len(unread)
        IN  /\ out' = SubSeq(unread, 1, n)
            /\ unread' = SubSeq(unread, n + 1, Len(unread))
            /\ UNCHANGED next

Next == Store \/ Load

Spec == Init /\ [][Next]_vars
=============================================================================
