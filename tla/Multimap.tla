------------------------------- MODULE Multimap -------------------------------
(* What the hash table of hashmap.c promises: for every key a bag of values. *)
(* A map in which nobody appends has at most one value per key.              *)
EXTENDS Naturals

CONSTANTS Keys, Values
VARIABLES
    entries,    \* how many entries of a key with a value there are
    result      \* what the last call returned

Has(k) == \E v \in Values : entries[<<k, v>>] > 0
Plus(k, v) == [entries EXCEPT ![<<k, v>>] = @ + 1]
Minus(e, k, v) == [e EXCEPT ![<<k, v>>] = @ - 1]

Init == entries = [kv \in Keys \X Values |-> 0] /\ result = "none"

Append(k, v) == entries' = Plus(k, v) /\ result' = "ok"
Add(k, v) ==
    IF Has(k) THEN result' = "EEXIST" /\ UNCHANGED entries ELSE Append(k, v)
(* An existing entry of the key gets the value.                              *)
Replace(k, v) == \E old \in Values :
    /\ entries[<<k, old>>] > 0
    /\ entries' = Minus(Plus(k, v), k, old)
    /\ result' = "ok"
Set(k, v) == IF Has(k) THEN Replace(k, v) ELSE Append(k, v)
Update(k, v) ==
    IF Has(k) THEN Replace(k, v) ELSE result' = "ENOENT" /\ UNCHANGED entries
Delete(k) ==
    IF ~Has(k) THEN result' = "ENOENT" /\ UNCHANGED entries
    ELSE \E v \in Values :
        /\ entries[<<k, v>>] > 0
        /\ entries' = Minus(entries, k, v)
        /\ result' = "ok"
Clear == entries' = [kv \in Keys \X Values |-> 0] /\ result' = "ok"
NoMemory == result' = "ENOMEM" /\ UNCHANGED entries

Next ==
    \/ \E k \in Keys : Delete(k)
    \/ \E k \in Keys, v \in Values : Append(k, v) \/ Add(k, v) \/ Set(k, v) \/ Update(k, v)
    \/ Clear \/ NoMemory
Spec == Init /\ [][Next]_<<entries, result>>
=============================================================================
