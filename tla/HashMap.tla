------------------------------- MODULE HashMap -------------------------------
(* hashmap.c: the hash table of libbpf (type deduplication, names in dumps), *)
(* with chains of entries and a number of buckets that doubles.  With        *)
(* HASHMAP_APPEND it holds several entries of one key.                       *)
EXTENDS Naturals, Sequences, FiniteSets, SequencesExt, Folds

CONSTANTS
    Keys, Values,
    Hash,           \* key -> the shuffled hash, a number of MaxBits bits
    MaxBits,
    MaxEntries      \* bound: entries in the map

VARIABLES
    buckets,        \* bucket -> chain of entries, <<>> when there is no array
    cap_bits, sz,
    result,         \* what the last call returned
    rehashed        \* the map has grown since it was last empty (history)

hmvars == <<buckets, cap_bits, sz, result, rehashed>>

Entry == [key : Keys, value : Values]
cap == IF cap_bits = 0 THEN 0 ELSE 2 ^ cap_bits
MinBits == 2            \* HASHMAP_MIN_CAP_BITS

(* hash_bits: the upper bits of the hash.                                    *)
hash_bits(h, bits) == h \div (2 ^ (MaxBits - bits))
BucketOf(key) == hash_bits(Hash[key], cap_bits)
Chain(key) == IF cap_bits = 0 THEN <<>> ELSE buckets[BucketOf(key)]

TypeOK ==
    /\ cap_bits \in {0} \cup MinBits..MaxBits
    /\ DOMAIN buckets = 0..(cap - 1)
    /\ \A b \in DOMAIN buckets : buckets[b] \in Seq(Entry)
    /\ sz \in 0..MaxEntries
    /\ rehashed \in BOOLEAN

Init ==
    /\ buckets = [b \in {} |-> <<>>]
    /\ cap_bits = 0
    /\ sz = 0
    /\ result = "none"
    /\ rehashed = FALSE

-----------------------------------------------------------------------------
(* hashmap_find_entry: the first entry of the chain with the key, 0 if none. *)
FoundHead(key) == IF Chain(key) = <<>> THEN 0 ELSE 1
Found(key) ==
    IF \E i \in DOMAIN Chain(key) : Chain(key)[i].key = key
    THEN CHOOSE i \in DOMAIN Chain(key) :
            Chain(key)[i].key = key /\ \A j \in 1..(i - 1) : Chain(key)[j].key # key
    ELSE 0

NeedsToGrow == cap = 0 \/ ((sz + 1) * 4) \div 3 > cap

(* hashmap_grow: the old chains are walked from the first bucket to the last, *)
(* and each entry is put at the head of its new chain.                       *)
RehashedWithOldBits(bits) ==
    LET all == FlattenSeq([b \in 1..cap |-> buckets[b - 1]])
        at(b) == SelectSeq(all, LAMBDA e : hash_bits(Hash[e.key], cap_bits) = b)
    IN  [b \in 0..(2 ^ bits - 1) |-> Reverse(at(b))]
Rehashed(bits) ==
    LET all == FlattenSeq([b \in 1..cap |-> buckets[b - 1]])
        at(b) == SelectSeq(all, LAMBDA e : hash_bits(Hash[e.key], bits) = b)
    IN  [b \in 0..(2 ^ bits - 1) |-> Reverse(at(b))]
GrownByOne == cap_bits + 1
GrownBits == IF cap_bits + 1 < MinBits THEN MinBits ELSE cap_bits + 1

(* The new entry becomes the head of its chain; either allocation may fail,  *)
(* the second one after the map has grown.                                   *)
AddEntry(key, value) ==
    LET bits == IF NeedsToGrow THEN GrownBits ELSE cap_bits
        grown == IF NeedsToGrow THEN Rehashed(bits) ELSE buckets
        h == hash_bits(Hash[key], bits)
    IN  \/ result' = "ENOMEM" /\ UNCHANGED <<buckets, cap_bits, sz, rehashed>>
        \/ /\ cap_bits' = bits
           /\ rehashed' = (rehashed \/ (NeedsToGrow /\ sz > 0))
           /\ \/ /\ buckets' = [grown EXCEPT ![h] = <<[key |-> key, value |-> value]>> \o @]
                 /\ sz' = sz + 1
                 /\ result' = "ok"
              \/ buckets' = grown /\ result' = "ENOMEM" /\ UNCHANGED sz

Replace(key, value) ==
    /\ buckets' = [buckets EXCEPT ![BucketOf(key)][Found(key)] = [key |-> key, value |-> value]]
    /\ result' = "ok"
    /\ UNCHANGED <<cap_bits, sz, rehashed>>
Refuse(error) == result' = error /\ UNCHANGED <<buckets, cap_bits, sz, rehashed>>

(* hashmap__insert, for each strategy.                                       *)
Insert(strategy, key, value) ==
    LET found == strategy # "APPEND" /\ Found(key) # 0
    IN  CASE found /\ strategy \in {"SET", "UPDATE"} -> Replace(key, value)
          [] found /\ strategy = "ADD" -> Refuse("EEXIST")
          [] ~found /\ strategy = "UPDATE" -> Refuse("ENOENT")
          [] ~found /\ strategy # "UPDATE" -> sz < MaxEntries /\ AddEntry(key, value)

Delete(key) ==
    IF Found(key) = 0 THEN Refuse("ENOENT")
    ELSE /\ buckets' = [buckets EXCEPT ![BucketOf(key)] = RemoveAt(@, Found(key))]
         /\ sz' = sz - 1
         /\ result' = "ok"
         /\ UNCHANGED <<cap_bits, rehashed>>

Clear ==
    /\ buckets' = [b \in {} |-> <<>>]
    /\ cap_bits' = 0
    /\ sz' = 0
    /\ result' = "ok"
    /\ rehashed' = FALSE

Next ==
    \/ \E k \in Keys : Delete(k)
    \/ \E s \in {"ADD", "SET", "UPDATE", "APPEND"}, k \in Keys, v \in Values : Insert(s, k, v)
    \/ Clear
Spec == Init /\ [][Next]_hmvars

-----------------------------------------------------------------------------

(* The table is a multimap whatever it does with its buckets: see Multimap.  *)
EntriesOf(k, v) == Len(SelectSeq(Chain(k), LAMBDA e : e.key = k /\ e.value = v))
Map == INSTANCE Multimap WITH entries <- [kv \in Keys \X Values |-> EntriesOf(kv[1], kv[2])]
ImplementsMultimap == Map!Spec
=============================================================================
