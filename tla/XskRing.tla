------------------------------- MODULE XskRing -------------------------------
(* The rings of xsk.h, shared with the kernel: a producer ring (fill or TX)  *)
(* and a consumer ring (completion or RX).  The application reserves slots,  *)
(* writes descriptors and submits them; it peeks at slots, reads them and    *)
(* releases them.  The kernel takes each descriptor from the first ring and  *)
(* returns it through the second.  All positions are counters of a fixed     *)
(* width that wrap, and each side keeps a copy of the other's counter that   *)
(* it refreshes only when it must.                                           *)
EXTENDS Integers, Sequences, TLAPS

CONSTANTS
    size,           \* slots of a ring, a power of two
    Width,          \* the counters are modulo Width (2^32), a multiple of size
    Batch,          \* bound: the nb of one call
    MaxFrames       \* bound: descriptors in a behaviour

VARIABLES
    producer, consumer,         \* producer ring -> its shared counters
    cached_prod, cached_cons,   \* ring -> the application's copies
    slot,           \* ring -> slot -> descriptor in it
    filled,         \* descriptors written to reserved slots and not yet submitted
    sent,           \* descriptors so far: they are 1, 2, ...
    inKernel,       \* descriptors the kernel has taken and not yet returned
    peeked,         \* slots of the consumer ring that the application has still to read
    received        \* descriptors it has read

xrvars == <<producer, consumer, cached_prod, cached_cons, slot, filled, sent, inKernel,
            peeked, received>>

Rings == {"prod", "cons"}
Counter == 0..(Width - 1)
Plus(a, b) == (a + b) % Width
Minus(a, b) == (a + Width - b) % Width
SlotOf(idx) == idx % size               \* idx & mask

TypeOK ==
    /\ producer \in [Rings -> Counter] /\ consumer \in [Rings -> Counter]
    /\ cached_prod \in [Rings -> Counter] /\ cached_cons \in [Rings -> Counter]
    /\ slot \in [Rings -> [0..(size - 1) -> 0..MaxFrames]]
    /\ filled \in 0..size /\ sent \in 0..MaxFrames
    /\ peeked \in 0..size

(* xsk_umem__create and xsk_socket__create set the copies; the one of the    *)
(* producer ring's consumer is ahead by size.                                *)
Init ==
    /\ producer = [r \in Rings |-> 0]
    /\ consumer = [r \in Rings |-> 0]
    /\ cached_prod = [r \in Rings |-> 0]
    /\ cached_cons = [r \in Rings |-> IF r = "prod" THEN size ELSE 0]
    /\ slot = [r \in Rings |-> [i \in 0..(size - 1) |-> 0]]
    /\ filled = 0
    /\ sent = 0
    /\ inKernel = <<>>
    /\ peeked = 0
    /\ received = <<>>

-----------------------------------------------------------------------------
(* xsk_prod_nb_free: the copy of the consumer counter is good enough while   *)
(* it leaves room for nb, and is refreshed otherwise.                        *)
Free == Minus(cached_cons["prod"], cached_prod["prod"])
RefreshedFully == Plus(Plus(consumer["prod"], size), size)
Refreshed == Plus(consumer["prod"], size)
xsk_ring_prod__reserve(nb) ==
    LET cons == IF Free >= nb THEN cached_cons["prod"] ELSE Refreshed
    IN  /\ cached_cons' = [cached_cons EXCEPT !["prod"] = cons]
        /\ cached_prod' = IF Minus(cons, cached_prod["prod"]) < nb THEN cached_prod
                          ELSE [cached_prod EXCEPT !["prod"] = Plus(@, nb)]
        /\ UNCHANGED <<producer, consumer, slot, filled, sent, inKernel, peeked, received>>

(* The application writes the next reserved slot.                            *)
Reserved == Minus(cached_prod["prod"], producer["prod"])
WriteDesc ==
    /\ filled < Reserved
    /\ sent < MaxFrames
    /\ sent' = sent + 1
    /\ slot' = [slot EXCEPT !["prod"][SlotOf(producer["prod"] + filled)] = sent']
    /\ filled' = filled + 1
    /\ UNCHANGED <<producer, consumer, cached_prod, cached_cons, inKernel, peeked, received>>

xsk_ring_prod__submit(nb) ==
    /\ nb <= filled
    /\ producer' = [producer EXCEPT !["prod"] = Plus(@, nb)]
    /\ filled' = filled - nb
    /\ UNCHANGED <<consumer, cached_prod, cached_cons, slot, sent, inKernel, peeked, received>>

(* The kernel's side of both rings.                                          *)
KernelTake ==
    /\ consumer["prod"] # producer["prod"]
    /\ inKernel' = Append(inKernel, slot["prod"][SlotOf(consumer["prod"])])
    /\ consumer' = [consumer EXCEPT !["prod"] = Plus(@, 1)]
    /\ UNCHANGED <<producer, cached_prod, cached_cons, slot, filled, sent, peeked, received>>
KernelReturn ==
    /\ inKernel # <<>>
    /\ Minus(producer["cons"], consumer["cons"]) < size
    /\ slot' = [slot EXCEPT !["cons"][SlotOf(producer["cons"])] = Head(inKernel)]
    /\ producer' = [producer EXCEPT !["cons"] = Plus(@, 1)]
    /\ inKernel' = Tail(inKernel)
    /\ UNCHANGED <<consumer, cached_prod, cached_cons, filled, sent, peeked, received>>

(* xsk_cons_nb_avail and xsk_ring_cons__peek: the copy of the producer       *)
(* counter is refreshed only when nothing is left of it.                     *)
AvailableStale(prod) == size
Available(prod) == Minus(prod, cached_cons["cons"])
xsk_ring_cons__peek(nb) ==
    LET prod == IF cached_prod["cons"] = cached_cons["cons"] THEN producer["cons"]
                ELSE cached_prod["cons"]
        entries == IF Available(prod) > nb THEN nb ELSE Available(prod)
    IN  /\ peeked = 0
        /\ cached_prod' = [cached_prod EXCEPT !["cons"] = prod]
        /\ cached_cons' = [cached_cons EXCEPT !["cons"] = Plus(@, entries)]
        /\ peeked' = entries
        /\ UNCHANGED <<producer, consumer, slot, filled, sent, inKernel, received>>

ReadDesc ==
    /\ peeked > 0
    /\ received' = Append(received,
           slot["cons"][SlotOf(Minus(cached_cons["cons"], peeked))])
    /\ peeked' = peeked - 1
    /\ UNCHANGED <<producer, consumer, cached_prod, cached_cons, slot, filled, sent, inKernel>>

xsk_ring_cons__release(nb) ==
    /\ nb <= Minus(Minus(cached_cons["cons"], consumer["cons"]), peeked)
    /\ consumer' = [consumer EXCEPT !["cons"] = Plus(@, nb)]
    /\ UNCHANGED <<producer, cached_prod, cached_cons, slot, filled, sent, inKernel, peeked,
                   received>>

Next ==
    \/ \E nb \in 1..Batch :
        \/ xsk_ring_prod__reserve(nb) \/ xsk_ring_prod__submit(nb)
        \/ xsk_ring_cons__peek(nb) \/ xsk_ring_cons__release(nb)
    \/ WriteDesc \/ KernelTake \/ KernelReturn \/ ReadDesc
Spec == Init /\ [][Next]_xrvars

-----------------------------------------------------------------------------
(* What comes back is what was submitted, in that order and each once: no    *)
(* slot is written while the other side has still to read it, and none is    *)
(* read before it is written, wherever the counters wrap and however old the *)
(* copies are.                                                               *)
ReturnedInOrder ==
    /\ received = [i \in 1..Len(received) |-> i]
    /\ \A i \in 1..Len(inKernel) : inKernel[i] \in (Len(received) + 1)..sent
(* The application never reserves more slots than the ring has.              *)
NeverOverfull == Minus(cached_prod["prod"], consumer["prod"]) <= size
-----------------------------------------------------------------------------
(* The proof that both rings keep what is in them, for every size and every  *)
(* batch.  The counters of xsk.h have 32 bits and a size is a power of two,  *)
(* at most 2^31: the counters go round the ring a whole number of times, and *)
(* twice at least, before they wrap.                                         *)
RingAssumption ==
    /\ size \in Nat \ {0} /\ Batch \in Nat /\ MaxFrames \in Nat
    /\ Width \in Nat /\ 2 * size <= Width /\ Width % size = 0

(* What is left of a division is determined by it.                           *)
LEMMA ModUnique ==
    ASSUME NEW s \in Nat \ {0}, NEW q \in Nat, NEW r \in 0..(s - 1)
    PROVE  (s * q + r) % s = r
<1> DEFINE x == s * q + r
           p == x \div s
           d == q - p
<1>1. \A n \in Int : n >= 1 => s * n >= s
    BY SMT
<1>2. x \in Nat
    BY SMT
<1>3. p \in Int /\ x % s \in 0..(s - 1) /\ x = s * p + (x % s)
    BY <1>2, SMT
<1>4. d \in Int /\ s * d = (x % s) - r /\ s * (-d) = r - (x % s)
    BY <1>3, SMT
<1> HIDE DEF d, x, p
<1>5. ~(d >= 1) /\ ~(-d >= 1)
    BY <1>1, <1>3, <1>4, SMT
<1>6. d = 0
    BY <1>4, <1>5
<1>7. QED
    BY <1>3, <1>4, <1>6 DEF x

(* A number is a multiple and a rest, which further multiples do not change. *)
LEMMA ModParts ==
    ASSUME NEW s \in Nat \ {0}, NEW x \in Nat
    PROVE  /\ x % s \in 0..(s - 1)
           /\ \E q \in Nat : x = s * q + (x % s)
           /\ \A l \in Nat : (x + l * s) % s = x % s
<1> DEFINE q == x \div s
           r == x % s
<1>1. q \in Nat /\ r \in 0..(s - 1) /\ x = s * q + r
    BY SMT
<1> HIDE DEF q, r
<1>2. ASSUME NEW l \in Nat PROVE (x + l * s) % s = r
    <2>1. q + l \in Nat /\ x + l * s = s * (q + l) + r
        BY <1>1, SMT
    <2>2. QED
        BY <1>1, <2>1, ModUnique
<1>3. QED
    BY <1>1, <1>2 DEF r

(* A ring is smaller than the counters.                                      *)
LEMMA WidthBound == RingAssumption => Width \in Nat /\ 2 * size <= Width /\ size < Width
BY DEF RingAssumption

(* The counters wrap after a whole number of laps of the ring.               *)
LEMMA Laps == RingAssumption => \E laps \in Nat : Width = laps * size
<1> SUFFICES ASSUME RingAssumption PROVE \E laps \in Nat : Width = laps * size
    OBVIOUS
<1>1. size \in Nat \ {0} /\ Width \in Nat /\ Width % size = 0
    BY DEF RingAssumption
<1>2. PICK laps \in Nat : Width = size * laps + (Width % size)
    BY <1>1, ModParts
<1>3. size * laps = laps * size /\ size * laps + 0 = size * laps
    BY <1>1, SMT
<1>4. QED
    BY <1>1, <1>2, <1>3

(* The counters wrap at most once in an addition or a subtraction.           *)
LEMMA PlusValue ==
    ASSUME RingAssumption, NEW a \in Counter, NEW k \in 0..Width
    PROVE  /\ Plus(a, k) = IF a + k < Width THEN a + k ELSE a + k - Width
           /\ Plus(a, k) \in Counter
<1>1. Width \in Nat \ {0} /\ a \in 0..(Width - 1)
    BY WidthBound DEF RingAssumption, Counter
<1>2. CASE a + k < Width
    <2>1. a + k \in 0..(Width - 1) /\ a + k = Width * 0 + (a + k)
        BY <1>1, <1>2
    <2>2. (a + k) % Width = a + k
        BY <1>1, <2>1, ModUnique
    <2>3. QED
        BY <1>2, <2>1, <2>2 DEF Plus, Counter
<1>3. CASE ~(a + k < Width)
    <2>1. a + k - Width \in 0..(Width - 1) /\ a + k = Width * 1 + (a + k - Width)
        BY <1>1, <1>3
    <2>2. (a + k) % Width = a + k - Width
        BY <1>1, <2>1, ModUnique
    <2>3. QED
        BY <1>3, <2>1, <2>2 DEF Plus, Counter
<1>4. QED
    BY <1>2, <1>3

(* (b is behind a, perhaps before the wrap)                                  *)
LEMMA MinusValue ==
    ASSUME RingAssumption, NEW a \in Counter, NEW b \in Counter
    PROVE  /\ Minus(a, b) = IF b <= a THEN a - b ELSE a + Width - b
           /\ Minus(a, b) \in Counter
<1>1. Width \in Nat \ {0} /\ a \in 0..(Width - 1) /\ b \in 0..(Width - 1)
    BY WidthBound DEF RingAssumption, Counter
<1>2. CASE b <= a
    <2>1. a - b \in 0..(Width - 1) /\ a + Width - b = Width * 1 + (a - b)
        BY <1>1, <1>2
    <2>2. (a + Width - b) % Width = a - b
        BY <1>1, <2>1, ModUnique
    <2>3. QED
        BY <1>2, <2>1, <2>2 DEF Minus, Counter
<1>3. CASE ~(b <= a)
    <2>1. a + Width - b \in 0..(Width - 1) /\ a + Width - b = Width * 0 + (a + Width - b)
        BY <1>1, <1>3
    <2>2. (a + Width - b) % Width = a + Width - b
        BY <1>1, <2>1, ModUnique
    <2>3. QED
        BY <1>3, <2>1, <2>2 DEF Minus, Counter
<1>4. QED
    BY <1>2, <1>3

(* The slot of a counter is that of the number it would be without wrapping, *)
(* since a lap of the counters is a number of laps of the ring.              *)
LEMMA SlotWraps ==
    ASSUME RingAssumption, NEW a \in Counter, NEW k \in 0..Width
    PROVE  SlotOf(Plus(a, k)) = SlotOf(a + k) /\ SlotOf(a + k) \in 0..(size - 1)
<1>1. /\ Width \in Nat /\ a \in 0..(Width - 1) /\ a + k \in Nat
      /\ size \in Nat \ {0}
    BY WidthBound DEF RingAssumption, Counter
<1>2. SlotOf(a + k) \in 0..(size - 1)
    BY <1>1, ModParts DEF SlotOf
<1>3. CASE a + k < Width
    BY <1>2, <1>3, PlusValue
<1>4. CASE ~(a + k < Width)
    <2>1. Plus(a, k) = a + k - Width /\ a + k - Width \in Nat
        BY <1>1, <1>4, PlusValue
    <2>2. PICK laps \in Nat : Width = laps * size
        BY Laps
    <2> DEFINE x == a + k - Width
    <2>3. x \in Nat /\ a + k = x + laps * size
        BY <1>1, <2>1, <2>2
    <2> HIDE DEF x
    <2>4. (x + laps * size) % size = x % size
        BY <1>1, <2>3, ModParts
    <2>5. (a + k) % size = x % size
        BY <2>3, <2>4
    <2>6. QED
        BY <1>2, <2>1, <2>5 DEF SlotOf, x
<1>5. QED
    BY <1>3, <1>4

(* A counter names a slot that the ring has.                                 *)
LEMMA SlotType ==
    ASSUME RingAssumption, NEW a \in Counter
    PROVE  SlotOf(a) \in 0..(size - 1)
<1>1. a \in Nat /\ size \in Nat \ {0}
    BY WidthBound DEF RingAssumption, Counter
<1>2. a % size \in 0..(size - 1)
    BY <1>1, ModParts
<1>3. QED
    BY <1>2 DEF SlotOf

(* Positions less than a lap of the ring apart are different slots.          *)
LEMMA SlotsDiffer ==
    ASSUME RingAssumption, NEW a \in Counter, NEW j \in Nat, NEW k \in Nat,
           j < k, k - j < size, k <= Width
    PROVE  SlotOf(Plus(a, j)) # SlotOf(Plus(a, k))
<1>1. size \in Nat \ {0} /\ a \in Nat /\ j \in 0..Width /\ k \in 0..Width /\ Width \in Nat
    BY WidthBound DEF RingAssumption, Counter
<1> SUFFICES ASSUME SlotOf(a + j) = SlotOf(a + k) PROVE FALSE
    BY <1>1, SlotWraps
<1> DEFINE x == a + j
           y == a + k
           r == x % size
<1>2. x \in Nat /\ y \in Nat /\ y % size = r
    BY <1>1 DEF SlotOf
<1> HIDE DEF x, y, r
<1>a. \E p \in Nat : x = size * p + r
    BY <1>1, <1>2, ModParts DEF r
<1>b. \E q \in Nat : y = size * q + (y % size)
    BY <1>1, <1>2, ModParts
<1>3. PICK p \in Nat, q \in Nat : x = size * p + r /\ y = size * q + r
    BY <1>2, <1>a, <1>b
<1>4. r \in 0..(size - 1) /\ y - x = k - j
    BY <1>1, <1>2, ModParts DEF r, x, y
<1>5. k - j = size * (q - p)
    BY <1>1, <1>3, <1>4, SMT
<1> DEFINE d == q - p
<1>6. d \in Int /\ size * d = k - j
    BY <1>5
<1> HIDE DEF d
<1>7. \A n \in Int : n >= 1 => size * n >= size
    BY <1>1, SMT
<1>8. \A n \in Int : n <= 0 => size * n <= 0
    BY <1>1, SMT
<1>9. QED
    BY <1>1, <1>6, <1>7, <1>8, SMT
-----------------------------------------------------------------------------
(* How distances add up, as long as they are less than the whole way round.  *)
LEMMA PlusPlus ==
    ASSUME RingAssumption, NEW a \in Counter, NEW j \in Nat, NEW k \in Nat, j + k <= Width
    PROVE  Plus(Plus(a, j), k) = Plus(a, j + k)
<1>1. Width \in Nat /\ j \in 0..Width /\ k \in 0..Width /\ j + k \in 0..Width /\ a \in 0..(Width - 1)
    BY WidthBound DEF Counter
<1>2. Plus(a, j) \in Counter /\ Plus(a, j) = IF a + j < Width THEN a + j ELSE a + j - Width
    BY <1>1, PlusValue
<1> DEFINE b == Plus(a, j)
<1>3. Plus(b, k) = IF b + k < Width THEN b + k ELSE b + k - Width
    BY <1>1, <1>2, PlusValue
<1>4. Plus(a, j + k) = IF a + (j + k) < Width THEN a + (j + k) ELSE a + (j + k) - Width
    BY <1>1, PlusValue
<1> HIDE DEF b
<1>5. b = IF a + j < Width THEN a + j ELSE a + j - Width
    BY <1>2 DEF b
<1>6. Plus(b, k) = Plus(a, j + k)
    BY <1>1, <1>3, <1>4, <1>5
<1>7. QED
    BY <1>6 DEF b

(* A distance grows and shrinks with either end.                             *)
LEMMA MinusPlus ==
    ASSUME RingAssumption, NEW a \in Counter, NEW b \in Counter, NEW k \in Nat
    PROVE  /\ Minus(a, b) \in Nat
           /\ Plus(b, Minus(a, b)) = a
           /\ Minus(a, b) + k < Width => Minus(Plus(a, k), b) = Minus(a, b) + k
           /\ k <= Minus(a, b) => Minus(a, Plus(b, k)) = Minus(a, b) - k
<1>1. Width \in Nat /\ a \in 0..(Width - 1) /\ b \in 0..(Width - 1)
    BY WidthBound DEF Counter
<1> DEFINE m == Minus(a, b)
<1>2. m \in Counter /\ m = IF b <= a THEN a - b ELSE a + Width - b
    BY MinusValue
<1> HIDE DEF m
<1>3. m \in 0..Width /\ m \in Nat
    BY <1>1, <1>2 DEF Counter
<1>4. Plus(b, m) = IF b + m < Width THEN b + m ELSE b + m - Width
    BY <1>3, PlusValue
<1>5. Plus(b, m) = a
    BY <1>1, <1>2, <1>4
<1>6. ASSUME m + k < Width PROVE Minus(Plus(a, k), b) = m + k
    <2> DEFINE c == Plus(a, k)
    <2>1. k \in 0..Width
        BY <1>1, <1>3, <1>6
    <2>2. c \in Counter /\ c = IF a + k < Width THEN a + k ELSE a + k - Width
        BY <2>1, PlusValue
    <2> HIDE DEF c
    <2>3. Minus(c, b) = IF b <= c THEN c - b ELSE c + Width - b
        BY <2>2, MinusValue
    <2>4. Minus(c, b) = m + k
        BY <1>1, <1>2, <1>6, <2>2, <2>3
    <2>5. QED
        BY <2>4 DEF c
<1>7. ASSUME k <= m PROVE Minus(a, Plus(b, k)) = m - k
    <2> DEFINE c == Plus(b, k)
    <2>1. k \in 0..Width
        BY <1>1, <1>3, <1>7
    <2>2. c \in Counter /\ c = IF b + k < Width THEN b + k ELSE b + k - Width
        BY <2>1, PlusValue
    <2> HIDE DEF c
    <2>3. Minus(a, c) = IF c <= a THEN a - c ELSE a + Width - c
        BY <2>2, MinusValue
    <2>4. Minus(a, c) = m - k
        BY <1>1, <1>2, <1>7, <2>2, <2>3
    <2>5. QED
        BY <2>4 DEF c
<1>8. QED
    BY <1>3, <1>5, <1>6, <1>7 DEF m

(* Two distances in a row add up to one.                                     *)
LEMMA MinusMinus ==
    ASSUME RingAssumption, NEW a \in Counter, NEW b \in Counter, NEW c \in Counter
    PROVE  /\ Minus(a, b) + Minus(b, c) < Width => Minus(a, c) = Minus(a, b) + Minus(b, c)
           /\ Minus(a, b) = 0 => a = b
           /\ Minus(a, a) = 0
<1>1. Width \in Nat /\ a \in 0..(Width - 1) /\ b \in 0..(Width - 1) /\ c \in 0..(Width - 1)
    BY WidthBound DEF Counter
<1>2. /\ Minus(a, b) = IF b <= a THEN a - b ELSE a + Width - b
      /\ Minus(b, c) = IF c <= b THEN b - c ELSE b + Width - c
      /\ Minus(a, c) = IF c <= a THEN a - c ELSE a + Width - c
      /\ Minus(a, a) = IF a <= a THEN a - a ELSE a + Width - a
    BY MinusValue
<1>3. QED
    BY <1>1, <1>2

(* The position that is k behind a counter.                                  *)
LEMMA Behind ==
    ASSUME RingAssumption, NEW a \in Counter, NEW k \in Nat, k < Width
    PROVE  /\ Minus(a, k) \in Counter
           /\ Plus(Minus(a, k), k) = a
           /\ Minus(a, 0) = a
           /\ Minus(Plus(a, k), k) = a
           /\ k > 0 => Plus(Minus(a, k), 1) = Minus(a, k - 1)
<1>1. Width \in Nat /\ a \in 0..(Width - 1) /\ k \in Counter /\ k \in 0..Width /\ 0 \in Counter
    BY WidthBound DEF Counter
<1> DEFINE m == Minus(a, k)
           p == Plus(a, k)
<1>2. m \in Counter /\ m = IF k <= a THEN a - k ELSE a + Width - k
    BY <1>1, MinusValue
<1>3. p \in Counter /\ p = IF a + k < Width THEN a + k ELSE a + k - Width
    BY <1>1, PlusValue
<1>4. Minus(a, 0) = IF 0 <= a THEN a - 0 ELSE a + Width - 0
    BY <1>1, MinusValue
<1> HIDE DEF m, p
<1>5. Plus(m, k) = IF m + k < Width THEN m + k ELSE m + k - Width
    BY <1>1, <1>2, PlusValue
<1>6. Minus(p, k) = IF k <= p THEN p - k ELSE p + Width - k
    BY <1>1, <1>3, MinusValue
<1>7. Plus(m, k) = a /\ Minus(p, k) = a /\ Minus(a, 0) = a
    BY <1>1, <1>2, <1>3, <1>4, <1>5, <1>6
<1>8. ASSUME k > 0 PROVE Plus(m, 1) = Minus(a, k - 1)
    <2>1. k - 1 \in Counter /\ 1 \in 0..Width
        BY <1>1, <1>8 DEF Counter
    <2>2. Minus(a, k - 1) = IF k - 1 <= a THEN a - (k - 1) ELSE a + Width - (k - 1)
        BY <2>1, MinusValue
    <2>3. Plus(m, 1) = IF m + 1 < Width THEN m + 1 ELSE m + 1 - Width
        BY <1>2, <2>1, PlusValue
    <2>4. QED
        BY <1>1, <1>2, <1>8, <2>2, <2>3
<1>9. QED
    BY <1>2, <1>7, <1>8 DEF m, p
-----------------------------------------------------------------------------
(* The count slots of a ring from a position on hold the descriptors that    *)
(* follow the n-th.                                                          *)
Holds(content, at, count, n) ==
    \A k \in 0..(count - 1) : content[SlotOf(Plus(at, k))] = n + 1 + k

(* Whoever takes the first one leaves the others.                            *)
LEMMA TakeFirst ==
    ASSUME RingAssumption, NEW content, NEW at \in Counter, NEW count \in 1..size, NEW n \in Nat,
           Holds(content, at, count, n)
    PROVE  /\ content[SlotOf(at)] = n + 1
           /\ Holds(content, Plus(at, 1), count - 1, n + 1)
<1>1. size \in Nat /\ Width \in Nat /\ size < Width /\ at \in Nat
    BY WidthBound DEF RingAssumption, Counter
<1>2. Plus(at, 0) = at
    BY <1>1, PlusValue DEF Counter
<1>3. content[SlotOf(at)] = n + 1
    <2>1. 0 \in 0..(count - 1) /\ n + 1 + 0 = n + 1
        BY <1>1
    <2>2. content[SlotOf(Plus(at, 0))] = n + 1 + 0
        BY <2>1 DEF Holds
    <2>3. QED
        BY <1>2, <2>1, <2>2
<1>4. ASSUME NEW k \in 0..(count - 2)
      PROVE  content[SlotOf(Plus(Plus(at, 1), k))] = (n + 1) + 1 + k
    <2>1. /\ 1 + k \in 0..(count - 1) /\ 1 + k <= Width /\ k \in Nat
          /\ n + 1 + (1 + k) = (n + 1) + 1 + k
        BY <1>1
    <2>2. Plus(Plus(at, 1), k) = Plus(at, 1 + k)
        BY <2>1, PlusPlus
    <2>3. content[SlotOf(Plus(at, 1 + k))] = n + 1 + (1 + k)
        BY <2>1 DEF Holds
    <2>4. QED
        BY <2>1, <2>2, <2>3
<1>5. (count - 1) - 1 = count - 2
    BY <1>1
<1>6. QED
    BY <1>3, <1>4, <1>5 DEF Holds

(* A descriptor written behind the last one destroys none of them, as long   *)
(* as there is a free slot.                                                  *)
LEMMA AddLast ==
    ASSUME RingAssumption, NEW D, NEW content \in [0..(size - 1) -> D], NEW at \in Counter,
           NEW count \in 0..(size - 1), NEW n \in Nat, NEW new, new = n + 1 + count,
           Holds(content, at, count, n),
           NEW after, after = [content EXCEPT ![SlotOf(Plus(at, count))] = new],
           NEW more, more = count + 1
    PROVE  Holds(after, at, more, n)
<1>1. size \in Nat \ {0} /\ Width \in Nat /\ size < Width
    BY WidthBound DEF RingAssumption
<1> DEFINE last == SlotOf(Plus(at, count))
<1> SUFFICES ASSUME NEW k \in 0..((count + 1) - 1) PROVE after[SlotOf(Plus(at, k))] = n + 1 + k
    BY DEF Holds
<1>2. k \in 0..Width /\ count \in 0..Width
    BY <1>1
<1>3. SlotOf(Plus(at, k)) \in 0..(size - 1)
    BY <1>2, SlotWraps
<1>4. CASE k = count
    BY <1>3, <1>4
<1>5. CASE k # count
    <2>1. /\ k \in 0..(count - 1) /\ k \in Nat /\ count \in Nat /\ k < count
          /\ count - k < size /\ count <= Width
        BY <1>1, <1>5
    <2>2. SlotOf(Plus(at, k)) # last
        BY <2>1, SlotsDiffer
    <2>3. content[SlotOf(Plus(at, k))] = n + 1 + k
        BY <2>1 DEF Holds
    <2>4. QED
        BY <1>3, <2>2, <2>3
<1>6. QED
    BY <1>4, <1>5
-----------------------------------------------------------------------------
(* Slots of the producer ring that the kernel has still to take; slots of    *)
(* the consumer ring that were not peeked at, and that were but are not yet  *)
(* released; what is in that ring and was not read.                          *)
Submitted == Minus(producer["prod"], consumer["prod"])
Readable == Minus(producer["cons"], cached_cons["cons"])
Taken == Minus(cached_cons["cons"], consumer["cons"])
Unread == peeked + Readable
ReadPosition == Minus(cached_cons["cons"], peeked)

(* Descriptors that are back from the kernel, and that it has taken.         *)
Returned == Len(received) + Unread
Passed == Returned + Len(inKernel)

(* The copies of the counters are old but never promise too much.            *)
ProdCounts == filled <= Reserved /\ Submitted + Reserved + Free <= size
ConsCounts ==
    /\ peeked <= Taken /\ Taken + Readable <= size
    /\ Minus(cached_prod["cons"], cached_cons["cons"]) <= Readable

(* Every descriptor is at one place, and in its order.                       *)
Numbered ==
    /\ inKernel \in Seq(0..MaxFrames) /\ received \in Seq(Nat)
    /\ sent = Passed + Submitted + filled
    /\ \A i \in 1..Len(received) : received[i] = i
    /\ \A i \in 1..Len(inKernel) : inKernel[i] = Returned + i
InSlots ==
    /\ Holds(slot["cons"], ReadPosition, Unread, Len(received))
    /\ Holds(slot["prod"], consumer["prod"], Submitted + filled, Passed)

IInv == TypeOK /\ ProdCounts /\ ConsCounts /\ Numbered /\ InSlots

(* The invariant gives every quantity its type.                              *)
LEMMA Quantities ==
    ASSUME RingAssumption, IInv
    PROVE  /\ \A r \in Rings : /\ producer[r] \in Counter /\ consumer[r] \in Counter
                               /\ cached_prod[r] \in Counter /\ cached_cons[r] \in Counter
           /\ Submitted \in Nat /\ Reserved \in Nat /\ Free \in Nat
           /\ Readable \in Nat /\ Taken \in Nat /\ Unread \in Nat
           /\ filled \in Nat /\ peeked \in Nat /\ sent \in Nat
           /\ Len(received) \in Nat /\ Len(inKernel) \in Nat
           /\ Returned \in Nat /\ Passed \in Nat
           /\ size \in Nat \ {0} /\ Width \in Nat /\ size < Width
<1>1. /\ size \in Nat \ {0} /\ Width \in Nat /\ size < Width
      /\ filled \in Nat /\ peeked \in Nat /\ sent \in Nat
    BY WidthBound DEF RingAssumption, IInv, TypeOK
<1>2. \A r \in Rings : /\ producer[r] \in Counter /\ consumer[r] \in Counter
                       /\ cached_prod[r] \in Counter /\ cached_cons[r] \in Counter
    BY DEF IInv, TypeOK
<1>3. /\ Submitted \in Nat /\ Reserved \in Nat /\ Free \in Nat
      /\ Readable \in Nat /\ Taken \in Nat
    BY <1>2, MinusPlus DEF Submitted, Reserved, Free, Readable, Taken, Rings
<1>4. Len(received) \in Nat /\ Len(inKernel) \in Nat
    BY DEF IInv, Numbered
<1>5. Unread \in Nat
    BY <1>1, <1>3 DEF Unread
<1>6. Returned \in Nat
    BY <1>4, <1>5 DEF Returned
<1>7. Passed \in Nat
    BY <1>4, <1>6 DEF Passed
<1>8. QED
    BY <1>1, <1>2, <1>3, <1>4, <1>5, <1>6, <1>7

(* Both rings are empty at first.                                            *)
LEMMA InitIInv == ASSUME RingAssumption, Init PROVE IInv
<1>1. size \in Nat \ {0} /\ Width \in Nat /\ size < Width /\ 0 \in Counter /\ size \in Counter
    BY WidthBound DEF RingAssumption, Counter
<1>2. TypeOK
    BY <1>1 DEF Init, TypeOK, RingAssumption
<1>3. Minus(0, 0) = 0 /\ Minus(size, 0) = size
    BY <1>1, MinusMinus, Behind
<1>4. /\ Submitted = 0 /\ Reserved = 0 /\ Free = size /\ Readable = 0 /\ Taken = 0
      /\ Minus(cached_prod["cons"], cached_cons["cons"]) = 0
    BY <1>3 DEF Init, Submitted, Reserved, Free, Readable, Taken, Rings
<1>5. ProdCounts /\ ConsCounts
    BY <1>1, <1>4 DEF Init, ProdCounts, ConsCounts
<1>6. Unread = 0 /\ Returned = 0 /\ Passed = 0
    BY <1>4 DEF Init, Unread, Returned, Passed
<1>7. Numbered
    BY <1>4, <1>6 DEF Init, Numbered
<1>8. InSlots
    BY <1>4, <1>6 DEF Init, InSlots, Holds
<1>9. QED
    BY <1>2, <1>5, <1>7, <1>8 DEF IInv
-----------------------------------------------------------------------------
(* The application reserves: with a fresh copy there are as many slots free  *)
(* as the ring has less those in use, and never more with an old one.        *)
LEMMA ReserveStep ==
    ASSUME RingAssumption, IInv, NEW nb \in 1..Batch, xsk_ring_prod__reserve(nb)
    PROVE  IInv'
<1> DEFINE p == producer["prod"]
           c == consumer["prod"]
           cp == cached_prod["prod"]
           cons == IF Free >= nb THEN cached_cons["prod"] ELSE Refreshed
           free == Minus(cons, cp)
<1>1. /\ p \in Counter /\ c \in Counter /\ cp \in Counter /\ cached_cons["prod"] \in Counter
      /\ size \in Nat \ {0} /\ Width \in Nat /\ size < Width
      /\ Submitted \in Nat /\ Reserved \in Nat /\ nb \in Nat /\ filled \in Nat
    BY Quantities DEF Rings, RingAssumption
<1>2. /\ cached_cons' = [cached_cons EXCEPT !["prod"] = cons]
      /\ cached_prod' = IF free < nb THEN cached_prod
                        ELSE [cached_prod EXCEPT !["prod"] = Plus(@, nb)]
      /\ UNCHANGED <<producer, consumer, slot, filled, sent, inKernel, peeked, received>>
    BY DEF xsk_ring_prod__reserve
<1>3. Submitted + Reserved <= size /\ filled <= Reserved /\ Submitted + Reserved + Free <= size
    BY <1>1, Quantities DEF IInv, ProdCounts
<1>4. Refreshed \in Counter /\ Minus(Refreshed, cp) = size - (Submitted + Reserved)
    <2>1. Refreshed \in Counter /\ size \in Nat /\ Submitted + Reserved \in Nat
        BY <1>1, PlusValue DEF Refreshed
    <2>2. Minus(Refreshed, c) = size
        <3>1. Minus(c, c) = 0 /\ Minus(c, c) + size = size /\ size \in Nat
            BY <1>1, MinusMinus
        <3>2. Minus(Plus(c, size), c) = Minus(c, c) + size
            BY <1>1, <3>1, MinusPlus
        <3>3. QED
            BY <3>1, <3>2 DEF Refreshed
    <2>3. cp = Plus(c, Submitted + Reserved)
        <3>1. p = Plus(c, Submitted) /\ cp = Plus(p, Reserved)
            BY <1>1, MinusPlus DEF Submitted, Reserved
        <3>2. QED
            BY <1>1, <1>3, <3>1, PlusPlus
    <2>4. Minus(Refreshed, Plus(c, Submitted + Reserved)) = size - (Submitted + Reserved)
        BY <1>1, <1>3, <2>1, <2>2, MinusPlus
    <2>5. QED
        BY <2>1, <2>3, <2>4
<1>5. cons \in Counter /\ free \in Nat /\ Submitted + Reserved + free <= size
    <2>1. CASE Free >= nb
        BY <1>1, <1>3, <2>1, MinusPlus DEF Free
    <2>2. CASE ~(Free >= nb)
        BY <1>1, <1>3, <1>4, <2>2, MinusPlus
    <2>3. QED
        BY <2>1, <2>2
<1> HIDE DEF cons, free
<1>6. /\ cached_cons'["prod"] = cons /\ cached_cons'["cons"] = cached_cons["cons"]
      /\ cached_prod'["cons"] = cached_prod["cons"]
      /\ cached_cons' \in [Rings -> Counter]
    BY <1>2, <1>5 DEF IInv, TypeOK, Rings
<1>7. /\ cached_prod'["prod"] \in Counter /\ cached_prod' \in [Rings -> Counter]
      /\ Reserved' \in Nat /\ Free' \in Nat /\ Reserved <= Reserved'
      /\ Submitted + Reserved' + Free' <= size
    <2>1. CASE free < nb
        <3>1. cached_prod' = cached_prod
            BY <1>2, <2>1
        <3>2. Reserved' = Reserved /\ Free' = free
            BY <1>2, <1>6, <3>1 DEF Reserved, Free, free
        <3>3. QED
            BY <1>1, <1>5, <3>1, <3>2 DEF IInv, TypeOK
    <2>2. CASE ~(free < nb)
        <3>1. cached_prod' = [cached_prod EXCEPT !["prod"] = Plus(@, nb)]
            BY <1>2, <2>2
        <3>2. nb \in 0..Width /\ nb <= free /\ Reserved + nb < Width
            BY <1>1, <1>5, <2>2
        <3>3. Plus(cp, nb) \in Counter
            BY <1>1, <3>2, PlusValue
        <3>4. cached_prod'["prod"] = Plus(cp, nb) /\ cached_prod' \in [Rings -> Counter]
            BY <3>1, <3>3 DEF IInv, TypeOK, Rings
        <3>5. Reserved' = Reserved + nb
            BY <1>1, <1>2, <3>2, <3>4, MinusPlus DEF Reserved
        <3>6. Free' = free - nb
            BY <1>1, <1>5, <1>6, <3>2, <3>4, MinusPlus DEF Free, free
        <3>7. QED
            BY <1>1, <1>5, <3>2, <3>3, <3>4, <3>5, <3>6
    <2>3. QED
        BY <2>1, <2>2
<1>8. TypeOK'
    BY <1>2, <1>6, <1>7 DEF IInv, TypeOK
<1>9. /\ Submitted' = Submitted /\ Readable' = Readable /\ Taken' = Taken
      /\ Unread' = Unread /\ Returned' = Returned /\ Passed' = Passed
      /\ ReadPosition' = ReadPosition
    BY <1>2, <1>6 DEF Submitted, Readable, Taken, Unread, Returned, Passed, ReadPosition
<1>10. ProdCounts'
    <2>1. filled' = filled /\ filled <= Reserved'
        BY <1>1, <1>2, <1>3, <1>7
    <2>2. QED
        BY <1>7, <1>9, <2>1 DEF ProdCounts
<1>11. ConsCounts' /\ Numbered' /\ InSlots'
    BY <1>2, <1>6, <1>9 DEF IInv, ConsCounts, Numbered, InSlots
<1>12. QED
    BY <1>8, <1>10, <1>11 DEF IInv

(* What Head and Tail do to a sequence.                                      *)
LEMMA FirstAndRest ==
    ASSUME NEW D, NEW s \in Seq(D), s # <<>>
    PROVE  /\ Head(s) = s[1] /\ s[1] \in D
           /\ Tail(s) \in Seq(D) /\ Len(Tail(s)) = Len(s) - 1
           /\ \A i \in 1..Len(Tail(s)) : Tail(s)[i] = s[i + 1]
<1>1. Len(s) \in Nat \ {0}
    OBVIOUS
<1>2. 1 \in 1..Len(s) /\ \A i \in 1..Len(s) : s[i] \in D
    BY <1>1
<1>3. QED
    BY <1>1, <1>2

(* A descriptor is written into a reserved slot, where none waits.           *)
LEMMA WriteDescStep ==
    ASSUME RingAssumption, IInv, WriteDesc
    PROVE  IInv'
<1>1. /\ filled < Reserved /\ sent < MaxFrames /\ sent' = sent + 1 /\ filled' = filled + 1
      /\ slot' = [slot EXCEPT !["prod"][SlotOf(producer["prod"] + filled)] = sent + 1]
      /\ UNCHANGED <<producer, consumer, cached_prod, cached_cons, inKernel, peeked, received>>
    BY DEF WriteDesc
<1>2. /\ Submitted' = Submitted /\ Reserved' = Reserved /\ Free' = Free
      /\ Readable' = Readable /\ Taken' = Taken
      /\ Unread' = Unread /\ Returned' = Returned /\ Passed' = Passed
      /\ ReadPosition' = ReadPosition
    BY <1>1 DEF Submitted, Reserved, Free, Readable, Taken, Unread, Returned, Passed,
                ReadPosition
<1>3. /\ producer["prod"] \in Counter /\ consumer["prod"] \in Counter
      /\ size \in Nat \ {0} /\ Width \in Nat /\ size < Width
      /\ Submitted \in Nat /\ Reserved \in Nat /\ Free \in Nat /\ filled \in Nat
      /\ sent \in Nat /\ Passed \in Nat
    BY Quantities DEF Rings
<1>4. Submitted + Reserved <= size /\ sent = Passed + Submitted + filled
    BY <1>3 DEF IInv, ProdCounts, Numbered
<1>5. filled \in 0..Width /\ Submitted + filled \in 0..(size - 1) /\ Submitted + filled <= Width
    BY <1>1, <1>3, <1>4
<1>6. SlotOf(producer["prod"] + filled) = SlotOf(Plus(consumer["prod"], Submitted + filled))
    <2>1. producer["prod"] = Plus(consumer["prod"], Submitted)
        BY <1>3, MinusPlus DEF Submitted
    <2>2. Plus(producer["prod"], filled) = Plus(consumer["prod"], Submitted + filled)
        BY <1>3, <1>5, <2>1, PlusPlus
    <2>3. SlotOf(Plus(producer["prod"], filled)) = SlotOf(producer["prod"] + filled)
        BY <1>3, <1>5, SlotWraps
    <2>4. QED
        BY <2>2, <2>3
<1>7. SlotOf(producer["prod"] + filled) \in 0..(size - 1)
    BY <1>3, <1>5, SlotWraps
<1>8. slot["prod"] \in [0..(size - 1) -> 0..MaxFrames] /\ sent + 1 \in 0..MaxFrames
    BY <1>1, <1>3 DEF IInv, TypeOK, Rings, RingAssumption
<1>9. /\ slot'["cons"] = slot["cons"]
      /\ slot'["prod"] =
             [slot["prod"] EXCEPT ![SlotOf(Plus(consumer["prod"], Submitted + filled))] = sent + 1]
      /\ slot' \in [Rings -> [0..(size - 1) -> 0..MaxFrames]]
    BY <1>1, <1>6, <1>7, <1>8 DEF IInv, TypeOK, Rings
<1>10. Holds(slot'["prod"], consumer["prod"], (Submitted + filled) + 1, Passed)
    <2> DEFINE count == Submitted + filled
    <2>1. sent + 1 = Passed + 1 + count
        BY <1>3, <1>4
    <2>2. Holds(slot["prod"], consumer["prod"], count, Passed)
        BY DEF IInv, InSlots
    <2>3. /\ count \in 0..(size - 1)
          /\ slot'["prod"] =
                 [slot["prod"] EXCEPT ![SlotOf(Plus(consumer["prod"], count))] = sent + 1]
        BY <1>5, <1>9
    <2> HIDE DEF count
    <2>4. Holds(slot'["prod"], consumer["prod"], count + 1, Passed)
        BY <1>3, <1>8, <2>1, <2>2, <2>3, AddLast
    <2>5. QED
        BY <2>4 DEF count
<1>11. filled' \in 0..size /\ sent' \in 0..MaxFrames
    BY <1>1, <1>3, <1>4, <1>8
<1>12. TypeOK'
    BY <1>1, <1>9, <1>11 DEF IInv, TypeOK
<1>13. filled' <= Reserved
    BY <1>1, <1>3
<1>14. ProdCounts' /\ ConsCounts'
    BY <1>1, <1>2, <1>13 DEF IInv, ProdCounts, ConsCounts
<1>15. sent' = Passed + Submitted + filled' /\ Submitted + filled' = (Submitted + filled) + 1
    BY <1>1, <1>3, <1>4
<1>16. Numbered'
    BY <1>1, <1>2, <1>15 DEF IInv, Numbered
<1>17. InSlots'
    BY <1>1, <1>2, <1>9, <1>10, <1>15 DEF IInv, InSlots
<1>18. QED
    BY <1>12, <1>14, <1>16, <1>17 DEF IInv

(* Submitting gives the slots that were written to the kernel, in order.     *)
LEMMA SubmitStep ==
    ASSUME RingAssumption, IInv, NEW nb \in 1..Batch, xsk_ring_prod__submit(nb)
    PROVE  IInv'
<1> DEFINE p == producer["prod"]
<1>1. /\ nb <= filled /\ filled' = filled - nb
      /\ producer' = [producer EXCEPT !["prod"] = Plus(@, nb)]
      /\ UNCHANGED <<consumer, cached_prod, cached_cons, slot, sent, inKernel, peeked, received>>
    BY DEF xsk_ring_prod__submit
<1>2. /\ p \in Counter /\ consumer["prod"] \in Counter /\ cached_prod["prod"] \in Counter
      /\ size \in Nat \ {0} /\ Width \in Nat /\ size < Width
      /\ Submitted \in Nat /\ Reserved \in Nat /\ Free \in Nat /\ filled \in Nat
      /\ nb \in Nat /\ Passed \in Nat
    BY Quantities DEF Rings, RingAssumption
<1>3. /\ filled <= Reserved /\ Submitted + Reserved + Free <= size
      /\ sent = Passed + Submitted + filled
    BY DEF IInv, ProdCounts, Numbered
<1>4. nb \in 0..Width /\ nb <= Reserved /\ Submitted + nb < Width
    BY <1>1, <1>2, <1>3
<1>5. Plus(p, nb) \in Counter
    BY <1>2, <1>4, PlusValue
<1>6. /\ producer'["prod"] = Plus(p, nb) /\ producer'["cons"] = producer["cons"]
      /\ producer' \in [Rings -> Counter]
    BY <1>1, <1>5 DEF IInv, TypeOK, Rings
<1>7. Submitted' = Submitted + nb /\ Reserved' = Reserved - nb
    BY <1>1, <1>2, <1>4, <1>6, MinusPlus DEF Submitted, Reserved
<1>8. /\ Free' = Free /\ Readable' = Readable /\ Taken' = Taken
      /\ Unread' = Unread /\ Returned' = Returned /\ Passed' = Passed
      /\ ReadPosition' = ReadPosition
    BY <1>1, <1>6 DEF Free, Readable, Taken, Unread, Returned, Passed, ReadPosition
<1>9. /\ filled' \in 0..size /\ filled' <= Reserved' /\ Submitted' + Reserved' + Free' <= size
      /\ Submitted' + filled' = Submitted + filled
      /\ sent = Passed' + Submitted' + filled'
    BY <1>1, <1>2, <1>3, <1>7, <1>8
<1>10. TypeOK'
    BY <1>1, <1>6, <1>9 DEF IInv, TypeOK
<1>11. ProdCounts' /\ ConsCounts'
    BY <1>1, <1>8, <1>9 DEF IInv, ProdCounts, ConsCounts
<1>12. Numbered' /\ InSlots'
    BY <1>1, <1>8, <1>9 DEF IInv, Numbered, InSlots
<1>13. QED
    BY <1>10, <1>11, <1>12 DEF IInv

(* The kernel takes the oldest descriptor.                                   *)
LEMMA KernelTakeStep ==
    ASSUME RingAssumption, IInv, KernelTake
    PROVE  IInv'
<1> DEFINE c == consumer["prod"]
           taken == slot["prod"][SlotOf(c)]
<1>1. /\ c # producer["prod"]
      /\ inKernel' = Append(inKernel, taken)
      /\ consumer' = [consumer EXCEPT !["prod"] = Plus(@, 1)]
      /\ UNCHANGED <<producer, cached_prod, cached_cons, slot, filled, sent, peeked, received>>
    BY DEF KernelTake
<1>2. /\ c \in Counter /\ producer["prod"] \in Counter /\ cached_prod["prod"] \in Counter
      /\ size \in Nat \ {0} /\ Width \in Nat /\ size < Width
      /\ Submitted \in Nat /\ Reserved \in Nat /\ Free \in Nat /\ filled \in Nat
      /\ Returned \in Nat /\ Len(inKernel) \in Nat /\ Passed \in Nat
    BY Quantities DEF Rings
<1>3. /\ filled <= Reserved /\ Submitted + Reserved + Free <= size
      /\ sent = Passed + Submitted + filled
    BY DEF IInv, ProdCounts, Numbered
<1>4. Submitted >= 1
    BY <1>1, <1>2, MinusMinus DEF Submitted
<1>5. Submitted + filled \in 1..size /\ 1 \in 0..Width
    BY <1>2, <1>3, <1>4
<1>6. /\ taken = Passed + 1
      /\ Holds(slot["prod"], Plus(c, 1), (Submitted + filled) - 1, Passed + 1)
    BY <1>2, <1>5, TakeFirst DEF IInv, InSlots
<1>7. taken \in 0..MaxFrames
    <2>1. SlotOf(c) \in 0..(size - 1)
        BY <1>2, SlotType
    <2>2. QED
        BY <2>1 DEF IInv, TypeOK, Rings
<1>8. Plus(c, 1) \in Counter
    BY <1>2, <1>5, PlusValue
<1>9. /\ consumer'["prod"] = Plus(c, 1) /\ consumer'["cons"] = consumer["cons"]
      /\ consumer' \in [Rings -> Counter]
    BY <1>1, <1>8 DEF IInv, TypeOK, Rings
<1>10. Submitted' = Submitted - 1
    BY <1>1, <1>2, <1>4, <1>9, MinusPlus DEF Submitted
<1>11. /\ inKernel' \in Seq(0..MaxFrames) /\ Len(inKernel') = Len(inKernel) + 1
       /\ \A i \in 1..Len(inKernel) : inKernel'[i] = inKernel[i]
       /\ inKernel'[Len(inKernel) + 1] = taken
    BY <1>1, <1>7 DEF IInv, Numbered
<1>12. /\ Free' = Free /\ Reserved' = Reserved /\ Readable' = Readable /\ Taken' = Taken
       /\ Unread' = Unread /\ Returned' = Returned /\ ReadPosition' = ReadPosition
    BY <1>1, <1>9 DEF Free, Reserved, Readable, Taken, Unread, Returned, ReadPosition
<1>13. Passed' = Passed + 1 /\ Passed = Returned + Len(inKernel)
    BY <1>2, <1>11, <1>12 DEF Passed
<1>14. /\ Submitted' + Reserved' + Free' <= size
       /\ Submitted' + filled' = (Submitted + filled) - 1
       /\ sent = Passed' + Submitted' + filled'
    BY <1>1, <1>2, <1>3, <1>10, <1>12, <1>13
<1>15. TypeOK'
    BY <1>1, <1>9 DEF IInv, TypeOK
<1>16. ProdCounts' /\ ConsCounts'
    BY <1>1, <1>9, <1>12, <1>14 DEF IInv, ProdCounts, ConsCounts
<1>17. \A i \in 1..Len(inKernel') : inKernel'[i] = Returned + i
    <2>1. ASSUME NEW i \in 1..Len(inKernel') PROVE inKernel'[i] = Returned + i
        <3>1. CASE i \in 1..Len(inKernel)
            BY <1>11, <3>1 DEF IInv, Numbered
        <3>2. CASE i = Len(inKernel) + 1
            BY <1>2, <1>6, <1>11, <1>13, <3>2
        <3>3. QED
            BY <1>2, <1>11, <3>1, <3>2
    <2>2. QED
        BY <2>1
<1>18. Numbered'
    BY <1>1, <1>11, <1>12, <1>14, <1>17 DEF IInv, Numbered
<1>19. InSlots'
    BY <1>1, <1>6, <1>9, <1>12, <1>13, <1>14 DEF IInv, InSlots
<1>20. QED
    BY <1>15, <1>16, <1>18, <1>19 DEF IInv

(* The kernel returns the oldest one it has, when a slot is free.            *)
LEMMA KernelReturnStep ==
    ASSUME RingAssumption, IInv, KernelReturn
    PROVE  IInv'
<1> DEFINE p == producer["cons"]
           c == cached_cons["cons"]
<1>1. /\ inKernel # <<>> /\ Minus(p, consumer["cons"]) < size
      /\ slot' = [slot EXCEPT !["cons"][SlotOf(p)] = Head(inKernel)]
      /\ producer' = [producer EXCEPT !["cons"] = Plus(@, 1)]
      /\ inKernel' = Tail(inKernel)
      /\ UNCHANGED <<consumer, cached_prod, cached_cons, filled, sent, peeked, received>>
    BY DEF KernelReturn
<1>2. /\ p \in Counter /\ c \in Counter /\ consumer["cons"] \in Counter
      /\ size \in Nat \ {0} /\ Width \in Nat /\ size < Width
      /\ Readable \in Nat /\ Taken \in Nat /\ Unread \in Nat /\ peeked \in Nat
      /\ Len(received) \in Nat /\ Returned \in Nat /\ Len(inKernel) \in Nat
    BY Quantities DEF Rings
<1>3. peeked <= Taken /\ Taken + Readable <= size
    BY DEF IInv, ConsCounts
<1>4. Taken + Readable < size
    <2>1. Minus(p, c) + Minus(c, consumer["cons"]) < Width
        BY <1>2, <1>3 DEF Taken, Readable
    <2>2. Minus(p, consumer["cons"]) = Minus(p, c) + Minus(c, consumer["cons"])
        BY <1>2, <2>1, MinusMinus
    <2>3. Minus(p, consumer["cons"]) = Readable + Taken
        BY <2>2 DEF Taken, Readable
    <2>4. QED
        BY <1>1, <1>2, <2>3
<1>5. Unread \in 0..(size - 1) /\ 1 \in 0..Width /\ peeked < Width /\ peeked + Readable <= Width
    BY <1>2, <1>3, <1>4 DEF Unread
<1>6. ReadPosition \in Counter /\ Plus(ReadPosition, Unread) = p
    <2>1. ReadPosition \in Counter /\ Plus(ReadPosition, peeked) = c
        BY <1>2, <1>5, Behind DEF ReadPosition
    <2>2. Plus(c, Readable) = p
        BY <1>2, MinusPlus DEF Readable
    <2>3. QED
        BY <1>2, <1>5, <2>1, <2>2, PlusPlus DEF Unread
<1>7. SlotOf(p) \in 0..(size - 1)
    BY <1>2, SlotType
<1>8. /\ Head(inKernel) = Returned + 1 /\ Head(inKernel) \in 0..MaxFrames
      /\ inKernel' \in Seq(0..MaxFrames) /\ Len(inKernel') = Len(inKernel) - 1
      /\ \A i \in 1..Len(inKernel') : inKernel'[i] = inKernel[i + 1]
    <2>1. inKernel \in Seq(0..MaxFrames) /\ inKernel # <<>> /\ Len(inKernel) >= 1
        BY <1>1, <1>2 DEF IInv, Numbered
    <2>2. /\ Head(inKernel) = inKernel[1] /\ inKernel[1] \in 0..MaxFrames
          /\ inKernel' \in Seq(0..MaxFrames) /\ Len(inKernel') = Len(inKernel) - 1
          /\ \A i \in 1..Len(inKernel') : inKernel'[i] = inKernel[i + 1]
        BY <1>1, <2>1, FirstAndRest
    <2>3. inKernel[1] = Returned + 1
        BY <1>2, <2>1 DEF IInv, Numbered
    <2>4. QED
        BY <2>2, <2>3
<1>9. Plus(p, 1) \in Counter
    BY <1>2, <1>5, PlusValue
<1>10. /\ producer'["cons"] = Plus(p, 1) /\ producer'["prod"] = producer["prod"]
       /\ producer' \in [Rings -> Counter]
    BY <1>1, <1>9 DEF IInv, TypeOK, Rings
<1>11. /\ slot'["prod"] = slot["prod"]
       /\ slot'["cons"] = [slot["cons"] EXCEPT ![SlotOf(Plus(ReadPosition, Unread))] = Head(inKernel)]
       /\ slot' \in [Rings -> [0..(size - 1) -> 0..MaxFrames]]
    BY <1>1, <1>6, <1>7, <1>8 DEF IInv, TypeOK, Rings
<1>12. Readable' = Readable + 1
    <2>1. Minus(p, c) + 1 < Width /\ 1 \in Nat
        BY <1>2, <1>4 DEF Readable
    <2>2. Minus(Plus(p, 1), c) = Minus(p, c) + 1
        BY <1>2, <2>1, MinusPlus
    <2>3. QED
        BY <1>1, <1>10, <2>2 DEF Readable
<1>13. /\ Free' = Free /\ Reserved' = Reserved /\ Submitted' = Submitted /\ Taken' = Taken
       /\ ReadPosition' = ReadPosition
    BY <1>1, <1>10 DEF Free, Reserved, Submitted, Taken, ReadPosition
<1>14. Unread' = Unread + 1
    BY <1>1, <1>2, <1>12 DEF Unread
<1>15. Returned' = Returned + 1
    BY <1>1, <1>2, <1>14 DEF Returned
<1>16. Passed' = Passed
    BY <1>2, <1>8, <1>15 DEF Passed
<1>17. Holds(slot'["cons"], ReadPosition, Unread + 1, Len(received))
    <2>1. Head(inKernel) = Len(received) + 1 + Unread
        BY <1>2, <1>8 DEF Returned
    <2>2. slot["cons"] \in [0..(size - 1) -> 0..MaxFrames]
        BY DEF IInv, TypeOK, Rings
    <2>3. Holds(slot["cons"], ReadPosition, Unread, Len(received))
        BY DEF IInv, InSlots
    <2>4. QED
        BY <1>2, <1>5, <1>6, <1>11, <2>1, <2>2, <2>3, AddLast
<1>18. TypeOK'
    BY <1>1, <1>10, <1>11 DEF IInv, TypeOK
<1>19. /\ Taken' + Readable' <= size
       /\ Minus(cached_prod'["cons"], cached_cons'["cons"]) <= Readable'
    <2>1. Minus(cached_prod["cons"], c) <= Readable /\ Minus(cached_prod["cons"], c) \in Nat
        BY <1>2, Quantities, MinusPlus DEF IInv, ConsCounts, Rings
    <2>2. QED
        BY <1>1, <1>2, <1>4, <1>12, <1>13, <2>1
<1>20. ProdCounts' /\ ConsCounts'
    BY <1>1, <1>13, <1>19 DEF IInv, ProdCounts, ConsCounts
<1>21. \A i \in 1..Len(inKernel') : inKernel'[i] = (Returned + 1) + i
    <2>1. ASSUME NEW i \in 1..Len(inKernel') PROVE inKernel'[i] = (Returned + 1) + i
        <3>1. i + 1 \in 1..Len(inKernel) /\ Returned + (i + 1) = (Returned + 1) + i
            BY <1>2, <1>8
        <3>2. inKernel[i + 1] = Returned + (i + 1)
            BY <3>1 DEF IInv, Numbered
        <3>3. QED
            BY <1>8, <3>1, <3>2
    <2>2. QED
        BY <2>1
<1>22. Numbered'
    BY <1>1, <1>8, <1>13, <1>15, <1>16, <1>21 DEF IInv, Numbered
<1>23. InSlots'
    BY <1>1, <1>11, <1>13, <1>14, <1>16, <1>17 DEF IInv, InSlots
<1>24. QED
    BY <1>18, <1>20, <1>22, <1>23 DEF IInv

(* The application peeks at what it knows to have come back.                 *)
LEMMA PeekStep ==
    ASSUME RingAssumption, IInv, NEW nb \in 1..Batch, xsk_ring_cons__peek(nb)
    PROVE  IInv'
<1> DEFINE c == cached_cons["cons"]
           prod == IF cached_prod["cons"] = c THEN producer["cons"] ELSE cached_prod["cons"]
           available == Minus(prod, c)
           entries == IF available > nb THEN nb ELSE available
<1>1. /\ peeked = 0 /\ peeked' = entries
      /\ cached_prod' = [cached_prod EXCEPT !["cons"] = prod]
      /\ cached_cons' = [cached_cons EXCEPT !["cons"] = Plus(@, entries)]
      /\ UNCHANGED <<producer, consumer, slot, filled, sent, inKernel, received>>
    BY DEF xsk_ring_cons__peek, Available
<1>2. /\ c \in Counter /\ producer["cons"] \in Counter /\ consumer["cons"] \in Counter
      /\ cached_prod["cons"] \in Counter /\ nb \in Nat
      /\ size \in Nat \ {0} /\ Width \in Nat /\ size < Width
      /\ Readable \in Nat /\ Taken \in Nat /\ Len(received) \in Nat /\ Len(inKernel) \in Nat
    <2>1. "cons" \in Rings /\ nb \in Nat
        BY DEF Rings, RingAssumption
    <2>2. QED
        BY <2>1, Quantities
<1>3. Taken + Readable <= size /\ Minus(cached_prod["cons"], c) <= Readable
    BY DEF IInv, ConsCounts
<1>4. prod \in Counter
    BY <1>2
<1>5. available \in Nat /\ available <= Readable
    <2>1. CASE cached_prod["cons"] = c
        BY <1>2, <2>1, MinusPlus DEF Readable
    <2>2. CASE cached_prod["cons"] # c
        BY <1>2, <1>3, <2>2, MinusPlus
    <2>3. QED
        BY <2>1, <2>2
<1> HIDE DEF prod
<1>6. /\ entries \in Nat /\ entries <= available /\ entries <= Readable
      /\ entries \in 0..Width /\ entries < Width /\ Taken + entries < Width
      /\ entries \in 0..size
    BY <1>2, <1>3, <1>5
<1> DEFINE after == Plus(c, entries)
<1>7. /\ after \in Counter
      /\ Minus(producer["cons"], after) = Readable - entries
      /\ Minus(prod, after) = available - entries
      /\ Minus(after, consumer["cons"]) = Taken + entries
      /\ Minus(after, entries) = c
      /\ Minus(c, 0) = c
    <2> HIDE DEF available, entries
    <2>1. after \in Counter
        BY <1>2, <1>6, PlusValue
    <2>2. Minus(producer["cons"], after) = Readable - entries
        <3>1. entries \in Nat /\ entries <= Minus(producer["cons"], c)
            BY <1>6 DEF Readable
        <3>2. entries <= Minus(producer["cons"], c) =>
                  Minus(producer["cons"], after) = Minus(producer["cons"], c) - entries
            BY <1>2, <3>1, MinusPlus
        <3>3. QED
            BY <3>1, <3>2 DEF Readable
    <2>3. Minus(prod, after) = available - entries
        <3>1. Minus(prod, c) = available /\ entries \in Nat /\ entries <= available
            BY <1>6 DEF available
        <3>2. entries <= Minus(prod, c) =>
                  Minus(prod, Plus(c, entries)) = Minus(prod, c) - entries
            <4> DEFINE k == entries
            <4>1. k \in Nat /\ prod \in Counter /\ c \in Counter
                BY <1>2, <1>4, <3>1
            <4> HIDE DEF k
            <4>2. k <= Minus(prod, c) => Minus(prod, Plus(c, k)) = Minus(prod, c) - k
                BY <4>1, MinusPlus
            <4>3. QED
                BY <4>2 DEF k
        <3>3. QED
            BY <3>1, <3>2
    <2>4. Minus(after, consumer["cons"]) = Taken + entries
        BY <1>2, <1>6, MinusPlus DEF Taken
    <2>5. Minus(after, entries) = c /\ Minus(c, 0) = c
        BY <1>2, <1>6, Behind
    <2>6. QED
        BY <2>1, <2>2, <2>3, <2>4, <2>5
<1> HIDE DEF available, entries, after
<1>8. /\ cached_cons'["cons"] = after /\ cached_cons'["prod"] = cached_cons["prod"]
      /\ cached_prod'["cons"] = prod /\ cached_prod'["prod"] = cached_prod["prod"]
      /\ cached_cons' \in [Rings -> Counter] /\ cached_prod' \in [Rings -> Counter]
    BY <1>1, <1>4, <1>7 DEF IInv, TypeOK, Rings, after
<1>9. Readable' = Readable - entries /\ Taken' = Taken + entries
    BY <1>1, <1>7, <1>8 DEF Readable, Taken
<1>10. ReadPosition = c /\ ReadPosition' = ReadPosition
    BY <1>1, <1>7, <1>8 DEF ReadPosition
<1>11. Unread' = Unread
    BY <1>1, <1>2, <1>6, <1>9 DEF Unread
<1>12. /\ Returned' = Returned /\ Passed' = Passed
       /\ Submitted' = Submitted /\ Reserved' = Reserved /\ Free' = Free
    BY <1>1, <1>8, <1>11 DEF Returned, Passed, Submitted, Reserved, Free
<1>13. TypeOK'
    BY <1>1, <1>6, <1>8 DEF IInv, TypeOK
<1>14. ConsCounts'
    <2>1. peeked' <= Taken' /\ Taken' + Readable' <= size
        BY <1>1, <1>2, <1>3, <1>6, <1>9
    <2>2. Minus(cached_prod'["cons"], cached_cons'["cons"]) <= Readable'
        BY <1>2, <1>5, <1>6, <1>7, <1>8, <1>9
    <2>3. QED
        BY <2>1, <2>2 DEF ConsCounts
<1>15. ProdCounts' /\ Numbered' /\ InSlots'
    BY <1>1, <1>10, <1>11, <1>12 DEF IInv, ProdCounts, Numbered, InSlots
<1>16. QED
    BY <1>13, <1>14, <1>15 DEF IInv

(* The application reads the oldest descriptor that it peeked at.            *)
LEMMA ReadDescStep ==
    ASSUME RingAssumption, IInv, ReadDesc
    PROVE  IInv'
<1> DEFINE c == cached_cons["cons"]
           read == slot["cons"][SlotOf(ReadPosition)]
<1>1. /\ peeked > 0 /\ peeked' = peeked - 1
      /\ received' = Append(received, read)
      /\ UNCHANGED <<producer, consumer, cached_prod, cached_cons, slot, filled, sent, inKernel>>
    BY DEF ReadDesc, ReadPosition
<1>2. /\ c \in Counter
      /\ size \in Nat \ {0} /\ Width \in Nat /\ size < Width
      /\ Readable \in Nat /\ Taken \in Nat /\ Unread \in Nat /\ peeked \in Nat
      /\ Len(received) \in Nat /\ Len(inKernel) \in Nat
    BY Quantities DEF Rings
<1>3. peeked <= Taken /\ Taken + Readable <= size
    BY DEF IInv, ConsCounts
<1>4. Unread \in 1..size /\ peeked < Width
    BY <1>1, <1>2, <1>3 DEF Unread
<1>5. ReadPosition \in Counter /\ Plus(ReadPosition, 1) = Minus(c, peeked - 1)
    BY <1>1, <1>2, <1>4, Behind DEF ReadPosition
<1>6. /\ read = Len(received) + 1
      /\ Holds(slot["cons"], Plus(ReadPosition, 1), Unread - 1, Len(received) + 1)
    BY <1>2, <1>4, <1>5, TakeFirst DEF IInv, InSlots
<1>7. ReadPosition' = Plus(ReadPosition, 1)
    BY <1>1, <1>5 DEF ReadPosition
<1>8. read \in Nat
    BY <1>2, <1>6
<1>9. /\ received' \in Seq(Nat) /\ Len(received') = Len(received) + 1
      /\ \A i \in 1..Len(received') : received'[i] = i
    BY <1>1, <1>2, <1>6, <1>8 DEF IInv, Numbered
<1>10. /\ Submitted' = Submitted /\ Reserved' = Reserved /\ Free' = Free
       /\ Readable' = Readable /\ Taken' = Taken
    BY <1>1 DEF Submitted, Reserved, Free, Readable, Taken
<1>11. Unread' = Unread - 1
    BY <1>1, <1>2, <1>10 DEF Unread
<1>12. Returned' = Returned
    BY <1>2, <1>9, <1>11 DEF Returned
<1>13. Passed' = Passed
    BY <1>1, <1>12 DEF Passed
<1>14. peeked' \in 0..size /\ peeked' <= Taken'
    BY <1>1, <1>2, <1>3, <1>10
<1>15. TypeOK'
    BY <1>1, <1>14 DEF IInv, TypeOK
<1>16. ProdCounts' /\ ConsCounts'
    BY <1>1, <1>10, <1>14 DEF IInv, ProdCounts, ConsCounts
<1>17. Numbered'
    BY <1>1, <1>9, <1>10, <1>12, <1>13 DEF IInv, Numbered
<1>18. InSlots'
    BY <1>1, <1>6, <1>7, <1>9, <1>10, <1>11, <1>13 DEF IInv, InSlots
<1>19. QED
    BY <1>15, <1>16, <1>17, <1>18 DEF IInv

(* The application releases slots that it has read.                          *)
LEMMA ReleaseStep ==
    ASSUME RingAssumption, IInv, NEW nb \in 1..Batch, xsk_ring_cons__release(nb)
    PROVE  IInv'
<1> DEFINE f == consumer["cons"]
<1>1. /\ nb <= Minus(Taken, peeked)
      /\ consumer' = [consumer EXCEPT !["cons"] = Plus(@, nb)]
      /\ UNCHANGED <<producer, cached_prod, cached_cons, slot, filled, sent, inKernel, peeked,
                     received>>
    BY DEF xsk_ring_cons__release, Taken
<1>2. /\ f \in Counter /\ cached_cons["cons"] \in Counter /\ nb \in Nat
      /\ size \in Nat \ {0} /\ Width \in Nat /\ size < Width
      /\ Readable \in Nat /\ Taken \in Nat /\ peeked \in Nat
    BY Quantities DEF Rings, RingAssumption
<1>3. peeked <= Taken /\ Taken + Readable <= size
    BY DEF IInv, ConsCounts
<1>4. nb <= Taken - peeked
    <2>1. Taken \in Counter /\ peeked \in Counter
        BY <1>2, <1>3 DEF Counter
    <2> DEFINE t == Taken
    <2>2. t \in Counter
        BY <2>1
    <2> HIDE DEF t
    <2>3. Minus(t, peeked) = IF peeked <= t THEN t - peeked ELSE t + Width - peeked
        BY <2>1, <2>2, MinusValue
    <2>4. QED
        BY <1>1, <1>3, <2>3 DEF t
<1>5. nb \in 0..Width /\ nb <= Taken
    BY <1>2, <1>3, <1>4
<1>6. Plus(f, nb) \in Counter
    BY <1>2, <1>5, PlusValue
<1>7. /\ consumer'["cons"] = Plus(f, nb) /\ consumer'["prod"] = consumer["prod"]
      /\ consumer' \in [Rings -> Counter]
    BY <1>1, <1>6 DEF IInv, TypeOK, Rings
<1>8. Taken' = Taken - nb
    BY <1>1, <1>2, <1>5, <1>7, MinusPlus DEF Taken
<1>9. /\ Submitted' = Submitted /\ Reserved' = Reserved /\ Free' = Free
      /\ Readable' = Readable /\ Unread' = Unread /\ Returned' = Returned
      /\ Passed' = Passed /\ ReadPosition' = ReadPosition
    BY <1>1, <1>7 DEF Submitted, Reserved, Free, Readable, Unread, Returned, Passed,
                      ReadPosition
<1>10. peeked' <= Taken' /\ Taken' + Readable' <= size
    BY <1>1, <1>2, <1>3, <1>4, <1>8, <1>9
<1>11. TypeOK'
    BY <1>1, <1>7 DEF IInv, TypeOK
<1>12. ProdCounts' /\ ConsCounts'
    BY <1>1, <1>9, <1>10 DEF IInv, ProdCounts, ConsCounts
<1>13. Numbered' /\ InSlots'
    BY <1>1, <1>7, <1>9 DEF IInv, Numbered, InSlots
<1>14. QED
    BY <1>11, <1>12, <1>13 DEF IInv
-----------------------------------------------------------------------------
(* Each step, and a stutter, keeps the invariant.                            *)
LEMMA NextIInv ==
    ASSUME RingAssumption, IInv, [Next]_xrvars
    PROVE  IInv'
<1>1. CASE \E nb \in 1..Batch : xsk_ring_prod__reserve(nb)
    BY <1>1, ReserveStep
<1>2. CASE \E nb \in 1..Batch : xsk_ring_prod__submit(nb)
    BY <1>2, SubmitStep
<1>3. CASE \E nb \in 1..Batch : xsk_ring_cons__peek(nb)
    BY <1>3, PeekStep
<1>4. CASE \E nb \in 1..Batch : xsk_ring_cons__release(nb)
    BY <1>4, ReleaseStep
<1>5. CASE WriteDesc
    BY <1>5, WriteDescStep
<1>6. CASE KernelTake
    BY <1>6, KernelTakeStep
<1>7. CASE KernelReturn
    BY <1>7, KernelReturnStep
<1>8. CASE ReadDesc
    BY <1>8, ReadDescStep
<1>9. CASE UNCHANGED xrvars
    BY <1>9 DEF xrvars, IInv, TypeOK, ProdCounts, ConsCounts, Numbered, InSlots, Submitted,
                Reserved, Free, Readable, Taken, Unread, ReadPosition, Returned, Passed
<1>10. QED
    BY <1>1, <1>2, <1>3, <1>4, <1>5, <1>6, <1>7, <1>8, <1>9 DEF Next

(* What the numbers say of what was received and of what is in the kernel.   *)
LEMMA InOrder == ASSUME RingAssumption, IInv PROVE ReturnedInOrder
<1>1. /\ Len(received) \in Nat /\ Len(inKernel) \in Nat /\ Unread \in Nat /\ Returned \in Nat
      /\ Submitted \in Nat /\ filled \in Nat /\ Passed \in Nat
    BY Quantities
<1>2. received = [i \in 1..Len(received) |-> i]
    <2>1. received \in Seq(Nat) /\ \A i \in 1..Len(received) : received[i] = i
        BY DEF IInv, Numbered
    <2>2. received = [i \in 1..Len(received) |-> received[i]]
        BY <2>1
    <2>3. QED
        BY <2>1, <2>2
<1>3. ASSUME NEW i \in 1..Len(inKernel) PROVE inKernel[i] \in (Len(received) + 1)..sent
    <2>1. inKernel[i] = Returned + i /\ sent = Passed + Submitted + filled
        BY DEF IInv, Numbered
    <2>2. Returned = Len(received) + Unread /\ Passed = Returned + Len(inKernel)
        BY DEF Returned, Passed
    <2>3. QED
        BY <1>1, <2>1, <2>2
<1>4. QED
    BY <1>2, <1>3 DEF ReturnedInOrder

(* Submitted and reserved slots together are what is between the counters.   *)
LEMMA Fits == ASSUME RingAssumption, IInv PROVE NeverOverfull
<1>1. /\ producer["prod"] \in Counter /\ consumer["prod"] \in Counter
      /\ cached_prod["prod"] \in Counter /\ size \in Nat /\ Width \in Nat /\ size < Width
      /\ Submitted \in Nat /\ Reserved \in Nat /\ Free \in Nat
    BY Quantities DEF Rings
<1>2. Submitted + Reserved <= size
    BY <1>1 DEF IInv, ProdCounts
<1>3. Minus(cached_prod["prod"], consumer["prod"]) = Reserved + Submitted
    BY <1>1, <1>2, MinusMinus DEF Submitted, Reserved
<1>4. QED
    BY <1>1, <1>2, <1>3 DEF NeverOverfull

(* The invariant holds of every behaviour.                                   *)
LEMMA Invariance == RingAssumption => (Spec => []IInv)
<1> SUFFICES ASSUME RingAssumption PROVE Spec => []IInv
    OBVIOUS
<1>1. Init => IInv
    BY InitIInv
<1>2. IInv /\ [Next]_xrvars => IInv'
    BY NextIInv
<1>3. QED
    BY <1>1, <1>2, PTL DEF Spec

(* The rings of xsk.h return every descriptor in its order and once, for     *)
(* every size and number of laps: no xsk_ring_prod__reserve gives out a slot *)
(* whose descriptor the kernel has still to take, and no xsk_ring_cons__peek *)
(* one that was not yet written (xsk.h:83-166).                              *)
THEOREM Delivers == RingAssumption => (Spec => []ReturnedInOrder)
<1> SUFFICES ASSUME RingAssumption PROVE Spec => []ReturnedInOrder
    OBVIOUS
<1>1. Spec => []IInv
    BY Invariance
<1>2. IInv => ReturnedInOrder
    BY InOrder
<1>3. QED
    BY <1>1, <1>2, PTL

(* xsk_ring_prod__reserve never has more slots in use than the ring has,     *)
(* however old its copy of the consumer counter is (xsk.h:83-126).           *)
THEOREM StaysInTheRing == RingAssumption => (Spec => []NeverOverfull)
<1> SUFFICES ASSUME RingAssumption PROVE Spec => []NeverOverfull
    OBVIOUS
<1>1. Spec => []IInv
    BY Invariance
<1>2. IInv => NeverOverfull
    BY Fits
<1>3. QED
    BY <1>1, <1>2, PTL
=============================================================================
