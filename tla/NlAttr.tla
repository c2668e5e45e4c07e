-------------------------------- MODULE NlAttr ---------------------------------
(* nlattr.c: libbpf_nla_parse indexes a stream of attributes by type.  The   *)
(* bytes of the stream are arbitrary: a header is chosen when it is read.    *)
EXTENDS Integers, Sequences

CONSTANTS
    Lengths,        \* lengths of streams in bytes (len)
    NlaLens,        \* values of nla_len
    Types, maxtype, \* values of nla_type, and the last one that is indexed
    Policies,       \* records [min, max, string], or None
    None

(* Lengths are those of a netlink message, types are not negative.           *)
AttrAssumption ==
    /\ Lengths \subseteq Nat /\ NlaLens \subseteq Nat /\ Types \subseteq Nat
    /\ maxtype \in Nat /\ None \notin {0, -1}

VARIABLES
    len, policy,
    rem,            \* rem of libbpf_nla_for_each_attr
    tb,             \* the index: the attribute of each type, or None
    seen,           \* the attributes the loop has visited (history)
    err             \* None until the function returns

navars == <<len, policy, rem, tb, seen, err>>

NLA_HDRLEN == 4
NLA_ALIGN(n) == ((n + 3) \div 4) * 4
Offset == len - rem

TypeOK ==
    /\ len \in Lengths /\ rem <= len
    /\ \A t \in 0..maxtype : tb[t] # None => tb[t].nla_len \in NlaLens
    /\ err \in {None, 0, -1}

Init ==
    /\ len \in Lengths /\ policy \in Policies
    /\ rem = len
    /\ tb = [t \in 0..maxtype |-> None]
    /\ seen = <<>>
    /\ err = None

(* A mutant: the length of the attribute is not compared with what is left.  *)
nla_okNoLength(n) == rem >= NLA_HDRLEN /\ n >= NLA_HDRLEN

(* nla_ok.  In the code the first comparison is unsigned, so it also holds   *)
(* when padding has made rem negative; the third one then fails.             *)
nla_ok(n) ==
    /\ rem >= NLA_HDRLEN \/ rem < 0
    /\ n >= NLA_HDRLEN
    /\ n <= rem

(* validate_nla: payload lengths, and the end of a string.                   *)
Valid(n, terminated) ==
    policy # None =>
        /\ n - NLA_HDRLEN >= policy.min
        /\ policy.max # 0 => n - NLA_HDRLEN <= policy.max
        /\ policy.string => terminated

Attribute(t, n, z) ==
    LET nla == [at |-> Offset, type |-> t, nla_len |-> n, terminated |-> z]
    IN /\ nla_ok(n)
       /\ seen' = Append(seen, nla)
       /\ \/ /\ t <= maxtype => Valid(n, z)
             /\ tb' = IF t > maxtype THEN tb ELSE [tb EXCEPT ![t] = nla]
             /\ rem' = rem - NLA_ALIGN(n)
             /\ UNCHANGED err
          \/ /\ t <= maxtype /\ ~Valid(n, z)
             /\ err' = -1
             /\ UNCHANGED <<tb, rem>>
       /\ UNCHANGED <<len, policy>>

Return(n) ==
    /\ ~nla_ok(n)
    /\ err' = 0
    /\ UNCHANGED <<len, policy, rem, tb, seen>>

(* What the caller does between two messages: it parses the next one.        *)
libbpf_nla_parse ==
    /\ err # None
    /\ len' \in Lengths /\ policy' \in Policies
    /\ rem' = len' /\ tb' = [t \in 0..maxtype |-> None] /\ seen' = <<>> /\ err' = None

Next ==
    \/ /\ err = None
       /\ \E n \in NlaLens : Return(n) \/ \E t \in Types, z \in BOOLEAN : Attribute(t, n, z)
    \/ libbpf_nla_parse

-----------------------------------------------------------------------------
(* Every attribute of the index lies in the stream, has the type it is       *)
(* indexed by, satisfies the policy, and is the last of its type among the   *)
(* well-formed ones at the front of the stream, of which two never overlap.  *)
IndexSound ==
    /\ \A t \in 0..maxtype :
        LET visited == {k \in 1..Len(seen) : seen[k].type = t}
        IN /\ tb[t] # None =>
                /\ tb[t].type = t
                /\ tb[t].at + tb[t].nla_len <= len
                /\ policy # None => tb[t].nla_len - NLA_HDRLEN >= policy.min
           /\ err = 0 => IF visited = {} THEN tb[t] = None
                         ELSE tb[t] = seen[CHOOSE k \in visited : \A j \in visited : j <= k]
    /\ \A j, k \in 1..Len(seen) : j < k => seen[j].at + seen[j].nla_len <= seen[k].at
=============================================================================
