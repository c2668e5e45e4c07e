-------------------------------- MODULE Netlink --------------------------------
(* netlink.c: requests to the kernel about network interfaces.               *)
(* bpf_set_link_xdp_fd and bpf_get_link_xdp_id open a socket for one request *)
(* and close it; libbpf_nl_get_link and its siblings use a socket the caller *)
(* keeps, so what one dump leaves unread meets the next one.  A request is   *)
(* numbered by time(NULL), in seconds.  The kernel prepares one datagram of  *)
(* a dump ahead and the next when that one is received, so interfaces may    *)
(* change in the middle of a dump.                                           *)
EXTENDS Integers, Sequences, FiniteSets

CONSTANTS
    Links,          \* interfaces, numbered 1..n
    Modes,          \* XDP modes an interface may have programs in at once
    Attaching, Dumping,     \* sockets of processes that set, and that ask
    MaxTime,        \* bound: seconds
    MaxRequests,    \* bound: requests
    MaxFaults,      \* bound: failing calls and callbacks that stop
    None

(* A message has the request it answers (history), its number and what it    *)
(* says; a dump the interface it has come to, 0 when it has passed the last. *)
Message ==
    [type : {"link"}, req : Nat, seq : Nat, link : Links, progs : [Modes -> Nat]]
    \cup [type : {"done"}, req : Nat, seq : Nat]
    \cup [type : {"error"}, req : Nat, seq : Nat, error : BOOLEAN]
Dump == [req : Nat, seq : Nat, next : Nat]
Socket == [queue : Seq(Seq(Message)), dump : Dump \cup {None}]

(* Interfaces are numbered, and None is not what it stands in for.           *)
NetlinkAssumption ==
    /\ IsFiniteSet(Links) /\ Links = 1..Cardinality(Links) /\ IsFiniteSet(Modes)
    /\ "multi" \notin Modes
    /\ MaxTime \in Nat \ {0} /\ MaxRequests \in Nat /\ MaxFaults \in Nat
    /\ None \notin {"invseq", "error", "ok", "stopped", "multi"}
    /\ None \notin Dump /\ None \notin Socket

VARIABLES
    kernel,         \* the program of every interface in every mode, 0 for none
    now,            \* time(NULL)
    socket,         \* its queue of datagrams and the dump in progress, or None
    call,           \* the call that uses it, or None
    reply,          \* the last result on it, with its call, or None
    requests,       \* requests so far
    faults

nlvars == <<kernel, now, socket, call, reply, requests, faults>>

Sockets == Attaching \cup Dumping
Programs == 0..MaxRequests
Dumps == {"get_link", "get_xdp_info"}

(* What the kernel puts into a message.                                      *)
LinkMsg(d, i) == [type |-> "link", req |-> d.req, seq |-> d.seq, link |-> i, progs |-> kernel[i]]
DoneMsg(d) == [type |-> "done", req |-> d.req, seq |-> d.seq]
ErrorMsg(r, s, e) == [type |-> "error", req |-> r, seq |-> s, error |-> e]
Multi(m) == m.type # "error"

TypeOK ==
    /\ kernel \in [Links -> [Modes -> Programs]]
    /\ now \in 1..MaxTime
    /\ \A s \in Sockets :
        /\ socket[s] # None => /\ socket[s] \in Socket
                               /\ socket[s].dump # None => socket[s].dump.next \in Links \cup {0}
                               /\ Len(socket[s].queue) <= 2 * MaxRequests
        /\ call[s] # None => /\ socket[s] # None
                             /\ call[s].op \in Dumps \cup {"set"}
                             /\ call[s].seq \in 0..MaxTime
        /\ reply[s] # None => reply[s].ret \in {"ok", "error", "failed", "stopped", "invseq"}
    /\ requests \in 0..MaxRequests /\ faults \in 0..MaxFaults

Init ==
    /\ kernel = [i \in Links |-> [m \in Modes |-> 0]]
    /\ now = 1
    /\ socket = [s \in Sockets |-> None]
    /\ call = [s \in Sockets |-> None]
    /\ reply = [s \in Sockets |-> None]
    /\ requests = 0 /\ faults = 0

Fault == faults < MaxFaults /\ faults' = faults + 1
Request == requests < MaxRequests /\ requests' = requests + 1

-----------------------------------------------------------------------------
(* The kernel, as the calls use it.                                          *)

(* The next datagram of a dump: some interfaces, or the end.                 *)
Datagrams(d) ==
    IF d.next \in Links
    THEN {[msgs |-> [k \in 1..n |-> LinkMsg(d, d.next + k - 1)],
           rest |-> IF d.next + n \in Links THEN [d EXCEPT !.next = @ + n] ELSE [d EXCEPT !.next = 0]] :
              n \in 1..(Cardinality(Links) - d.next + 1)}
    ELSE {[msgs |-> <<DoneMsg(d)>>, rest |-> None]}

(* A dump already running refuses a second one.                              *)
StartDump(s, r, q) ==
    IF socket[s].dump # None
    THEN socket' = [socket EXCEPT ![s].queue = Append(@, <<ErrorMsg(r, q, TRUE)>>)]
    ELSE \E g \in Datagrams([req |-> r, seq |-> q, next |-> 1]) :
            socket' = [socket EXCEPT ![s] = [queue |-> Append(@.queue, g.msgs), dump |-> g.rest]]

(* A program is put in its place unless an expected one is not there.        *)
Applies(i, m, expected) == expected = None \/ expected = kernel[i][m]

-----------------------------------------------------------------------------
(* libbpf_netlink_open: for a caller, who closes it too.                     *)
Opened == [queue |-> <<>>, dump |-> None]
libbpf_netlink_open(s) ==
    /\ socket[s] = None
    /\ socket' = [socket EXCEPT ![s] = Opened]
    /\ reply' = [reply EXCEPT ![s] = None]
    /\ UNCHANGED <<kernel, now, call, requests, faults>>

CloseSocket(s) ==
    /\ socket[s] # None /\ call[s] = None
    /\ socket' = [socket EXCEPT ![s] = None]
    /\ reply' = [reply EXCEPT ![s] = None]
    /\ UNCHANGED <<kernel, now, call, requests, faults>>

(* A call begins; own says that it opened the socket itself.                 *)
Calling(op, own, q, r, s) ==
    [op |-> op, own |-> own, seq |-> q, req |-> r, link |-> 0, mode |-> None,
     info |-> [attach_mode |-> None, prog_id |-> 0, ids |-> [n \in Modes |-> 0]],
     heard |-> <<>>, had |-> {}, applied |-> FALSE,
     clean |-> /\ \A k \in 1..Len(s.queue) : \A i \in 1..Len(s.queue[k]) : s.queue[k][i].seq # q
               /\ s.dump # None => s.dump.seq # q]

(* libbpf_nl_get_link, _class, _qdisc and _filter.                           *)
libbpf_nl_get(s) ==
    /\ socket[s] # None /\ call[s] = None /\ Request
    /\ call' = [call EXCEPT ![s] = Calling("get_link", FALSE, now, requests', socket[s])]
    /\ StartDump(s, requests', now)
    /\ reply' = [reply EXCEPT ![s] = None]
    /\ UNCHANGED <<kernel, now, faults>>

(* What a query could truthfully answer (history).                           *)
Witnessed(c, k) ==
    IF c = None \/ c.op # "get_xdp_info" \/ c.link = 0 THEN c
    ELSE [c EXCEPT !.had = @ \cup {k[c.link]}]

(* The whole sequence up to send is the calling thread's own: what it opens  *)
(* nobody else sees.                                                         *)
bpf_set_link_xdp_fd(s) ==
    /\ socket[s] = None
    /\ \/ /\ Request
          /\ \E i \in Links, m \in Modes, p \in {0, requests'} : \E e \in {None, 0, kernel[i][m]} :
                LET done == Applies(i, m, e)
                    changed == IF done THEN [kernel EXCEPT ![i][m] = p] ELSE kernel
                IN /\ kernel' = changed
                   /\ call' = [t \in Sockets |->
                        IF t = s THEN [Calling("set", TRUE, 1, requests', Opened) EXCEPT
                                        !.link = i, !.mode = m, !.applied = done]
                        ELSE Witnessed(call[t], changed)]
                   /\ socket' = [socket EXCEPT ![s] =
                        [Opened EXCEPT !.queue = <<<<ErrorMsg(requests', 1, ~done)>>>>]]
          /\ reply' = [reply EXCEPT ![s] = None]
          /\ UNCHANGED <<now, faults>>
       \/ /\ Fault
          /\ reply' = [reply EXCEPT ![s] =
                [ret |-> "failed", call |-> Calling("set", TRUE, 1, 0, Opened)]]
          /\ UNCHANGED <<kernel, now, socket, call, requests>>

bpf_get_link_xdp_info(s) ==
    /\ socket[s] = None /\ Request
    /\ \E i \in Links \cup {0}, m \in Modes \cup {None}, g \in Datagrams([req |-> requests', seq |-> now, next |-> 1]) :
        /\ call' = [call EXCEPT ![s] = [Calling("get_xdp_info", TRUE, now, requests', Opened) EXCEPT
                        !.link = i, !.mode = m,
                        !.had = IF i = 0 THEN {} ELSE {kernel[i]}]]
        /\ socket' = [socket EXCEPT ![s] = [queue |-> <<g.msgs>>, dump |-> g.rest]]
    /\ reply' = [reply EXCEPT ![s] = None]
    /\ UNCHANGED <<kernel, now, faults>>

(* get_xdp_info: the interface asked for, or any for 0, later ones over      *)
(* earlier ones field by field; one without a program only says so.  The     *)
(* kernel puts IFLA_XDP with IFLA_XDP_ATTACHED into every message about a    *)
(* link, and without a policy libbpf_nla_parse_nested does not fail          *)
(* (nlattr.c:107-139), so that the returns for their absence are not taken.  *)
Attached(p) == {m \in Modes : p[m] # 0}
AttachMode(p) == IF Cardinality(Attached(p)) > 1 THEN "multi" ELSE CHOOSE m \in Attached(p) : TRUE
get_xdp_info(c, m) ==
    IF c.link # 0 /\ c.link # m.link THEN c
    ELSE IF Attached(m.progs) = {} THEN [c EXCEPT !.info = [@ EXCEPT !.attach_mode = None]]
    ELSE LET mode == AttachMode(m.progs)
         IN [c EXCEPT !.info = [
                attach_mode |-> mode,
                prog_id |-> IF mode = "multi" THEN @.prog_id ELSE m.progs[mode],
                ids |-> [n \in Modes |-> IF m.progs[n] # 0 THEN m.progs[n] ELSE @.ids[n]]]]

get_xdp_id(info, mode) ==
    IF mode # None THEN info.ids[mode]
    ELSE IF info.attach_mode = "multi" THEN 0 ELSE info.prog_id

(* A mutant: answers of other requests are accepted.                         *)
EndsAnySeq(c, m, stop) ==
    CASE m.type = "error" /\ m.error -> "error"
      [] m.type = "done" -> "ok"
      [] m.type = "link" /\ stop -> "stopped"
      [] OTHER -> None

(* What the loop of bpf_netlink_recv makes of the messages of a datagram:    *)
(* it stops at the first that ends the call.                                 *)
Ends(c, m, stop) ==
    IF m.seq # c.seq THEN "invseq"
    ELSE CASE m.type = "error" /\ m.error -> "error"
           [] m.type = "done" -> "ok"
           [] m.type = "link" /\ stop -> "stopped"
           [] OTHER -> None
Heard(c, m) ==
    IF m.type # "link" THEN c
    ELSE [(IF c.op = "get_xdp_info" THEN get_xdp_info(c, m) ELSE c) EXCEPT
            !.heard = Append(@, m)]
Upto(c, msgs) ==
    LET upto[n \in 0..Len(msgs)] == IF n = 0 THEN c ELSE Heard(upto[n - 1], msgs[n])
    IN  upto

(* The datagram read up to message n, the ending at n, or the end of it all  *)
(* when no message says that more follow.                                    *)
Return(s, ret, c) ==
    /\ reply' = [reply EXCEPT ![s] = [ret |-> ret, call |-> c]]
    /\ call' = [call EXCEPT ![s] = None]

bpf_netlink_recv(s) ==
    /\ call[s] # None /\ socket[s].queue # <<>>
    /\ LET msgs == Head(socket[s].queue)
           c == call[s]
           upto == Upto(c, msgs)
           Ending(n, stop) == Ends(c, msgs[n], stop)
           more == IF socket[s].dump = None THEN {[msgs |-> <<>>, rest |-> None]}
                   ELSE Datagrams(socket[s].dump)
       IN \E g \in more :
          LET left == Tail(socket[s].queue) \o (IF g.msgs = <<>> THEN <<>> ELSE <<g.msgs>>)
              Kept(own) == [socket EXCEPT ![s] = IF own THEN None
                                ELSE [queue |-> left, dump |-> g.rest]]
          IN \/ \E n \in 1..Len(msgs), stop \in BOOLEAN :
                    /\ Ending(n, stop) # None
                    /\ \A k \in 1..(n - 1) : Ending(k, FALSE) = None
                    /\ IF stop THEN Ending(n, FALSE) = None /\ c.op = "get_link" /\ Fault
                       ELSE UNCHANGED faults
                    /\ Return(s, Ending(n, stop), upto[IF stop THEN n ELSE n - 1])
                    /\ socket' = Kept(c.own)
             \/ /\ \A k \in 1..Len(msgs) : Ending(k, FALSE) = None
                /\ IF \E k \in 1..Len(msgs) : Multi(msgs[k])
                   THEN /\ call' = [call EXCEPT ![s] = upto[Len(msgs)]]
                        /\ socket' = Kept(FALSE)
                        /\ UNCHANGED reply
                   ELSE Return(s, "ok", upto[Len(msgs)]) /\ socket' = Kept(c.own)
                /\ UNCHANGED faults
    /\ UNCHANGED <<kernel, now, requests>>

(* recv fails: what the kernel sent stays in the socket of a caller.         *)
RecvFails(s) ==
    /\ call[s] # None /\ Fault
    /\ Return(s, "failed", call[s])
    /\ socket' = [socket EXCEPT ![s] = IF call[s].own THEN None ELSE @]
    /\ UNCHANGED <<kernel, now, requests>>

Tick ==
    /\ now < MaxTime /\ now' = now + 1
    /\ UNCHANGED <<kernel, socket, call, reply, requests, faults>>

Next ==
    \/ \E s \in Dumping :
        \/ libbpf_netlink_open(s) \/ CloseSocket(s) \/ libbpf_nl_get(s)
        \/ bpf_get_link_xdp_info(s)
    \/ \E s \in Attaching : bpf_set_link_xdp_fd(s)
    \/ \E s \in Sockets : bpf_netlink_recv(s) \/ RecvFails(s)
    \/ Tick

-----------------------------------------------------------------------------
(* Properties.                                                               *)

(* A callback sees messages of another request only on a socket its caller   *)
(* kept, when an earlier dump of the same second was left unread             *)
(* (bpf_netlink_recv: nlmsg_seq, time(NULL)).                                *)
DumpsOwn ==
    \A s \in Sockets : LET Own(c) == c.clean => \A n \in 1..Len(c.heard) : c.heard[n].req = c.req
                       IN /\ call[s] # None => Own(call[s])
                          /\ reply[s] # None => Own(reply[s].call)

(* A dump that returns 0 has given every interface to the callback, once and *)
(* in order (the loop over datagrams until NLMSG_DONE).                      *)
DumpsWhole ==
    \A s \in Sockets : (reply[s] # None /\ reply[s].ret = "ok") =>
        LET c == reply[s].call
        IN (c.op \in Dumps /\ c.clean) =>
                /\ Len(c.heard) = Cardinality(Links)
                /\ \A n \in 1..Len(c.heard) : c.heard[n].link = n

(* bpf_get_link_xdp_id of one interface answers what that interface had at   *)
(* some moment of the call, whatever changes during the dump.                *)
Truth(p, mode) ==
    IF mode # None THEN p[mode]
    ELSE IF Cardinality(Attached(p)) = 1 THEN p[AttachMode(p)] ELSE 0
QueryTrue ==
    \A s \in Sockets : (reply[s] # None /\ reply[s].ret = "ok") =>
        LET c == reply[s].call
        IN (c.op = "get_xdp_info" /\ c.link # 0) =>
                get_xdp_id(c.info, c.mode) \in {Truth(p, c.mode) : p \in c.had}

(* bpf_set_link_xdp_fd tells its caller what the kernel did, unless a system *)
(* call failed.                                                              *)
SetTrue ==
    \A s \in Sockets : reply[s] # None =>
        LET c == reply[s].call
        IN c.op = "set" => /\ reply[s].ret = "ok" => c.applied
                           /\ reply[s].ret = "error" => ~c.applied
                           /\ reply[s].ret # "invseq"

NetlinkSafe == DumpsOwn /\ DumpsWhole /\ QueryTrue /\ SetTrue
=============================================================================
