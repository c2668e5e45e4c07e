------------------------------ MODULE ProgramLoad ------------------------------
(* Loading the programs of an object (libbpf.c, bpf.c): what the kernel      *)
(* supports is probed, each program is loaded once per instance, and a load  *)
(* that fails is tried again without what an older kernel does not know,     *)
(* with a log, with a larger log, and as another type for the error message. *)
EXTENDS Integers, Sequences, FiniteSets

CONSTANTS
    ProgramSets,    \* the objects: sequences of programs
    Kernels,        \* the kernels
    Features,       \* what bpf_object__probe_caps asks for
    LogLevels,      \* log_level of bpf_object_load_attr
    MaxInsns,       \* BPF_MAXINSNS
    MaxLog,         \* bound: units of memory malloc gives for a log
    MaxFaults,      \* bound: failing allocations, probes, and EAGAINs
    None, Garbage   \* Garbage: an uninitialized descriptor

(* A program: its verdict ("ok", "rejected"), whether it would load as a     *)
(* kprobe, its attach target, the instances of its preprocessor ("load",     *)
(* "skip" or "fails"), what its section says of its attach type, the records *)
(* of func_info and line_info ("short", "long"), and how many instructions.  *)
(* A kernel: the features it has, the longest records it knows, the length   *)
(* of the log of a program and the largest log it accepts.                   *)

VARIABLES
    kernel, programs, log_level,
    caps,           \* what the probes found
    pc,
    cur, inst,      \* program and instance being loaded
    attr,           \* the attributes of the system call being made
    buf,            \* size of log_buf, 0 for NULL
    logged,         \* log_buf[0] is not 0
    errno,
    fds,            \* instances.fds of each program
    open,           \* descriptors of programs: what was loaded
    ret,            \* what load_program has for its caller
    results,        \* what bpf_program__load returned, per program
    faults

plvars == <<kernel, programs, log_level, caps, pc, cur, inst, attr, buf, logged, errno,
            fds, open, ret, results, faults>>

Errors == {"EPERM", "E2BIG", "EINVAL", "EACCES", "ENOSPC", "ENOMEM", "ENOENT", "EAGAIN"}
Results == Errors \cup {"ok", "VERIFY", "PROG2BIG", "PROGTYPE", "INTERNAL", "prep"}

TypeOK ==
    /\ caps \subseteq Features
    /\ pc \in {"probe", "next", "instance", "syscall", "failed", "kprobe", "stored", "done"}
    /\ cur \in 1..(Len(programs) + 1)
    /\ buf \in 0..MaxLog /\ errno \in Errors \cup {"0"}
    /\ \A n \in DOMAIN fds : \A i \in DOMAIN fds[n] : fds[n][i] \in open \cup {None, Garbage}
    /\ ret \in Results \cup {None}
    /\ faults \in 0..MaxFaults

Init ==
    /\ kernel \in Kernels /\ programs \in ProgramSets /\ log_level \in LogLevels
    /\ caps = {} /\ pc = "probe" /\ cur = 1 /\ inst = 1
    /\ attr = None /\ buf = 0 /\ logged = FALSE
    /\ errno \in {"0", "ENOENT"}
    /\ fds = [n \in DOMAIN programs |-> <<>>]
    /\ open = {} /\ ret = None /\ results = <<>> /\ faults = 0

Fault == faults < MaxFaults /\ faults' = faults + 1
given == <<kernel, programs, log_level>>
prog == programs[cur]

-----------------------------------------------------------------------------
(* bpf_object__probe_caps: each probe makes what needs the feature, and      *)
(* closes it.  Only the answer is left.                                      *)
Probe(found) ==
    /\ pc = "probe" /\ pc' = "next"
    /\ caps' = found
    /\ errno' = IF found = Features THEN errno ELSE "EINVAL"
    /\ UNCHANGED <<given, cur, inst, attr, buf, logged, fds, open, ret, results>>

bpf_object__probe_caps ==
    \/ Probe(IF "basic" \in kernel.has THEN kernel.has \cap Features ELSE {}) /\ UNCHANGED faults
    \/ \E f \in kernel.has \cap Features : Probe((kernel.has \cap Features) \ {f}) /\ Fault

-----------------------------------------------------------------------------
(* bpf_object__load_progs: programs that only hold functions are left out.   *)
NextProgram ==
    /\ pc = "next"
    /\ IF cur > Len(programs) THEN pc' = "done" /\ UNCHANGED <<cur, inst, fds, results>>
       ELSE \/ /\ prog.storage
               /\ cur' = cur + 1 /\ results' = Append(results, "skipped")
               /\ UNCHANGED <<pc, inst, fds>>
            \/ /\ ~prog.storage /\ prog.target = "absent"
               /\ results' = Append(results, "ENOENT") /\ pc' = "done"
               /\ UNCHANGED <<cur, inst, fds>>
            \/ /\ ~prog.storage /\ prog.target # "absent"
               /\ fds' = [fds EXCEPT ![cur] = [i \in DOMAIN prog.instances |-> None]]
               /\ inst' = 1 /\ pc' = "instance"
               /\ UNCHANGED <<cur, results>>
    /\ UNCHANGED <<given, caps, attr, buf, logged, errno, open, ret, faults>>

(* bpf_program__load: the instances in order; the first failure ends it, and *)
(* bpf_object__load_progs with it.                                           *)
ProgramDone(r) ==
    /\ results' = Append(results, r)
    /\ IF r = "ok" THEN cur' = cur + 1 /\ pc' = "next" ELSE pc' = "done" /\ UNCHANGED cur

Instance ==
    /\ pc = "instance"
    /\ \/ /\ inst > Len(prog.instances)
          /\ ProgramDone("ok")
          /\ UNCHANGED <<inst, attr, buf, logged, ret>>
       \/ /\ inst <= Len(prog.instances) /\ prog.instances[inst] = "fails"
          /\ ProgramDone("prep")
          /\ UNCHANGED <<inst, attr, buf, logged, ret>>
       \/ /\ inst <= Len(prog.instances) /\ prog.instances[inst] = "skip"
          /\ inst' = inst + 1
          /\ UNCHANGED <<pc, cur, attr, buf, logged, ret, results>>
       \/ /\ inst <= Len(prog.instances) /\ prog.instances[inst] = "load"
          /\ attr' = [type |-> prog.type,
                      exp |-> prog.exp /\ ~("exp_attach_type" \notin caps /\ prog.optional),
                      name |-> "name" \in caps,
                      finfo |-> prog.finfo, linfo |-> prog.linfo, level |-> log_level]
          /\ buf' = 0 /\ logged' = FALSE /\ ret' = None
          /\ pc' = "syscall"
          /\ UNCHANGED <<inst, cur, results>>
    /\ UNCHANGED <<given, caps, errno, fds, open, faults>>

-----------------------------------------------------------------------------
(* BPF_PROG_LOAD.                                                            *)
LogFull == attr.level # 0 /\ prog.log > buf
Verdict ==
    IF attr.type = prog.type THEN prog.verdict ELSE IF prog.kprobe THEN "ok" ELSE "rejected"
Answer ==
    CASE "basic" \notin kernel.has -> "EPERM"
      [] (attr.name /\ "name" \notin kernel.has)
         \/ (attr.exp /\ "exp_attach_type" \notin kernel.has) -> "E2BIG"
      [] prog.insns > MaxInsns -> "E2BIG"
      [] attr.level # 0 /\ buf > kernel.log_max -> "EINVAL"
      [] attr.finfo = "long" /\ ~kernel.long_finfo -> "E2BIG"
      [] attr.linfo = "long" /\ ~kernel.long_linfo -> "E2BIG"
      [] LogFull -> "ENOSPC"
      [] Verdict = "rejected" -> "EACCES"
      [] OTHER -> "ok"
Verified == Answer \in {"ENOSPC", "EACCES", "ok"}
Hint(field) ==
    /\ Answer = "E2BIG" /\ prog.insns <= MaxInsns
    /\ ~(attr.name /\ "name" \notin kernel.has) /\ ~(attr.exp /\ "exp_attach_type" \notin kernel.has)
    /\ field = IF attr.finfo = "long" /\ ~kernel.long_finfo THEN "finfo" ELSE "linfo"

Loaded(t) == [program |-> cur, instance |-> inst, type |-> t]

(* bpf_load_program_xattr refuses a level without a log, and levels that do  *)
(* not exist, without touching errno.                                        *)
Refuses(level, size) == level > 7 \/ (level # 0 /\ size = 0)

(* What bpf_load_program_xattr does with a failed call: it sets the bytes    *)
(* the kernel does not understand to zero, and if that is not it makes the   *)
(* call again with a log.                                                    *)
Corrected(field) == [attr EXCEPT ![field] = "zeroed"]

bpf_load_program_xattr ==
    /\ pc = "syscall"
    /\ \/ /\ attr.level = log_level /\ Refuses(log_level, buf)
          /\ pc' = "failed"
          /\ UNCHANGED <<attr, logged, errno, open, ret, faults>>
       \/ /\ ~(attr.level = log_level /\ Refuses(log_level, buf))
          /\ \/ /\ Answer = "ok"
                /\ open' = open \cup {Loaded(attr.type)}
                /\ ret' = "ok" /\ pc' = "stored"
                /\ logged' = (logged \/ attr.level # 0)
                /\ UNCHANGED <<attr, errno, faults>>
             \/ /\ Answer # "ok"
                /\ errno' = Answer
                /\ logged' = (logged \/ (attr.level # 0 /\ Verified))
                /\ \/ /\ \E field \in {"finfo", "linfo"} : Hint(field) /\ attr' = Corrected(field)
                      /\ UNCHANGED <<pc, faults>>
                   \/ /\ ~\E field \in {"finfo", "linfo"} : Hint(field)
                      /\ IF attr.level = 0 /\ buf # 0
                         THEN attr' = [attr EXCEPT !.level = 1] /\ UNCHANGED pc
                         ELSE pc' = "failed" /\ UNCHANGED attr
                      /\ UNCHANGED faults
                /\ UNCHANGED <<open, ret>>
             \/ /\ \E field \in {"finfo", "linfo"} : Hint(field)
                /\ Fault /\ errno' = "ENOMEM" /\ pc' = "failed"
                /\ UNCHANGED <<attr, logged, open, ret>>
             \/ /\ Fault                        \* EAGAIN: the call is made again
                /\ errno' = "EAGAIN" /\ UNCHANGED <<pc, attr, logged, open, ret>>
    /\ UNCHANGED <<given, caps, cur, inst, buf, fds, results>>

(* Mutants: the log stays as it is; a full log is not tried again.           *)
LargerSame == IF buf = 0 THEN 1 ELSE buf
RetriesOnce == buf = 0

(* load_program: without a log, or when the log was full, once more with a   *)
(* larger one.                                                               *)
Larger == IF buf = 0 THEN 1 ELSE 2 * buf
Retries == buf = 0 \/ errno = "ENOSPC"

RetryLoad ==
    /\ pc = "failed" /\ Retries
    /\ \/ /\ Larger <= MaxLog
          /\ buf' = Larger /\ logged' = FALSE
          /\ attr' = [attr EXCEPT !.level = log_level, !.finfo = prog.finfo, !.linfo = prog.linfo]
          /\ pc' = "syscall" /\ UNCHANGED <<errno, results, cur, faults>>
       \/ /\ IF Larger > MaxLog THEN UNCHANGED faults ELSE Fault
          /\ errno' = "ENOMEM" /\ ProgramDone("ENOMEM")
          /\ UNCHANGED <<buf, logged, attr>>
    /\ UNCHANGED <<given, caps, inst, fds, open, ret>>

(* The error is errno, made into a hint where there is one: a log, as many   *)
(* instructions as are allowed or more, or else a load as a kprobe.  An      *)
(* errno of 0 is taken for success.                                          *)
Failure ==
    /\ pc = "failed" /\ ~Retries
    /\ \/ /\ logged
          /\ ret' = "VERIFY" /\ pc' = "stored" /\ UNCHANGED <<attr, errno>>
       \/ /\ ~logged /\ prog.insns >= MaxInsns
          /\ ret' = "PROG2BIG" /\ pc' = "stored" /\ UNCHANGED <<attr, errno>>
       \/ /\ ~logged /\ prog.insns < MaxInsns /\ prog.type = "kprobe"
          /\ ret' = (IF errno = "0" THEN "ok" ELSE errno) /\ pc' = "stored"
          /\ UNCHANGED <<attr, errno>>
       \/ /\ ~logged /\ prog.insns < MaxInsns /\ prog.type # "kprobe"
          /\ ret' = (IF errno = "0" THEN "ok" ELSE errno)
          /\ attr' = [attr EXCEPT !.type = "kprobe", !.exp = FALSE, !.level = log_level,
                                  !.finfo = prog.finfo, !.linfo = prog.linfo]
          /\ pc' = "kprobe" /\ UNCHANGED errno
    /\ UNCHANGED <<given, caps, cur, inst, buf, logged, fds, open, results, faults>>

(* The program is loaded as a kprobe, without a log, and closed.             *)
AsKprobe ==
    /\ pc = "kprobe" /\ pc' = "stored"
    /\ IF ~Refuses(log_level, 0) /\ Verdict = "ok" /\ "basic" \in kernel.has
          /\ ~(attr.name /\ "name" \notin kernel.has)
       THEN ret' = "PROGTYPE" ELSE UNCHANGED ret
    /\ UNCHANGED <<given, caps, cur, inst, attr, buf, logged, errno, fds, open, results, faults>>

(* Back in bpf_program__load.                                                *)
Stored ==
    /\ pc = "stored"
    /\ IF ret = "ok"
       THEN /\ fds' = [fds EXCEPT ![cur][inst] =
                            IF Loaded(prog.type) \in open THEN Loaded(prog.type) ELSE Garbage]
            /\ inst' = inst + 1 /\ pc' = "instance" /\ UNCHANGED <<cur, results>>
       ELSE ProgramDone(ret) /\ UNCHANGED <<fds, inst>>
    /\ UNCHANGED <<given, caps, attr, buf, logged, errno, open, ret, faults>>

Next ==
    \/ bpf_object__probe_caps \/ NextProgram \/ Instance
    \/ bpf_load_program_xattr \/ RetryLoad \/ Failure \/ AsKprobe \/ Stored

Fairness == WF_plvars(Next)

-----------------------------------------------------------------------------
(* Properties.                                                               *)

(* A program whose load returned 0 has a descriptor of its own for every     *)
(* instance that was not skipped, and nothing else stays open (load_program, *)
(* bpf_program__load; levels above 7 are refused with whatever errno holds). *)
LoadedIsReal ==
    /\ \A n \in 1..Len(results) : (results[n] = "ok" /\ log_level <= 7) =>
            \A i \in DOMAIN programs[n].instances :
                programs[n].instances[i] = "load" =>
                    fds[n][i] = [program |-> n, instance |-> i, type |-> programs[n].type]
    /\ pc = "done" => \A d \in open : fds[d.program][d.instance] = d

(* An error says what happened: VERIFY that the verifier has rejected the    *)
(* program, PROGTYPE that it loads as a kprobe but not as what it is; what   *)
(* the kernel never read because it is too large is called that, unless      *)
(* memory runs out.  (A program of just MaxInsns instructions is called too  *)
(* large whatever else is wrong with it.)                                    *)
ErrorsTrue ==
    \A n \in 1..Len(results) :
        /\ results[n] = "VERIFY" => programs[n].verdict = "rejected"
        /\ results[n] = "PROGTYPE" => programs[n].kprobe /\ programs[n].insns <= MaxInsns
        /\ programs[n].insns > MaxInsns =>
              results[n] \in {"PROG2BIG", "ENOMEM", "ENOENT", "prep", "skipped"}

(* What the verifier accepts is loaded on every kernel that knows what the   *)
(* program needs, however much else it does not know, unless memory runs out *)
(* (the probes, is_exp_attach_type_optional, alloc_zero_tailing_info).       *)
Supported(p) ==
    /\ "basic" \in kernel.has
    /\ p.exp /\ ~p.optional => "exp_attach_type" \in kernel.has
    /\ p.verdict = "ok" /\ p.insns <= MaxInsns /\ p.target # "absent"
    /\ \A i \in DOMAIN p.instances : p.instances[i] # "fails"
    /\ log_level = 0 \/ (log_level <= 7 /\ p.log <= kernel.log_max)
AcceptedLoads ==
    \A n \in 1..Len(results) :
        Supported(programs[n]) /\ faults = 0 => results[n] \in {"ok", "skipped"}

LoadsRight == LoadedIsReal /\ ErrorsTrue /\ AcceptedLoads

(* The retries end (the log grows until it fits, is refused or cannot be     *)
(* allocated).                                                               *)
LoadEnds == <>(pc = "done")
=============================================================================
