----------------------------- MODULE SpanTracker -----------------------------
(* The tracing probes of framework/ebpf/internal/include: a probe on the     *)
(* entry of a Go function starts a span (start_span.h, sampling.h), looks    *)
(* for its parent along the chain of contexts and registers it               *)
(* (go_context.h); a probe on the return reports and unregisters it          *)
(* (uprobe.h).  Goroutines run on different CPUs, so that every access to a  *)
(* BPF map is a step.  The entry probes themselves are not in this tree;     *)
(* they call the helpers in the order modelled here.                         *)
EXTENDS Integers, Sequences, FiniteSets, SequencesExt

CONSTANTS
    Goroutines,
    Probes,             \* probed functions, each with its own uprobe_context_map
    Contexts, Parent,   \* context.Context values, and the parent each one wraps
    Samplers,           \* contents of samplers_config_map to consider
    LowIds,             \* the trace ids below a ratio sampler's upper bound
    is_registers_abi,
    MaxDistance,        \* MAX_DISTANCE
    MaxTracked,         \* MAX_CONCURRENT_SPANS
    MaxSpans,           \* bound: spans in a behaviour
    None

VARIABLES
    sampler,            \* the configuration in samplers_config_map
    go_context_to_sc,   \* context -> span context
    tracked_spans_by_sc,    \* span context -> context
    uprobe_context,     \* probe, key -> the event [sc, psc]
    calls,              \* goroutine -> the probed calls it is in, innermost first
    at,                 \* goroutine -> where its probe is
    reg,                \* goroutine -> local variables of its probe
    spans,              \* spans started so far, with their parents (history)
    leaving,            \* spans whose return probe has begun (history)
    leftover            \* contexts whose entry the code leaves behind (history)

stvars == <<sampler, go_context_to_sc, tracked_spans_by_sc, uprobe_context, calls,
            at, reg, spans, leaving, leftover>>

SpanContext == [id : 1..MaxSpans, trace : 1..MaxSpans, sampled : BOOLEAN]
Keys == Goroutines \cup Contexts
Clear == [cur |-> None, steps |-> 0, sc |-> None, psc |-> None, parent_ctx |-> None]

(* Arguments are passed in registers, where the key of an event is its       *)
(* goroutine; a parent based sampler follows the parent; None is not what it *)
(* stands in for.                                                            *)
AnySpan == [id : Nat, trace : Nat, sampled : BOOLEAN]
SpanAssumption ==
    /\ is_registers_abi
    /\ Parent \in [Contexts -> Contexts \cup {None}] /\ None \notin Contexts
    /\ MaxDistance \in Nat /\ MaxTracked \in Nat /\ MaxSpans \in Nat
    /\ \A s \in Samplers : s.type = "PARENT_BASED" =>
           /\ s.local_parent_sampled.type = "ALWAYS_ON"
           /\ s.local_parent_not_sampled.type = "ALWAYS_OFF"
    /\ None \notin AnySpan /\ None \notin [sc : AnySpan, psc : AnySpan \cup {None}]

TypeOK ==
    /\ sampler \in Samplers
    /\ go_context_to_sc \in [Contexts -> SpanContext \cup {None}]
    /\ DOMAIN tracked_spans_by_sc \subseteq SpanContext
    /\ Range(tracked_spans_by_sc) \subseteq Contexts
    /\ DOMAIN uprobe_context = Probes \X Keys
    /\ at \in [Goroutines -> {"code", "walk", "read", "event", "track", "index",
                              "found", "stop", "parent", "context", "untrack", "forget"}]
    /\ Cardinality(spans) <= MaxSpans
    /\ leftover \subseteq Contexts

Init ==
    /\ sampler \in Samplers
    /\ go_context_to_sc = [c \in Contexts |-> None]
    /\ tracked_spans_by_sc = <<>>
    /\ uprobe_context = [pk \in Probes \X Keys |-> None]
    /\ calls = [g \in Goroutines |-> <<>>]
    /\ at = [g \in Goroutines |-> "code"]
    /\ reg = [g \in Goroutines |-> Clear]
    /\ spans = {}
    /\ leaving = {}
    /\ leftover = {}

-----------------------------------------------------------------------------
(* get_consistent_key *)
get_consistent_key(g, ctx) == IF is_registers_abi THEN g ELSE ctx
PlaceOf(g) == LET call == Head(calls[g]) IN <<call.probe, get_consistent_key(g, call.ctx)>>
CtxOf(g) == Head(calls[g]).ctx

(* Hash maps with room for MaxTracked entries.                               *)
HasRoom(map, key) == key \in DOMAIN map \/ Cardinality(DOMAIN map) < MaxTracked
With(map, key, value) == [k \in DOMAIN map \cup {key} |-> IF k = key THEN value ELSE map[k]]
Without(map, key) == [k \in DOMAIN map \ {key} |-> map[k]]
ContextsIn == {c \in Contexts : go_context_to_sc[c] # None}
ContextHasRoom(c) == c \in ContextsIn \/ Cardinality(ContextsIn) < MaxTracked

(* should_sample: the active sampler, which decides by itself or, if it is   *)
(* parent based, lets another one decide; that one may not be parent based.  *)
decides(s, trace) ==
    CASE s.type = "ALWAYS_ON" -> TRUE
      [] s.type = "TRACE_ID_RATIO" -> trace \in LowIds
      [] OTHER -> FALSE
parentBased(s, psc) ==
    CASE psc = None -> s.root
      [] psc # None /\ psc.sampled -> s.local_parent_sampled
      [] OTHER -> s.local_parent_not_sampled
should_sample(psc, trace) ==
    IF sampler.type = "PARENT_BASED" THEN decides(parentBased(sampler, psc), trace)
    ELSE decides(sampler, trace)

(* get_span_context_from_parent and get_root_span_context: a new span id (the *)
(* number of the span), and the trace of the parent or a new trace id.       *)
OwnTrace(id, psc) == id
TraceOf(id, psc) == IF psc = None THEN id ELSE psc.trace

-----------------------------------------------------------------------------
Goto(g, step) == at' = [at EXCEPT ![g] = step]

(* A goroutine calls a probed function: the entry probe begins.              *)
(* A probed function is not called from within itself.                       *)
Call(g) ==
    /\ at[g] = "code"
    /\ \E p \in Probes, c \in Contexts :
        /\ \A i \in 1..Len(calls[g]) : calls[g][i].probe # p
        /\ Cardinality(spans) + Cardinality({h \in Goroutines : at[h] \in {"walk", "read"}})
               < MaxSpans
        /\ calls' = [calls EXCEPT ![g] = <<[probe |-> p, ctx |-> c]>> \o @]
        /\ reg' = [reg EXCEPT ![g] = [Clear EXCEPT !.cur = c]]
    /\ Goto(g, "walk")
    /\ UNCHANGED <<sampler, go_context_to_sc, tracked_spans_by_sc, uprobe_context,
                   spans, leaving, leftover>>

(* start_span, once it is known whether there is a parent.                   *)
StartSpan(g, psc) ==
    LET id == Cardinality(spans) + 1
        trace == TraceOf(id, psc)
        sc == [id |-> id, trace |-> trace, sampled |-> should_sample(psc, trace)]
    IN  /\ reg' = [reg EXCEPT ![g].sc = sc, ![g].psc = psc]
        /\ spans' = spans \cup {[sc |-> sc, psc |-> psc,
               via |-> IF psc = None THEN None ELSE reg[g].cur,
               late |-> psc \in leaving /\ \A h \in Goroutines : reg[h].sc # psc]}
        /\ Goto(g, "event")

(* get_parent_go_context: one context of the chain is looked up.             *)
Walk(g) ==
    LET data == reg[g].cur
    IN  /\ at[g] = "walk"
        /\ IF data = None \/ reg[g].steps = MaxDistance
           THEN StartSpan(g, None)
           ELSE /\ UNCHANGED spans
                /\ IF go_context_to_sc[data] # None
                   THEN Goto(g, "read") /\ UNCHANGED reg
                   ELSE /\ reg' = [reg EXCEPT ![g].cur = Parent[data], ![g].steps = @ + 1]
                        /\ UNCHANGED at
        /\ UNCHANGED <<sampler, go_context_to_sc, tracked_spans_by_sc, uprobe_context,
                       calls, leaving, leftover>>

(* get_parent_span_context looks the context it found up a second time.      *)
ReadParent(g) ==
    /\ at[g] = "read"
    /\ StartSpan(g, go_context_to_sc[reg[g].cur])
    /\ UNCHANGED <<sampler, go_context_to_sc, tracked_spans_by_sc, uprobe_context,
                   calls, leaving, leftover>>

(* The entry probe stores its event.                                         *)
StoreEvent(g) ==
    /\ at[g] = "event"
    /\ uprobe_context' = [uprobe_context EXCEPT
           ![PlaceOf(g)] = [sc |-> reg[g].sc, psc |-> reg[g].psc]]
    /\ Goto(g, "track")
    /\ UNCHANGED <<sampler, go_context_to_sc, tracked_spans_by_sc, calls, reg, spans,
                   leaving, leftover>>

(* start_tracking_span: the context, and then, if that was possible, the     *)
(* span.  Nothing takes the first back when the second fails.                *)
TrackContext(g) ==
    /\ at[g] = "track"
    /\ IF ContextHasRoom(CtxOf(g))
       THEN /\ go_context_to_sc' = [go_context_to_sc EXCEPT ![CtxOf(g)] = reg[g].sc]
            /\ Goto(g, "index")
            /\ UNCHANGED reg
       ELSE /\ Goto(g, "code")
            /\ reg' = [reg EXCEPT ![g] = Clear]
            /\ UNCHANGED go_context_to_sc
    /\ UNCHANGED <<sampler, tracked_spans_by_sc, uprobe_context, calls, spans, leaving,
                   leftover>>
TrackSpan(g) ==
    /\ at[g] = "index"
    /\ IF HasRoom(tracked_spans_by_sc, reg[g].sc)
       THEN /\ tracked_spans_by_sc' = With(tracked_spans_by_sc, reg[g].sc, CtxOf(g))
            /\ UNCHANGED leftover
       ELSE /\ leftover' = leftover \cup {CtxOf(g)}
            /\ UNCHANGED tracked_spans_by_sc
    /\ Goto(g, "code")
    /\ reg' = [reg EXCEPT ![g] = Clear]
    /\ UNCHANGED <<sampler, go_context_to_sc, uprobe_context, calls, spans, leaving>>

-----------------------------------------------------------------------------
(* UPROBE_RETURN: the lookup of the event, and its output.                   *)
Return(g) ==
    LET event == uprobe_context[PlaceOf(g)]
    IN  /\ at[g] = "code"
        /\ calls[g] # <<>>
        /\ IF event = None
           THEN /\ calls' = [calls EXCEPT ![g] = Tail(@)]
                /\ UNCHANGED <<at, reg, leaving>>
           ELSE /\ Goto(g, "stop")
                /\ reg' = [reg EXCEPT ![g].sc = event.sc, ![g].psc = event.psc]
                /\ leaving' = leaving \cup {event.sc}
                /\ UNCHANGED calls
        /\ UNCHANGED <<sampler, go_context_to_sc, tracked_spans_by_sc, uprobe_context,
                       spans, leftover>>

(* stop_tracking_span: whether the span is tracked, ...                      *)
StopTracking(g) ==
    /\ at[g] = "stop"
    /\ Goto(g, IF reg[g].sc \in DOMAIN tracked_spans_by_sc THEN "parent" ELSE "forget")
    /\ UNCHANGED <<sampler, go_context_to_sc, tracked_spans_by_sc, uprobe_context,
                   calls, reg, spans, leaving, leftover>>

(* ... whether its parent is, ...                                            *)
LookupParent(g) ==
    /\ at[g] = "parent"
    /\ reg' = [reg EXCEPT ![g].parent_ctx =
           IF reg[g].psc \in DOMAIN tracked_spans_by_sc
           THEN tracked_spans_by_sc[reg[g].psc] ELSE None]
    /\ Goto(g, "context")
    /\ UNCHANGED <<sampler, go_context_to_sc, tracked_spans_by_sc, uprobe_context,
                   calls, spans, leaving, leftover>>

(* ... then the context is given back to the parent, or deleted if there is  *)
(* no parent or the parent has another context.  That test reads the values  *)
(* through bpf_probe_read_user, which cannot read the kernel's memory where  *)
(* the values are and leaves both variables 0: they are always equal.        *)
bpf_probe_read_user(ctx) == 0
ReleaseNever(g) == UNCHANGED go_context_to_sc
Release(g) ==
    LET ctx == tracked_spans_by_sc[reg[g].sc]
    IN  IF \/ reg[g].parent_ctx = None
           \/ bpf_probe_read_user(ctx) # bpf_probe_read_user(reg[g].parent_ctx)
        THEN go_context_to_sc' = [go_context_to_sc EXCEPT ![ctx] = None]
        ELSE go_context_to_sc' =
                 IF ContextHasRoom(ctx)
                 THEN [go_context_to_sc EXCEPT ![ctx] = reg[g].psc] ELSE go_context_to_sc
ReleaseContext(g) ==
    LET ctx == tracked_spans_by_sc[reg[g].sc]
    IN  /\ at[g] = "context"
        /\ Release(g)
        /\ leftover' = IF /\ reg[g].parent_ctx # None
                          /\ reg[g].parent_ctx # ctx \/ reg[g].psc \in leaving
                       THEN leftover \cup {ctx} ELSE leftover
        /\ Goto(g, "untrack")
        /\ UNCHANGED <<sampler, tracked_spans_by_sc, uprobe_context, calls, reg, spans,
                       leaving>>
Untrack(g) ==
    /\ at[g] = "untrack"
    /\ tracked_spans_by_sc' = Without(tracked_spans_by_sc, reg[g].sc)
    /\ Goto(g, "forget")
    /\ UNCHANGED <<sampler, go_context_to_sc, uprobe_context, calls, reg, spans,
                   leaving, leftover>>

(* The event is deleted, and the function returns.                           *)
Forget(g) == uprobe_context' = [uprobe_context EXCEPT ![PlaceOf(g)] = None]
ForgetEvent(g) ==
    /\ at[g] = "forget"
    /\ Forget(g)
    /\ calls' = [calls EXCEPT ![g] = Tail(@)]
    /\ reg' = [reg EXCEPT ![g] = Clear]
    /\ Goto(g, "code")
    /\ UNCHANGED <<sampler, go_context_to_sc, tracked_spans_by_sc, spans, leaving,
                   leftover>>

Next == \E g \in Goroutines :
    \/ Call(g) \/ Walk(g) \/ ReadParent(g) \/ StoreEvent(g) \/ TrackContext(g)
    \/ TrackSpan(g) \/ Return(g) \/ StopTracking(g) \/ LookupParent(g)
    \/ ReleaseContext(g) \/ Untrack(g) \/ ForgetEvent(g)
Spec == Init /\ [][Next]_stvars

-----------------------------------------------------------------------------
Quiet == \A g \in Goroutines : calls[g] = <<>>

(* When no probed call is under way, no span and no event is registered any  *)
(* more: each return finds the event of its own entry.                       *)
NoSpanLeft == Quiet =>
    tracked_spans_by_sc = <<>> /\ \A pk \in Probes \X Keys : uprobe_context[pk] = None

(* A context remains registered after all spans ended only for one of three  *)
(* reasons: a child had a parent with another context (the failed comparison *)
(* above), a child ended while its parent was ending, or tracked_spans_by_sc *)
(* was full.  In particular spans nested on one context leave nothing.       *)
ContextsLeftExplained == Quiet => ContextsIn \subseteq leftover

(* A span whose parent had already ended took it from such a leftover: the   *)
(* two lookups of the search and the steps of stop_tracking_span cannot hand *)
(* out an ended span in any other way.                                       *)
NoDeadParent == \A s \in spans : s.late => s.via \in leftover

(* A span belongs to the trace of its parent, and is sampled when the parent *)
(* is: no trace is reported in part, whatever the sampler, if the one that a *)
(* parent based sampler asks about a child does what the parent did.         *)
TraceIsWhole == \A s \in spans :
    s.psc # None => s.sc.trace = s.psc.trace /\ s.sc.sampled = s.psc.sampled
=============================================================================
