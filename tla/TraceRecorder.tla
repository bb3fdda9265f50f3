--------------------------- MODULE TraceRecorder ---------------------------
(***************************************************************************)
(* The execution trace (trace.py): a bounded log of events, the spans that *)
(* are open when they are emitted, counts of spans by name, the slow ones. *)
(*                                                                         *)
(* A span is its number.  Spans of generators need not close in the order  *)
(* they opened.  A duration is told apart as slow or not.                  *)
(***************************************************************************)
EXTENDS Integers, FiniteSets, SequencesExt

CONSTANTS
    Names,
    MaxEvents, MaxSlow,
    SpanEvents,    \* values of span_events
    Root,          \* no span
    MaxSpans, MaxEmitted \* bounds of the model

ConstantsAssumption ==
    /\ SpanEvents \subseteq BOOLEAN
    /\ MaxEvents \in Nat /\ MaxSlow \in Nat /\ MaxSpans \in Nat

VARIABLES
    spanEvents,
    events, dropped,
    stack,
    spans,         \* every span begun: its name and parent, and whether it is open
    metrics, slow,
    emitted        \* ghost: how often emit was called

vars == <<spanEvents, events, dropped, stack, spans, metrics, slow, emitted>>

Current == IF stack = <<>> THEN Root ELSE Last(stack)

\* emit: an event names the innermost span, unless it says one itself.
Records(entry) ==
    /\ IF Len(events) >= MaxEvents
       THEN dropped' = dropped + 1 /\ UNCHANGED events
       ELSE /\ events' = Append(events, [entry EXCEPT !.sequence = Len(events)])
            /\ UNCHANGED dropped
    /\ emitted' = emitted + 1
Entry(kind, span) == [sequence |-> 0, event |-> kind, span |-> span]
RecordsSpan(kind, span) ==
    IF spanEvents THEN Records(Entry(kind, span)) ELSE UNCHANGED <<events, dropped, emitted>>

Emit ==
    /\ emitted < MaxEmitted
    /\ Records(Entry("event", Current))
    /\ UNCHANGED <<spanEvents, stack, spans, metrics, slow>>

Begin(name) ==
    /\ Len(spans) < MaxSpans
    /\ spans' = Append(spans, [name |-> name, parent |-> Current, open |-> TRUE])
    /\ stack' = Append(stack, Len(spans'))
    /\ RecordsSpan("span.start", Len(spans'))
    /\ UNCHANGED <<spanEvents, metrics, slow>>

Place(id) == CHOOSE i \in DOMAIN stack : stack[i] = id

\* The end of a span, in order or not, by return or by an exception.
End(id, status, isSlow) ==
    /\ id \in DOMAIN spans /\ spans[id].open
    /\ spans' = [spans EXCEPT ![id].open = FALSE]
    /\ stack' = IF id \in ToSet(stack) THEN RemoveAt(stack, Place(id)) ELSE stack
    /\ metrics' = [metrics EXCEPT ![spans[id].name] =
          [count |-> @.count + 1, errors |-> @.errors + IF status = "error" THEN 1 ELSE 0]]
    /\ slow' = IF isSlow /\ Len(slow) < MaxSlow THEN Append(slow, id) ELSE slow
    /\ RecordsSpan("span.complete", id)
    /\ UNCHANGED spanEvents

-----------------------------------------------------------------------------
Init ==
    /\ spanEvents \in SpanEvents
    /\ events = <<>> /\ dropped = 0
    /\ stack = <<>> /\ spans = <<>>
    /\ metrics = [name \in Names |-> [count |-> 0, errors |-> 0]]
    /\ slow = <<>> /\ emitted = 0

Next ==
    \/ Emit
    \/ \E name \in Names : Begin(name)
    \/ \E id \in 1 .. MaxSpans, status \in {"ok", "error"}, isSlow \in BOOLEAN :
          End(id, status, isSlow)

Spec == Init /\ [][Next]_vars

-----------------------------------------------------------------------------
(* Properties.                                                             *)

\* In whatever order spans end, the stack has the open ones in the order they
\* began, a span began within its parent, the counts are of the ended ones, and
\* every event is either kept, under its number, or counted as dropped.
TraceIsSound ==
    /\ ToSet(stack) = {id \in DOMAIN spans : spans[id].open}
    /\ \A i, j \in DOMAIN stack : i < j => stack[i] < stack[j]
    /\ \A id \in DOMAIN spans : spans[id].parent # Root => spans[id].parent \in 1 .. id - 1
    /\ \A name \in Names : metrics[name].count =
          Cardinality({id \in DOMAIN spans : spans[id].name = name /\ ~spans[id].open})
    /\ Len(slow) <= MaxSlow /\ IsInjective(slow)
    /\ Len(events) <= MaxEvents
    /\ Len(events) + dropped = emitted
    /\ \A i \in DOMAIN events : events[i].sequence = i - 1
=============================================================================
