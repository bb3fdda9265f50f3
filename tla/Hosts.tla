------------------------------- MODULE Hosts -------------------------------
(***************************************************************************)
(* What stands between a host and a script: the events of a shared         *)
(* session, the process executor, the historical session, the trace, and   *)
(* the inputs of a script.  They share no state, so that a behaviour is    *)
(* about one of them and the others are left as they begin.                *)
(***************************************************************************)
EXTENDS Integers, Sequences

CONSTANTS
    Subscribers, Prices, Feed, History,                \* see SharedEvents
    Deadlines, MaxClock,                               \* see ProcessExecutor
    Horizon, Retentions,                               \* see HistoricalSession
    Names, MaxEvents, MaxSlow, SpanEvents, MaxSpans, MaxEmitted, \* see TraceRecorder
    Programs, Overrides, Members, NaN,                 \* see Inputs
    None           \* no event, deadline, limit or snapshot

VARIABLES
    part,          \* what the behaviour is about
    committed, previewing, cells, started, poisoned, seeded, last, reads, told,
    deadline, ticks, parent, worker, answer, pipe, outcome,
    retention, core, failed, cursor, equity, target, stage, kept, interrupted,
    spanEvents, events, dropped, stack, spans, metrics, slow, emitted,
    program, params, place, schema, given, refused, shown

shared == <<committed, previewing, cells, started, poisoned, seeded, last, reads, told>>
executor == <<deadline, ticks, parent, worker, answer, pipe, outcome>>
historical == <<retention, core, failed, cursor, equity, target, stage, kept, interrupted>>
trace == <<spanEvents, events, dropped, stack, spans, metrics, slow, emitted>>
inputs == <<program, params, place, schema, given, refused, shown>>
hosts == <<shared, executor, historical, trace, inputs>>

Events == INSTANCE SharedEvents WITH Nothing <- None
Executor == INSTANCE ProcessExecutor WITH NoDeadline <- None, Nothing <- None, clock <- ticks
Historical == INSTANCE HistoricalSession WITH NoRetention <- None, NoSnapshot <- None, poisoned <- failed
Trace == INSTANCE TraceRecorder WITH Root <- 0
Declared == INSTANCE Inputs WITH at <- place

ASSUME HostConstants ==
    /\ Events!ConstantsAssumption
    /\ Executor!ConstantsAssumption
    /\ Historical!ConstantsAssumption
    /\ Trace!ConstantsAssumption
    /\ Declared!ConstantsAssumption

HostsInit ==
    /\ Events!Init
    /\ Executor!Init
    /\ Historical!Init
    /\ Trace!Init
    /\ Declared!Init
HostsNext ==
    \/ /\ part = "shared" /\ Events!Next
       /\ UNCHANGED <<part, executor, historical, trace, inputs>>
    \/ /\ part = "executor" /\ Executor!Next
       /\ UNCHANGED <<part, shared, historical, trace, inputs>>
    \/ /\ part = "historical" /\ Historical!Next
       /\ UNCHANGED <<part, shared, executor, trace, inputs>>
    \/ /\ part = "trace" /\ Trace!Next
       /\ UNCHANGED <<part, shared, executor, historical, inputs>>
    \/ /\ part = "inputs" /\ Declared!Next
       /\ UNCHANGED <<part, shared, executor, historical, trace>>
HostsSpec == HostsInit /\ [][HostsNext]_<<part, hosts>>

-----------------------------------------------------------------------------
\* What a host is given is what happened: shared events count once and whoever
\* delivers them is told of one history, no answer of a worker is lost and no worker left, a history is whole
\* up to its cursor, a trace accounts for its spans, and a script that runs with
\* the inputs it showed gets them again (manager.py, executor.py, historical.py,
\* trace.py, input.py).
HostsAnswerRight ==
    /\ Events!EventsCountOnce
    /\ Executor!AnswersAreKept /\ Executor!NoWorkerIsLeft
    /\ Historical!HistoryIsWhole
    /\ Trace!TraceIsSound
    /\ Declared!KeysAreStable /\ Declared!RerunRepeats
=============================================================================
