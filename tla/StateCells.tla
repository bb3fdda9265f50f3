----------------------------- MODULE StateCells -----------------------------
(***************************************************************************)
(* The state an incremental context keeps for its script                   *)
(* (incremental/limits.py, incremental/context.py): ctx.state cells with   *)
(* the history of their values at the ends of the confirmed bars,          *)
(* ctx.varip cells that live inside one bar, ctx.window rings, and the     *)
(* tracker that counts them against the budgets of the host.               *)
(*                                                                         *)
(* A value is a number or an object of a fixed heap.  A script that        *)
(* changes an object in place assigns another object here: the tracker     *)
(* sees neither.  The length of texts is left out of the payload.          *)
(***************************************************************************)
EXTENDS CollectionHeap

CONSTANTS
    Store,         \* the heap the values refer to
    StateValues, IntrabarValues,   \* what the script assigns
    StateNames, IntrabarNames,     \* the names it uses
    RingSizes, RingName,           \* ctx.window: its sizes and its only name
    MaxHistory,    \* max_state_history: a number; bounded by retention_bars
    MaxKeys,                       \* max_state_keys
    MaxRing, MaxRingItems,         \* max_window_size, max_total_window_items
    PayloadLimits, Unlimited,      \* max_state_payload_items of the sessions
    NoBar, Nothing,                \* no context is set aside, no snapshot; None
    MaxBars, MaxCalls, MaxPreviews \* bounds of the model

VARIABLES
    ctx,           \* the context the callback works on
    kept,          \* the committed context while a preview runs on a copy
    phase,         \* "idle", "bar", "preview", "failed" (poisoned)
    intrabar,      \* _preview_varip_states of the session
    limit,         \* max_state_payload_items
    saved,         \* a process-local snapshot, NoBar for none
    bars, calls, previews,
    ends,          \* ghost: the values of a cell at the ends of all its bars
    fed,           \* ghost: what was appended to the ring of the context
    owned          \* ghost: every committed value owned all of its items

vars == <<ctx, kept, phase, intrabar, limit, saved, bars, calls, previews, ends, fed, owned>>

-----------------------------------------------------------------------------
(* What a value weighs (_state_payload_items): a slot of its own, and the  *)
(* slots of every object it reaches, once each.  A window reaches the      *)
(* array it belongs to; its snapshot is an array of its own.               *)

Slots(h, i) ==
    CASE h[i].kind = "map"    -> 2 * Len(h[i].keys)
      [] h[i].kind = "matrix" -> Len(h[i].rows) + Len(FlattenSeq(h[i].rows))
      [] OTHER                -> Size(h, i)
Reaches(h, i) == Closure(h, i, Links)
Payload(h, v) ==
    1 + (IF IsRef(v) THEN MapThenSumSet(LAMBDA i : Slots(h, i), Reaches(h, v[2])) ELSE 0)

Storeable(v) == IsRef(v) => CanSnapshot(Store, v[2])
SnapshotPayload(v) ==
    IF IsRef(v)
    THEN Payload(Snapshotted(Store, v[2]), Ref(CopyOf(Store, v[2], Closure(Store, v[2], Children))))
    ELSE Payload(Store, v)

Total(f, weight(_)) == MapThenSumSet(LAMBDA n : weight(f[n]), DOMAIN f)
HeldBy(history) == FoldLeft(LAMBDA n, v : n + SnapshotPayload(v), 0, history)
Held(c) == Total(c.cells, LAMBDA cell : HeldBy(cell.history))
Measured(varips) == Total(varips, LAMBDA v : Payload(Store, v))     \* _measure_varip_payload

Fits(payload) == limit = Unlimited \/ payload <= limit
Put(f, n, v) == [m \in DOMAIN f \cup {n} |-> IF m = n THEN v ELSE f[m]]

-----------------------------------------------------------------------------
(* The ring of ctx.window.                                                 *)

Ring(size) == [size |-> size, values |-> <<>>, start |-> 0]
Appended(ring, v) ==
    IF Len(ring.values) < ring.size THEN [ring EXCEPT !.values = Append(@, v)]
    ELSE [ring EXCEPT !.values[ring.start + 1] = v, !.start = ((@ + 1) % ring.size)]
RingItem(ring, index) ==                       \* Window.__getitem__, a negative index from the end
    LET at == IF index < 0 THEN index + Len(ring.values) ELSE index
    IN  ring.values[((ring.start + at) % ring.size) + 1]
RingValues(ring) ==                            \* Window.values
    LET stop == ring.start + Len(ring.values)
    IN  IF stop <= ring.size THEN SubSeq(ring.values, ring.start + 1, stop)
        ELSE SubSeq(ring.values, ring.start + 1, Len(ring.values))
                \o SubSeq(ring.values, 1, stop - ring.size)

-----------------------------------------------------------------------------
(* Bars and previews.                                                      *)

Fails(c) == phase' = "failed" /\ ctx' = c
Ghosts == <<ends, fed, owned>>

\* A confirmed bar drops the intrabar cells of the one before.
BeginBar ==
    /\ bars < MaxBars
    /\ phase = "idle" /\ phase' = "bar"
    /\ ctx' = [ctx EXCEPT !.varips = <<>>, !.tracker.varip = 0]
    /\ calls' = 0
    /\ UNCHANGED <<kept, intrabar, limit, saved, bars, previews, Ghosts>>

\* A preview runs on a copy that shares the histories; the cells of the bar's
\* earlier previews are adopted, and counted by the tracker of the copy.
Adopted(c, varips) == [c EXCEPT !.varips = varips, !.tracker.varip = Measured(varips)]
BeginPreview(isNew) ==
    /\ previews < MaxPreviews
    /\ phase = "idle"
    /\ intrabar' = IF isNew THEN <<>> ELSE intrabar
    /\ previews' = previews + 1 /\ calls' = 0
    /\ kept' = ctx
    /\ IF Fits(ctx.tracker.state + Measured(intrabar'))
       THEN phase' = "preview" /\ ctx' = Adopted(ctx, intrabar')
       ELSE Fails([ctx EXCEPT !.varips = intrabar'])
    /\ UNCHANGED <<limit, saved, bars, Ghosts>>

\* The callback of a preview has returned: its copy is dropped.
EndPreview ==
    /\ phase = "preview"
    /\ IF Fits(ctx.tracker.state + Measured(ctx.varips))
       THEN /\ phase' = "idle"
            /\ intrabar' = ctx.varips
            /\ ctx' = kept /\ kept' = NoBar
       ELSE Fails(ctx) /\ UNCHANGED <<intrabar, kept>>
    /\ UNCHANGED <<limit, saved, bars, calls, previews, Ghosts>>

\* commit_history of one cell: the payload of what the history drops is given
\* back before the new one is reserved; a value that has no snapshot takes the
\* reservation back.
Released(cell) == IF Len(cell.history) = MaxHistory THEN SnapshotPayload(cell.history[1]) ELSE 0
Pushed(cell) ==
    [cell EXCEPT !.history = Append(IF Len(@) = MaxHistory THEN Tail(@) ELSE @, cell.value)]
CommitCell(state, n) ==
    LET cell == state.ctx.cells[n]
        next == Most(state.ctx.tracker.state - Released(cell), 0) + Payload(Store, cell.value)
    IN  IF state.ok /\ Fits(next + state.ctx.tracker.varip) /\ Storeable(cell.value)
        THEN [state EXCEPT !.ctx.cells[n] = Pushed(cell), !.ctx.tracker.state = next]
        ELSE [state EXCEPT !.ok = FALSE]

\* The end of a confirmed bar: the intrabar cells are counted again, and every
\* cell commits its value, in the order the cells were made.  A refusal leaves
\* the earlier cells committed and the session poisoned.
Committed(c) == FoldLeft(CommitCell, [ok |-> TRUE, ctx |-> c], c.order)
Synced(c) == [c EXCEPT !.tracker.varip = Measured(c.varips)]
EndBar ==
    /\ phase = "bar"
    /\ LET done == Committed(Synced(ctx))
       IN  IF Fits(ctx.tracker.state + Measured(ctx.varips)) /\ done.ok
           THEN /\ phase' = "idle" /\ ctx' = done.ctx
                /\ bars' = bars + 1
                /\ intrabar' = <<>>
                /\ ends' = [n \in DOMAIN ctx.cells |->
                              Append(IF n \in DOMAIN ends THEN ends[n] ELSE <<>>, ctx.cells[n].value)]
                /\ owned' = (owned /\ \A n \in DOMAIN ctx.cells :
                                Payload(Store, ctx.cells[n].value) = SnapshotPayload(ctx.cells[n].value))
           ELSE /\ Fails(IF Fits(ctx.tracker.state + Measured(ctx.varips)) THEN done.ctx ELSE ctx)
                /\ UNCHANGED <<bars, intrabar, ends, owned>>
    /\ UNCHANGED <<kept, limit, saved, calls, previews, fed>>

-----------------------------------------------------------------------------
(* What the callback calls.  A call that is refused raises; the script may *)
(* catch it, and nothing has changed.                                      *)

InCallback ==
    /\ phase \in {"bar", "preview"}
    /\ calls < MaxCalls /\ calls' = calls + 1
Calls(c) == ctx' = c /\ UNCHANGED <<kept, phase, intrabar, limit, saved, bars, previews, ends, owned>>
KeyFree == Cardinality(DOMAIN ctx.cells) + Cardinality(DOMAIN ctx.varips) < MaxKeys

State(n, v) ==                                 \* a known name gives its cell
    /\ InCallback
    /\ n \notin DOMAIN ctx.cells /\ KeyFree
    /\ Calls([ctx EXCEPT !.cells = Put(@, n, [value |-> v, history |-> <<>>]), !.order = Append(@, n)])
    /\ UNCHANGED fed
Assign(n, v) ==
    /\ InCallback
    /\ n \in DOMAIN ctx.cells
    /\ Calls([ctx EXCEPT !.cells[n].value = v])
    /\ UNCHANGED fed

\* With a budget the cells there are measured first, because assignments change
\* them unseen; without one the counter is only brought up to date at the end.
CountedVarips == IF limit = Unlimited THEN ctx.tracker.varip ELSE Measured(ctx.varips)
Varip(n, v) ==
    /\ InCallback
    /\ n \notin DOMAIN ctx.varips /\ KeyFree
    /\ Fits(ctx.tracker.state + CountedVarips + Payload(Store, v))
    /\ Calls([ctx EXCEPT !.varips = Put(@, n, v), !.tracker.varip = CountedVarips + Payload(Store, v)])
    /\ UNCHANGED fed
AssignVarip(n, v) ==
    /\ InCallback
    /\ n \in DOMAIN ctx.varips
    /\ Calls([ctx EXCEPT !.varips[n] = v])
    /\ UNCHANGED fed

ReserveWindow(size) ==
    /\ InCallback
    /\ RingName \notin DOMAIN ctx.windows
    /\ size <= MaxRing /\ ctx.tracker.windows + size <= MaxRingItems
    /\ Calls([ctx EXCEPT !.windows = Put(@, RingName, Ring(size)), !.tracker.windows = @ + size])
    /\ UNCHANGED fed
AppendToWindow ==                              \* the numbers 1, 2, ... in this order
    /\ InCallback
    /\ RingName \in DOMAIN ctx.windows
    /\ Calls([ctx EXCEPT !.windows[RingName] = Appended(@, calls + 10 * bars)])
    /\ fed' = IF phase = "bar" THEN Append(fed, calls + 10 * bars) ELSE fed

-----------------------------------------------------------------------------
(* Snapshots and restores, also into a session with another budget:        *)
(* validate_context_resources reconciles the counters with what is there,  *)
(* rebind_restored_budgets refuses a state beyond the new budget.          *)

Snapshot ==
    /\ phase = "idle" /\ saved = NoBar /\ bars > 0
    /\ saved' = [ctx |-> ctx, ends |-> ends, fed |-> fed, owned |-> owned]
    /\ UNCHANGED <<ctx, kept, phase, intrabar, limit, bars, calls, previews, Ghosts>>
Reconciled(c) ==
    [c EXCEPT !.tracker.state = Most(@, Held(c)), !.tracker.varip = Most(@, Measured(c.varips))]
Restore(budget) ==
    /\ phase = "idle" /\ saved # NoBar
    /\ LET c == Reconciled(saved.ctx)
       IN  /\ budget = Unlimited \/ c.tracker.state + c.tracker.varip <= budget
           /\ Cardinality(DOMAIN c.cells) + Cardinality(DOMAIN c.varips) <= MaxKeys
           /\ ctx' = c
    /\ limit' = budget
    /\ intrabar' = <<>>
    /\ ends' = saved.ends /\ fed' = saved.fed /\ owned' = saved.owned
    /\ UNCHANGED <<kept, phase, saved, bars, calls, previews>>

-----------------------------------------------------------------------------
Init ==
    /\ ctx = [cells |-> <<>>, order |-> <<>>, varips |-> <<>>, windows |-> <<>>,
              tracker |-> [state |-> 0, varip |-> 0, windows |-> 0]]
    /\ kept = NoBar /\ phase = "idle" /\ intrabar = <<>> /\ saved = NoBar
    /\ limit \in PayloadLimits
    /\ bars = 0 /\ calls = 0 /\ previews = 0
    /\ ends = <<>> /\ fed = <<>> /\ owned = TRUE

Next ==
    \/ BeginBar
    \/ BeginPreview(TRUE)
    \/ intrabar # <<>> /\ BeginPreview(FALSE)
    \/ EndPreview
    \/ EndBar
    \/ \E n \in StateNames, v \in StateValues : State(n, v) \/ Assign(n, v)
    \/ \E n \in IntrabarNames, v \in IntrabarValues : Varip(n, v) \/ AssignVarip(n, v)
    \/ \E size \in RingSizes : ReserveWindow(size)
    \/ AppendToWindow
    \/ Snapshot
    \/ \E budget \in PayloadLimits : Restore(budget)

Spec == Init /\ [][Next]_vars

-----------------------------------------------------------------------------
(* Properties.                                                             *)

\* The tracker never counts less than is kept, and for state exactly what is
\* kept as long as every committed value owned its items (a window is counted
\* with its array when it is committed, and without it when its snapshot is
\* dropped); its total keeps to the budget through restores and adoptions.
CountersCoverState ==
    /\ ctx.tracker.state >= Held(ctx)
    /\ owned /\ phase # "failed" => ctx.tracker.state = Held(ctx)
    /\ ctx.tracker.windows = Total(ctx.windows, LAMBDA ring : ring.size)
    /\ phase # "failed" => Fits(ctx.tracker.state + ctx.tracker.varip)
    /\ phase = "idle" => ctx.tracker.varip >= Measured(ctx.varips)

\* cell[k] is the value the cell had k confirmed bars ago, whatever was assigned
\* or previewed since, as far back as the history goes, and None beyond.
Read(cell, back) ==
    IF back > Len(cell.history) THEN Nothing ELSE cell.history[Len(cell.history) - back + 1]
HistoryIsWhatWas ==
    phase # "failed" =>
        \A n \in DOMAIN ctx.cells, back \in 1 .. MaxBars + 1 :
            LET known == IF n \in DOMAIN ends THEN ends[n] ELSE <<>>
            IN  Read(ctx.cells[n], back)
                   = IF back <= Least(Len(known), MaxHistory) THEN known[Len(known) - back + 1] ELSE Nothing

\* The ring holds the last values appended in confirmed bars, in their order,
\* by position from either end.
RingHoldsTheLast ==
    phase = "idle" /\ RingName \in DOMAIN ctx.windows =>
        LET ring == ctx.windows[RingName]
            n == Len(ring.values)
        IN  /\ RingValues(ring) = SubSeq(fed, Most(Len(fed) - ring.size, 0) + 1, Len(fed))
            /\ \A i \in 1 .. n : /\ RingItem(ring, i - 1) = RingValues(ring)[i]
                                 /\ RingItem(ring, i - 1 - n) = RingValues(ring)[i]
=============================================================================
