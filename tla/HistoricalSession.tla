-------------------------- MODULE HistoricalSession --------------------------
(***************************************************************************)
(* The historical session (historical.py): bars of a fixed horizon fed to  *)
(* an incremental session up to a cursor, with an equity curve beside it.  *)
(*                                                                         *)
(* A bar is its time, 1 to Horizon.  The incremental session is what its   *)
(* script recorded, and its clocks; after the callback of a bar returned,  *)
(* the clocks, the cursor and the curve are advanced one by one, and an    *)
(* interrupt may come between any two; the model has one.                  *)
(***************************************************************************)
EXTENDS Integers, Sequences, SequencesExt

CONSTANTS
    Horizon,
    Retentions,    \* values of retention_bars
    NoRetention,   \* retention_bars is None
    NoSnapshot     \* the host keeps none

ConstantsAssumption == Horizon \in Nat /\ Retentions \subseteq Nat \ {0}

VARIABLES
    retention,
    core,          \* the incremental session: what its script recorded, the time
                   \* of its last closed bar, their count, the times retained
    poisoned,
    cursor, equity,
    target,        \* of the advance that runs
    stage,         \* what of the bar is done: 0 before the callback
    kept,          \* the snapshot the host keeps
    interrupted    \* ghost: "no", "yes", or "torn": between the callback of a bar
                   \* and the recording of its time

vars == <<retention, core, poisoned, cursor, equity, target, stage, kept, interrupted>>

Upto(n) == [i \in 1 .. n |-> i]
Newest(s) ==
    IF retention = NoRetention \/ Len(s) <= retention THEN s
    ELSE SubSeq(s, Len(s) - retention + 1, Len(s))
Fresh == [records |-> <<>>, last |-> 0, closed |-> 0, retained |-> <<>>]

Idle == target = cursor /\ stage = 0
Stop == target' = cursor' /\ stage' = 0

\* A target behind the cursor or beyond the horizon is refused, and so is every
\* advance after a failure.
Advance(to) ==
    /\ Idle /\ ~poisoned
    /\ to \in cursor .. Horizon /\ target' = to
    /\ UNCHANGED <<retention, core, poisoned, cursor, equity, stage, kept, interrupted>>

\* A bar that is not after the last closed one is refused.
Refuse ==
    /\ ~Idle /\ stage = 0 /\ core.last >= cursor + 1
    /\ UNCHANGED <<retention, core, poisoned, cursor, equity, kept, interrupted>>
    /\ Stop

\* The callback returns or fails.
Runs ==
    /\ ~Idle /\ stage = 0 /\ core.last < cursor + 1
    /\ core' = [core EXCEPT !.records = Append(@, cursor + 1)]
    /\ stage' = 1
    /\ UNCHANGED <<retention, poisoned, cursor, equity, target, kept, interrupted>>
Fails ==
    /\ ~Idle /\ stage = 0 /\ core.last < cursor + 1
    /\ poisoned' = TRUE
    /\ UNCHANGED <<retention, core, cursor, equity, kept, interrupted>>
    /\ Stop

Advances(n) ==
    /\ stage = n /\ stage' = n + 1
    /\ UNCHANGED <<retention, poisoned, target, kept, interrupted>>
MarkTime ==
    Advances(1) /\ core' = [core EXCEPT !.last = cursor + 1] /\ UNCHANGED <<cursor, equity>>
MarkCount ==
    Advances(2) /\ core' = [core EXCEPT !.closed = cursor + 1] /\ UNCHANGED <<cursor, equity>>
MarkRetained ==
    /\ Advances(3)
    /\ core' = [core EXCEPT !.retained = Newest(Append(@, cursor + 1))]
    /\ UNCHANGED <<cursor, equity>>
MarkCursor ==
    Advances(4) /\ cursor' = cursor + 1 /\ UNCHANGED <<core, equity>>
MarkEquity ==
    /\ stage = 5 /\ stage' = 0
    /\ equity' = Append(equity, [time |-> core.last, value |-> core.records])
    /\ UNCHANGED <<retention, core, poisoned, cursor, target, kept, interrupted>>

Interrupt ==
    /\ ~Idle /\ interrupted = "no"
    /\ interrupted' = IF stage = 1 THEN "torn" ELSE "yes"
    /\ UNCHANGED <<retention, core, poisoned, cursor, equity, kept>>
    /\ Stop

-----------------------------------------------------------------------------
(* Snapshots.                                                              *)

Taken == [horizon |-> Horizon, cursor |-> cursor, core |-> core, equity |-> equity, interrupted |-> interrupted]
Snapshot ==
    /\ Idle /\ ~poisoned
    /\ kept' = Taken
    /\ UNCHANGED <<retention, core, poisoned, cursor, equity, target, stage, interrupted>>

\* restore: of the same horizon, and cursor, clocks and curve agree.
Accepts(s) ==
    /\ s.horizon = Horizon
    /\ s.cursor \in 0 .. Horizon
    /\ s.cursor = s.core.closed
    /\ Len(s.equity) = s.cursor
    /\ s.core.retained = Newest(Upto(s.cursor))
    /\ s.core.last = s.cursor
    /\ \A i \in DOMAIN s.equity : s.equity[i].time = i

\* Into this session, or into a new one made for the same history.
Restore(anew) ==
    /\ Idle /\ kept # NoSnapshot
    /\ anew \/ ~poisoned
    /\ Accepts(kept)
    /\ core' = kept.core
    /\ cursor' = kept.cursor /\ equity' = kept.equity /\ target' = kept.cursor
    /\ poisoned' = FALSE /\ interrupted' = kept.interrupted
    /\ UNCHANGED <<retention, stage, kept>>

-----------------------------------------------------------------------------
Init ==
    /\ retention \in Retentions \cup {NoRetention}
    /\ core = Fresh /\ poisoned = FALSE
    /\ cursor = 0 /\ equity = <<>> /\ target = 0 /\ stage = 0
    /\ kept = NoSnapshot /\ interrupted = "no"

Next ==
    \/ \E to \in 0 .. Horizon : Advance(to)
    \/ Refuse \/ Runs \/ Fails
    \/ MarkTime \/ MarkCount \/ MarkRetained \/ MarkCursor \/ MarkEquity
    \/ Interrupt
    \/ Snapshot
    \/ \E anew \in BOOLEAN : Restore(anew)

Spec == Init /\ [][Next]_vars

-----------------------------------------------------------------------------
(* Properties.                                                             *)

\* However the advances were split, and whatever failed or was interrupted
\* between a bar and its place on the curve, no bar is committed twice; and a
\* snapshot that would be accepted has the whole history up to its cursor.  Only
\* an interrupt between the callback and the time of its bar escapes this.
HistoryIsWhole ==
    interrupted = "torn" \/
    /\ core.records = Upto(Len(core.records))
    /\ Len(core.records) \in {cursor, cursor + 1}
    /\ Idle /\ Accepts(Taken) =>
          /\ core.records = Upto(cursor)
          /\ \A i \in 1 .. cursor : equity[i].value = Upto(i)
=============================================================================
