------------------------------ MODULE Session ------------------------------
(***************************************************************************)
(* One incremental session (pyne_runtime/incremental/session.py with the   *)
(* context it owns, incremental/context.py): seeding, closed bars,         *)
(* previews, poisoning, the three kinds of checkpoint and their restores.  *)
(*                                                                         *)
(* The script is the most telling one there can be: its callback records,  *)
(* in every place a script may write to (a ctx.state cell, a module        *)
(* global, the cache, a ctx.varip cell), the bars it was called for.  What *)
(* any deterministic script keeps is a function of these records.  A       *)
(* callback that raises has written to any subset of those places.         *)
(*                                                                         *)
(* A bar is its time.  Committed output series, object events and strategy *)
(* logs are pruned like the request history, which stands for them.  One   *)
(* thread at a time uses a session, so that a call is one step, except     *)
(* for the calls that run many callbacks: a seed, and the replay of a      *)
(* checkpoint, go through their bars step by step.                         *)
(*                                                                         *)
(* An operator named Mutant... is a plausible mistake in the definition    *)
(* that follows it, used by no specification.                              *)
(***************************************************************************)
EXTENDS Integers, Sequences, FiniteSets

CONSTANTS
    MaxTime,       \* bound of the model: the last bar time
    MaxPreviews,   \* bound of the model: previews of one bar
    Retentions,    \* values of retention_bars a session is made with
    Budgets,       \* values of replay_history_bars a session is made with
    NoLimit,       \* retention_bars or replay_history_bars is None
    NoContext,     \* _ctx is None
    NoSnapshot,    \* the host has no checkpoint
    Interruptible, \* bound of the model: the <<retention, budget>> of the sessions
                   \* one of whose callbacks may end with KeyboardInterrupt or
                   \* SystemExit
    PartialWrites, \* bound of the model: the sets of places it has written by then
    MaxInterrupted \* bound of the model: the last bar time of such a session

ASSUME ConstantsAssumption ==
    /\ MaxTime \in Nat
    /\ MaxPreviews \in Nat
    /\ Retentions \subseteq (Nat \ {0}) \cup {NoLimit}
    /\ Budgets \subseteq Nat \cup {NoLimit}
    /\ NoLimit \notin Nat
    /\ Interruptible \subseteq Retentions \X Budgets
    /\ MaxInterrupted \in 0 .. MaxTime
    /\ PartialWrites \subseteq SUBSET {"state", "globals", "cache", "varip"}

VARIABLES
    \* The session object.
    retention,     \* retention_bars
    budget,        \* settings.replay_history_bars
    ctx,           \* _ctx
    globals,       \* what the script recorded in its module globals
    cache,         \* what it recorded in the execution scope's cache
    lastClosed,    \* last_closed_time, NoTime for None
    closedCount,   \* _closed_count
    previewTime,   \* _active_preview_time, NoTime for None
    previewVarip,  \* _preview_varip_states: the records of the varip cell
    retained,      \* _retained_closed_times
    recorded,      \* _portable_bars
    seedCount,     \* _portable_seed_count
    complete,      \* _portable_complete
    poisoned,      \* _poisoned_reason is not None
    queue,         \* bars the running seed or replay still has to process
    \* The host.
    saved,         \* the checkpoint it keeps
    torn,          \* history: the bar of an interrupted preview that has replaced the
                   \* intrabar cells of the active one, NoTime for none
    feed,          \* history: the bars committed, as the callback saw them
    visited,       \* history: the bar times this session object previewed
    interrupted    \* history: a callback of this session object was interrupted

settingVars == <<retention, budget>>
scriptVars == <<ctx, globals, cache>>
clockVars == <<lastClosed, closedCount, retained>>
replayVars == <<recorded, seedCount, complete>>
previewVars == <<previewTime, previewVarip, torn>>
hostVars == <<visited, interrupted>>
vars == <<settingVars, scriptVars, clockVars, replayVars, previewVars,
          poisoned, queue, saved, feed, hostVars>>

Times == 1 .. MaxTime
NoTime == 0

\* What one call of the callback records: bar.time and barstate.isnew.
Record == [time: Times, isnew: BOOLEAN]
Places == {"state", "globals", "cache", "varip"}

\* The contexts there may be: whatever says that there is none is not one.
AnyContext ==
    [state: Seq(Record), history: Seq(Nat), varip: Seq(Record),
     requestBars: Seq(Times), barTime: Times \cup {NoTime}, barIndex: Nat \cup {-1}]
ASSUME NoContextAssumption == NoContext \notin AnyContext

TimesOf(records) == [i \in DOMAIN records |-> records[i].time]
Increasing(s) == \A i, j \in DOMAIN s : i < j => s[i] < s[j]
Oldest(s, n) == SubSeq(s, 1, n)

\* A deque with a maximum length: the newest n items.
MutantKeepsOneMore(s, n) ==
    IF n = NoLimit \/ Len(s) <= n + 1 THEN s ELSE SubSeq(s, Len(s) - n, Len(s))
Newest(s, n) ==
    IF n = NoLimit \/ Len(s) <= n THEN s ELSE SubSeq(s, Len(s) - n + 1, Len(s))

\* IncrementalContext, as far as the session and the callback tell.
FreshContext ==
    [state |-> << >>,        \* the ctx.state cell
     history |-> << >>,      \* its committed values, as how many records each had
     varip |-> << >>,        \* the ctx.varip cell
     requestBars |-> << >>,  \* _request_bars_storage
     barTime |-> NoTime,     \* current_bar, NoTime for None
     barIndex |-> -1]        \* bar_index

\* _ensure_context, when init() returns.
OpenContext == IF ctx = NoContext THEN FreshContext ELSE ctx

-----------------------------------------------------------------------------
(* The pieces of a committed bar.                                          *)

\* _run_bar drops the output that the new bar pushes out of the retention.
MutantPruneLate(bars, t) == bars
Pruned(bars, t) ==
    IF retention # NoLimit /\ Len(retained) >= retention
    THEN LET cutoff == IF retention > 1 THEN retained[2] ELSE t
             expired == {i \in DOMAIN bars : bars[i] < cutoff}
         IN  SubSeq(bars, Cardinality(expired) + 1, Len(bars))
    ELSE bars

\* begin_bar on the committed context: varip cells do not outlive the bar.
Begun(c, t) ==
    [c EXCEPT !.varip = << >>, !.requestBars = Pruned(@, t),
              !.barTime = t, !.barIndex = closedCount]

\* The callback wrote its record r to the places of W.
Wrote(c, r, W) ==
    [c EXCEPT !.state = IF "state" \in W THEN Append(@, r) ELSE @,
              !.varip = IF "varip" \in W THEN Append(@, r) ELSE @]
WroteOutside(r, W) ==
    /\ globals' = IF "globals" \in W THEN Append(globals, r) ELSE globals
    /\ cache' = IF "cache" \in W THEN Append(cache, r) ELSE cache

\* commit_request_bar and commit_state_history.
CommittedBar(bars, t) ==
    IF bars # << >> /\ bars[Len(bars)] = t THEN bars ELSE Append(bars, t)
Committed(c) ==
    [c EXCEPT !.requestBars = CommittedBar(@, c.barTime),
              !.history = Newest(Append(@, Len(c.state)), retention)]

\* replay_history_bars allows a recording of n bars.
Fits(n) == IF budget = NoLimit THEN TRUE ELSE n <= budget

\* replay_input and _record_portable_bar.
MutantStaysComplete(t) ==
    /\ recorded' = IF Fits(Len(recorded) + 1) THEN Append(recorded, t) ELSE recorded
    /\ UNCHANGED <<seedCount, complete>>
Recording(t) ==
    IF ~complete THEN UNCHANGED replayVars
    ELSE IF Fits(Len(recorded) + 1)
    THEN recorded' = Append(recorded, t) /\ UNCHANGED <<seedCount, complete>>
    ELSE recorded' = << >> /\ seedCount' = 0 /\ complete' = FALSE

\* The callback returned: what seed and on_bar_closed both do with bar t.
CommitBar(t, isnew) ==
    LET r == [time |-> t, isnew |-> isnew]
    IN  /\ ctx' = Committed(Wrote(Begun(OpenContext, t), r, Places))
        /\ WroteOutside(r, Places)
        /\ lastClosed' = t
        /\ closedCount' = closedCount + 1
        /\ retained' = Newest(Append(retained, t), retention)
        /\ feed' = Append(feed, r)

\* _poison: the context is dropped, what was written elsewhere stays.
Poison ==
    /\ poisoned' = TRUE
    /\ ctx' = NoContext
    /\ previewTime' = NoTime
    /\ previewVarip' = << >>
    /\ torn' = NoTime
    /\ queue' = << >>

\* The callback of committed bar t raised an Exception.
BarFails(t, isnew) ==
    /\ \E W \in SUBSET {"globals", "cache"} :
          WroteOutside([time |-> t, isnew |-> isnew], W)
    /\ Poison
    /\ UNCHANGED <<settingVars, clockVars, replayVars, saved, feed, hostVars>>

\* It ended with an exception that "except Exception" lets through.
BarInterrupted(t, isnew) ==
    /\ <<retention, budget>> \in Interruptible
    /\ ~interrupted /\ t <= MaxInterrupted
    /\ \E W \in PartialWrites :
          LET r == [time |-> t, isnew |-> isnew]
          IN  /\ ctx' = Wrote(Begun(OpenContext, t), r, W)
              /\ WroteOutside(r, W)
    /\ queue' = << >>
    /\ UNCHANGED <<settingVars, clockVars, replayVars, previewVars, poisoned,
                   saved, feed, visited>>
    /\ interrupted' = TRUE

-----------------------------------------------------------------------------
(* Seeding, and the replay of a checkpoint.                                *)

Idle == queue = << >>
Healthy == ~poisoned
Seeding == ~Idle /\ Head(queue).op = "seed"
LastOfSeed == Len(queue) = 1 \/ queue[2].op # "seed"

Cleared ==
    /\ lastClosed' = NoTime
    /\ closedCount' = 0
    /\ retained' = << >>
    /\ recorded' = << >>
    /\ seedCount' = 0
    /\ complete' = TRUE
    /\ previewTime' = NoTime
    /\ previewVarip' = << >>
    /\ torn' = NoTime

Calls(op, bars) == [i \in DOMAIN bars |-> [op |-> op, time |-> bars[i]]]

\* seed(bars), up to its loop.
Seed(bars) ==
    /\ Healthy /\ Idle
    /\ ctx = NoContext
    /\ ctx' = FreshContext
    /\ Cleared
    /\ queue' = Calls("seed", bars)
    /\ UNCHANGED <<settingVars, globals, cache, poisoned, saved, feed, hostVars>>

\* init() raises, in whatever call came first.
InitFails ==
    /\ Healthy /\ Idle
    /\ ctx = NoContext
    /\ Poison
    /\ UNCHANGED <<settingVars, globals, cache, clockVars, replayVars, saved,
                   feed, hostVars>>

\* One bar of the loop.  The last one ends the seed.
SeedBar ==
    /\ Seeding
    /\ CommitBar(Head(queue).time, TRUE)
    /\ IF LastOfSeed
       THEN LET t == Head(queue).time
                fits == complete /\ Fits(Len(recorded) + 1)
            IN  /\ recorded' = IF fits THEN Append(recorded, t) ELSE << >>
                /\ complete' = fits
                /\ seedCount' = IF fits THEN Len(recorded) + 1 ELSE 0
       ELSE Recording(Head(queue).time)
    /\ queue' = Tail(queue)
    /\ UNCHANGED <<settingVars, previewVars, poisoned, saved, hostVars>>

SeedBarFails == Seeding /\ BarFails(Head(queue).time, TRUE)
SeedBarInterrupted == Seeding /\ BarInterrupted(Head(queue).time, TRUE)

-----------------------------------------------------------------------------
(* Live bars.                                                              *)

\* _validate_event_time
Admissible(t) == t > lastClosed /\ t >= previewTime

\* barstate.isnew of a close: not had_preview.
IsNew(t) == previewTime # t

CloseBar(t) ==
    /\ Recording(t)
    /\ CommitBar(t, IsNew(t))
    /\ IF previewTime # NoTime /\ t >= previewTime
       THEN previewTime' = NoTime /\ previewVarip' = << >> /\ torn' = NoTime
       ELSE UNCHANGED previewVars

\* on_bar_closed, called by the host ...
OnBarClosed(t) ==
    /\ Healthy /\ Idle
    /\ Admissible(t)
    /\ CloseBar(t)
    /\ UNCHANGED <<settingVars, poisoned, queue, saved, hostVars>>

OnBarClosedFails(t) ==
    /\ Healthy /\ Idle
    /\ Admissible(t)
    /\ BarFails(t, IsNew(t)) \/ BarInterrupted(t, IsNew(t))

\* ... or by the replay of a checkpoint.
Replaying == ~Idle /\ Head(queue).op = "closed"
ReplayBar ==
    /\ Replaying
    /\ CloseBar(Head(queue).time)
    /\ queue' = Tail(queue)
    /\ UNCHANGED <<settingVars, poisoned, saved, hostVars>>

ReplayBarFails == Replaying /\ BarFails(Head(queue).time, IsNew(Head(queue).time))

\* What a preview may write to is a clone, but for the varip cells.
SharedWithPreview == {"varip"}
Kept(place, records, r) ==
    IF place \in SharedWithPreview THEN Append(records, r) ELSE records

\* The varip cells a preview of bar t finds.
MutantVaripOfAnyBar(t) == previewVarip
AdoptedVarip(t) == IF IsNew(t) THEN << >> ELSE previewVarip

\* on_bar_updated: the callback works on a clone of the context and globals.
OnBarUpdated(t) ==
    LET r == [time |-> t, isnew |-> IsNew(t)]
    IN  /\ Healthy /\ Idle
        /\ Admissible(t)
        /\ Len(AdoptedVarip(t)) < MaxPreviews
        /\ ctx' = [OpenContext EXCEPT !.state = Kept("state", @, r)]
        /\ globals' = Kept("globals", globals, r)
        /\ cache' = Kept("cache", cache, r)
        /\ previewVarip' = Kept("varip", AdoptedVarip(t), r)
        /\ previewTime' = t
        /\ torn' = IF IsNew(t) THEN NoTime ELSE torn
        /\ visited' = visited \cup {t}
        /\ UNCHANGED <<settingVars, clockVars, replayVars, poisoned, queue,
                       saved, feed, interrupted>>

\* The clone cannot be made, the varip cells exceed their budget, or the
\* callback raises.
OnBarUpdatedFails(t) ==
    /\ Healthy /\ Idle
    /\ Admissible(t)
    /\ Poison
    /\ UNCHANGED <<settingVars, globals, cache, clockVars, replayVars, saved,
                   feed, hostVars>>

\* The callback ends with KeyboardInterrupt or SystemExit.  The clone is lost
\* and the globals are put back; the varip cells were those of bar t by then,
\* and _active_preview_time is not moved.
OnBarUpdatedInterrupted(t) ==
    LET r == [time |-> t, isnew |-> IsNew(t)]
    IN  /\ Healthy /\ Idle
        /\ Admissible(t)
        /\ <<retention, budget>> \in Interruptible
        /\ t <= MaxInterrupted
        /\ Len(AdoptedVarip(t)) < MaxPreviews
        /\ ctx' = OpenContext
        /\ \E W \in PartialWrites :
              previewVarip' = IF "varip" \in W THEN Append(AdoptedVarip(t), r) ELSE AdoptedVarip(t)
        /\ torn' = IF IsNew(t) THEN t ELSE torn
        /\ UNCHANGED <<settingVars, globals, cache, clockVars, replayVars, previewTime,
                       poisoned, queue, saved, feed, hostVars>>

\* snapshot_result on a session that has not run yet creates its context.
SnapshotResult ==
    /\ Healthy /\ Idle
    /\ ctx' = OpenContext
    /\ UNCHANGED <<settingVars, globals, cache, clockVars, replayVars,
                   previewVars, poisoned, queue, saved, feed, hostVars>>

-----------------------------------------------------------------------------
(* Checkpoints.                                                            *)

\* snapshot_state ("local") and snapshot_portable("state"), which is the same
\* without the recorded bars.
Captured(kind) ==
    [kind |-> kind, retention |-> retention, ctx |-> ctx, globals |-> globals,
     cache |-> cache, lastClosed |-> lastClosed, closedCount |-> closedCount,
     retained |-> retained,
     recorded |-> IF kind = "local" THEN recorded ELSE << >>,
     seedCount |-> IF kind = "local" THEN seedCount ELSE 0,
     complete |-> kind = "local" /\ complete,
     feed |-> feed, interrupted |-> interrupted]

\* snapshot_portable("replay")
CapturedReplay ==
    [kind |-> "replay", retention |-> retention, recorded |-> recorded,
     seedCount |-> seedCount, feed |-> feed]

Checkpoint ==
    /\ Healthy /\ Idle
    /\ \/ \E kind \in {"local", "state"} : saved' = Captured(kind)
       \/ complete /\ saved' = CapturedReplay
    /\ UNCHANGED <<settingVars, scriptVars, clockVars, replayVars, previewVars,
                   poisoned, queue, feed, hostVars>>

\* validate_restore_shape
RetainedLength(n, r) == IF r = NoLimit \/ n <= r THEN n ELSE r
Valid(s) ==
    /\ s.closedCount = 0 <=> s.lastClosed = NoTime
    /\ Increasing(s.retained)
    /\ IF s.closedCount = 0 THEN s.retained = << >>
       ELSE s.retained # << >> /\ s.retained[Len(s.retained)] = s.lastClosed
    /\ Len(s.retained) = RetainedLength(s.closedCount, s.retention)
    /\ s.ctx = NoContext => s.closedCount = 0
    /\ s.ctx # NoContext =>
          /\ s.ctx.barIndex = s.closedCount - 1
          /\ s.ctx.barTime = s.lastClosed
    /\ s.seedCount \in 0 .. Len(s.recorded)
    /\ s.complete => Len(s.recorded) = s.closedCount
    /\ ~s.complete => s.recorded = << >> /\ s.seedCount = 0

\* restore_state: all or nothing.
Adopt(s) ==
    /\ ctx' = s.ctx
    /\ globals' = s.globals
    /\ cache' = s.cache
    /\ lastClosed' = s.lastClosed
    /\ closedCount' = s.closedCount
    /\ retained' = s.retained
    /\ recorded' = s.recorded
    /\ seedCount' = s.seedCount
    /\ complete' = s.complete

MutantPreviewSurvives(s) ==
    /\ Adopt(s)
    /\ UNCHANGED previewVars
RestoredFrom(s) ==
    /\ Adopt(s)
    /\ previewTime' = NoTime
    /\ previewVarip' = << >>
    /\ torn' = NoTime

Restore ==
    /\ Healthy /\ Idle
    /\ saved # NoSnapshot
    /\ saved.kind # "replay"
    /\ saved.retention = retention
    /\ Valid(saved)
    /\ Fits(Len(saved.recorded))
    /\ RestoredFrom(saved)
    /\ feed' = saved.feed
    /\ visited' = {}
    /\ interrupted' = saved.interrupted
    /\ UNCHANGED <<settingVars, poisoned, queue, saved>>

\* A new session object with a fresh execution scope: the process was
\* restarted, or the host gave a poisoned session up.  Followed by Restore
\* this is from_snapshot, and from_portable_snapshot of a typed state.
NewObject(r, b) ==
    /\ retention' = r
    /\ budget' = b
    /\ globals' = << >>
    /\ cache' = << >>
    /\ Cleared
    /\ poisoned' = FALSE
    /\ feed' = << >>
    /\ visited' = {}
    /\ interrupted' = FALSE

NewSession(r, b) ==
    /\ NewObject(r, b)
    /\ ctx' = NoContext
    /\ queue' = << >>
    /\ UNCHANGED saved

\* from_portable_snapshot of a replay checkpoint.
ReplayCalls(s) ==
    Calls("seed", Oldest(s.recorded, s.seedCount))
        \o Calls("closed", SubSeq(s.recorded, s.seedCount + 1, Len(s.recorded)))

RestoreReplay(b) ==
    /\ saved # NoSnapshot
    /\ saved.kind = "replay"
    /\ NewObject(saved.retention, b)
    /\ ctx' = IF saved.seedCount > 0 THEN FreshContext ELSE NoContext
    /\ queue' = ReplayCalls(saved)
    /\ UNCHANGED saved

-----------------------------------------------------------------------------
Init ==
    /\ retention \in Retentions
    /\ budget \in Budgets
    /\ ctx = NoContext
    /\ globals = << >>
    /\ cache = << >>
    /\ lastClosed = NoTime
    /\ closedCount = 0
    /\ previewTime = NoTime
    /\ previewVarip = << >>
    /\ torn = NoTime
    /\ retained = << >>
    /\ recorded = << >>
    /\ seedCount = 0
    /\ complete = TRUE
    /\ poisoned = FALSE
    /\ queue = << >>
    /\ saved = NoSnapshot
    /\ feed = << >>
    /\ visited = {}
    /\ interrupted = FALSE

\* Strictly increasing series of bar times, as PyneData.from_ohlcv demands.
Histories == {s \in UNION {[1 .. n -> Times] : n \in 0 .. MaxTime} : Increasing(s)}

Next ==
    \/ \E bars \in Histories : Seed(bars)
    \/ InitFails
    \/ SeedBar \/ SeedBarFails \/ SeedBarInterrupted
    \/ ReplayBar \/ ReplayBarFails
    \/ \E t \in 1 .. IF interrupted THEN MaxInterrupted ELSE MaxTime :
        \/ OnBarClosed(t) \/ OnBarClosedFails(t)
        \/ OnBarUpdated(t) \/ OnBarUpdatedFails(t) \/ OnBarUpdatedInterrupted(t)
    \/ SnapshotResult
    \/ Checkpoint
    \/ Restore
    \/ \E b \in Budgets : RestoreReplay(b) \/ \E r \in Retentions : NewSession(r, b)

Spec == Init /\ [][Next]_vars

-----------------------------------------------------------------------------
(* Properties.                                                             *)

\* A deque never holds more than the retention r allows.
Deque(S, r) == {q \in Seq(S) : Len(q) = RetainedLength(Len(q), r)}

ContextOf(r) == {c \in AnyContext : c.history \in Deque(Nat, r)}

TypeOK ==
    /\ retention \in Retentions /\ budget \in Budgets
    /\ ctx \in ContextOf(retention) \cup {NoContext}
    /\ globals \in Seq(Record) /\ cache \in Seq(Record)
    /\ lastClosed \in Times \cup {NoTime}
    /\ closedCount \in Nat
    /\ previewTime \in Times \cup {NoTime}
    /\ previewVarip \in Seq(Record) /\ torn \in Times \cup {NoTime}
    /\ retained \in Deque(Times, retention) /\ recorded \in Seq(Times)
    /\ seedCount \in Nat
    /\ complete \in BOOLEAN /\ poisoned \in BOOLEAN
    /\ queue \in Seq([op: {"seed", "closed"}, time: Times])
    /\ feed \in Seq(Record)
    /\ visited \subseteq Times
    /\ interrupted \in BOOLEAN

\* Whatever mixture of seeds, previews, closes, failures, restarts, restores
\* and replays a session has seen: every place the script writes to holds the
\* record of exactly the committed bars, once each and in order.  A preview
\* leaves nothing behind, a failed callback leaves no usable half-written
\* state, a restore brings the three places back together.  Beside them, four
\* structures are bounded separately (retained times, request history, state
\* history, and the counters): they always describe the same newest bars.
NewestOnes(s) == SubSeq(s, Len(s) - RetainedLength(Len(s), retention) + 1, Len(s))
CommittedStateIsTheFeed ==
    Healthy /\ ~interrupted =>
        /\ globals = feed
        /\ cache = feed
        /\ closedCount = Len(feed)
        /\ retained = NewestOnes(TimesOf(feed))
        /\ IF ctx = NoContext THEN feed = << >>
           ELSE /\ ctx.state = feed
                /\ ctx.requestBars = retained
                /\ ctx.history = NewestOnes([i \in DOMAIN feed |-> i])

\* A recording that claims to be complete replays to all committed bars, and
\* one that was given up is never taken for a replayable one, also when
\* callbacks were interrupted by exceptions that do not poison the session.
RecordingIsTheFeed ==
    Healthy =>
        /\ recorded = IF complete THEN TimesOf(feed) ELSE << >>
        /\ seedCount <= Len(recorded)

\* A healthy session never writes a checkpoint it would itself refuse, unless
\* a callback of it was interrupted (the context is then ahead of the clock).
OwnCheckpointsRestore ==
    Healthy /\ Idle /\ ~interrupted => \A kind \in {"local", "state"} : Valid(Captured(kind))

\* The preview is ahead of the committed bars, and intrabar cells hold only
\* what previews of that very bar wrote, of which only the first was new,
\* whatever came in between (a refused bar, a checkpoint, a result request).
\* Confirmed callbacks find none of them.  An interrupted preview of a later bar
\* breaks this and does no more harm than this: beside what previews of the
\* active bar write from then on, the cells hold what its only call wrote.
PreviewIsIntrabar ==
    /\ previewTime # NoTime => previewTime > lastClosed
    /\ torn = NoTime =>
          \A i \in DOMAIN previewVarip :
              /\ previewVarip[i].time = previewTime
              /\ previewVarip[i].isnew <=> i = 1
    /\ torn # NoTime =>
          /\ torn > previewTime
          /\ \A i \in DOMAIN previewVarip :
                IF i = 1 /\ previewVarip[i].isnew THEN previewVarip[i].time = torn
                ELSE previewVarip[i].time = previewTime /\ ~previewVarip[i].isnew
    /\ ctx # NoContext /\ ~interrupted =>
          /\ Len(ctx.varip) <= 1
          /\ \A i \in DOMAIN ctx.varip : ctx.varip[i].time = lastClosed

\* barstate.isnew of a close tells truly whether this session object has shown
\* the bar as a preview; a replayed bar is always new.
LastIsNew == feed'[Len(feed')].isnew
IsNewIsTrue ==
    [][/\ \A t \in Times : OnBarClosed(t) => (LastIsNew <=> t \notin visited)
       /\ SeedBar \/ ReplayBar => LastIsNew]_vars

\* docs/concepts/security_modes.md: "Callback failures that may have partially
\* changed committed state still prevent continued execution".  A session that
\* goes on has no half-made writes of one callback.
PartialWritesStopTheSession ==
    Healthy /\ ctx # NoContext => globals = ctx.state /\ cache = ctx.state
=============================================================================
