# A verification model of Pyne Runtime

TLA+ modules, TLC runs and TLAPS proofs for `src/pyne_runtime` of Pyne Runtime 0.4,
a Python library that runs Pine-like trading scripts over price bars: at once over
a history (batch mode), or bar by bar in a long-lived session (incremental mode).

The project models what keeps state over many calls and is used by threads, failing
callbacks, restarts and clocks, and the two engines that must show the same of one
script. Every definition is a translation of code; `PROJECT.json` names the lines of
each. An operator called `Mutant...` is a plausible bug in the definition that follows
it. No specification uses it; it shows that the named property would notice.

## 1. The system

A *session* (`incremental/session.py`) owns a *context* (`context.py`), the script's
module globals and a *cache* (`cache.py`). The host calls `seed`, `on_bar_closed` and
`on_bar_updated`; each calls the script's `on_bar(ctx, bar)`, which uses the namespaces
of the context: `ctx.strategy`, `ctx.ta`, `ctx.request`, state cells, drawings, plots.
A *manager* (`manager.py`) shares sessions between users by key; a *historical session*
feeds one from a fixed horizon; an *external broker* runs a script for its orders only.
Sessions are saved and restored through checkpoints. Batch mode (`runtime.py`, `ta.py`,
`strategy/replay.py`, `request/`, `plot/`) works on whole arrays, inline under an alarm
or in a worker process.

| component | state | operations | what is hard | what makes it correct | modelled |
|---|---|---|---|---|---|
| shared session manager | table of sessions with reference counts, creations that run, counts per lease, idle times; memory of the last event | acquire, release, close, expire, evict, touch; seed_or_snapshot, process_bar | threads; the factory runs between two locked sections; late and unattributed releases after a forced close | bounded; one creation per key; a held session stays; counts cover the holders; no lost wake-up; an event counts once | yes |
| incremental session | context, globals, cache, closed and preview clocks, retention, replay recording, poisoned flag | seed, close, preview, snapshot, checkpoint, three restores | callbacks that raise half-way; previews on clones; restarts; checkpoints of two kinds | committed state is exactly the committed bars; retention agrees everywhere; checkpoints restore | partly |
| script cache | entries with age, use and time to live | get_or_load, clear, configure, snapshot, restore | the loader runs unlocked; ages across checkpoints; ties of the clock | bounded; coldest evicted; nothing lives longer than its ttl | yes |
| incremental strategy | pending orders, brackets, lots, profit, risk locks | entry, order, close, exit, cancel, begin_bar, end_bar, every read | any read may liquidate, in the middle of anything else; orders canceled while scanned | books balance; canceled never fills; limits and locks hold | partly |
| batch strategy replay | list of orders, pending-order heaps, lots, events | calls over whole arrays, one replay after each | lazy deletion from heaps; candidates set aside; orders that keep what the last replay wrote on them | no order that is due is missed; every replay ends alike; trades open by bar | partly |
| request range cache | provider rows, covered ranges, finality watermark | begin_evaluation, get_ohlcv | watermarks withdrawn, clocks going back, partial failures | a served row is what the provider would answer | partly |
| batch request, alignment | contexts and their aliases | security, security_lower_tf, the current-bar shortcuts | lookahead, gaps, duplicate times, too short a history | no row of a bar that has not ended; answers do not change | partly |
| incremental indicators | helpers by family and name, buffers, reserved capacity | getters, update | running sums, extrema queues, gaps, rebases | what the batch function computes; buffers within what is reserved | partly |
| batch indicators, kernels | carried sums, queues, trees of one call | one call per array | windows with gaps, periods of one, warm-up | the window alone decides; no later bar is used | partly |
| limits, windows, cells | counters of retained items, ring buffers, histories | assign, append, prune, commit, snapshot, restore | counters against what is retained, through evictions and other budgets | counters cover what is kept | partly |
| checkpoint codec | table of nodes; a file with hashes | encode, decode; write, read under a policy | shared and cyclic graphs; containers filled last; another release, another limit | decode of encode keeps structure and sharing; a file is accepted by whom it was written for | partly |
| inputs | declared entries, in order; overrides of the host | input, input.int and the others, once each per run | titles that meet keys of untitled inputs; the same script run again | one key per input; a run with the values the host was shown says the same | partly |
| collections | arrays, windows of arrays, maps, matrices | all mutators, slices, snapshots, copies | views of moving storage; depth and size limits | a view acts as a list; a copy is detached; no cycles | partly |
| drawing objects | objects in order, cells, merges, index of fills, events | new, set, delete, copy, clear | dependents, limits, refusals half-way | fills hang on living lines; events retell the objects; engines agree | yes |
| plot output | points, counters, last values | plot, plotcandle, marker, arrows | pruning, failed callbacks, names that meet | points are counted; engines show the same | partly |
| historical session | cursor, equity curve, snapshot | advance, snapshot, restore | failure or interrupt between bar, clocks, cursor and curve | cursor agrees with the session | yes |
| external broker | declaration, intents, passes | run a script in three ways | passes of one bar, late declarations | intents are the script's orders, in order | partly |
| process executor, timeouts | worker, pipe, outcome; alarm and nested deadlines | run, poll, kill; enter, fire, leave | answer, death and deadline race; one alarm for many deadlines | one answer; no worker left; no deadline lost | yes |
| execution trace | bounded log, open spans, metrics | span, emit, inspect | spans of generators close in any order | log, spans and drops account; secrets stay hidden | yes |
| batch runtime, results, series, security policy, tooling, command line, helper namespaces | none over calls | pure | | | no |

`PROJECT.json` lists every component with its files and, under `hazards`, the places
where the code is hard to test, each at its line, with the properties that watch it.

## 2. Modules

| instance | composes | proofs |
|---|---|---|
| `MCHosts` | `SessionManager` (twice) with `SessionLeases`; `SharedEvents`, `ProcessExecutor`, `HistoricalSession`, `TraceRecorder`, `Inputs` under `Hosts`; `Alarms`, `ExternalBroker`, `TraceValues`, `Checkpoint` | `SessionManagerProofs`, `HostsProofs` |
| `MCSession` | `Session` | `SessionProofs` |
| `MCCaches` | `Caches`, which is `RangeCache` beside `PyneCache` | `PyneCacheProofs`, `CachesProofs` |
| `MCStrategies`, `MCIncrementalStrategy` | `StrategyRules` under `IncrementalStrategy` and `StrategyReplay`; `Indicators` over `StepIndicators`, `BatchIndicators`, `TaKernels`, `Rationals`, with the scripts of `MCIndicators` | `RulesProofs`, `StrategyProofs`, `ReplayProofs` |
| `MCContainers` | `CollectionHeap`, `Collections`; `Drawings`; `PlotOutputs`; `Requests`; `StateCells`; `StateGraph` | |

Components that share no state stand side by side in one instance: a variable of it (`part`,
`used`, `engine`) says in the initial state what the behaviour is about, and the variables
of the others stay as they are. What two components share is a module of its own:
`StrategyRules` are the rules that both strategy engines import, with the names of orders
and groups, `CollectionHeap` the objects that scripts and state cells refer to. `Hosts` is
the part of `MCHosts` that is proved about: five components, each a behaviour of its own
beside the others.

### SessionManager (`incremental/manager.py`)

Everything the manager does under its one lock is one step. A thread rests inside
`acquire` in two places: waiting for somebody else's creation (`"wait"`), and in the
caller's factory (`"factory"`), which runs unlocked and may acquire other keys
(`Nests`). So `calls[t]` is a stack. `AcquireExisting`, `AcquireCreate`,
`AcquireRefused`, `AcquireReentrant` and `AcquireWait` are the branches of the first
locked section; `FactoryInstalls`, `FactoryFindsNoSlot` and `FactoryFails` the ends of
a factory, with the eviction of `_ensure_slot_locked`. `Release` has the exact and the
key-only form, and the bookkeeping per token that a forced close starts. `leases` is the
users' side: what was handed out and not returned.

`SessionLeases` is the abstract specification: a table of current sessions that are
shared while leased, dropped only when unleased or forced, and at most `MaxSessions`.
`ImplementsLeaseTable` is the refinement (the current session is the token of the
table's entry); it is checked and proved.

`SharedEvents` is what one shared session is told: several subscribers hold it and each
delivers the whole feed, at its own pace. `Repeat` answers the last event from memory,
`Refuse` a stale one, `Process` and `Fail` reach the session below. The memory is of one
event only: an earlier preview of the open bar that comes again runs again, with `isnew`
false and on the intrabar cells that the previews since have written, and an answer is a
function of all of them. `Seed` goes through the history bar by bar and may fail at any
(`SeedFails`): the session is then poisoned with part of the history, is not marked seeded
and stays in the table, and every later call finds it so.

### Session (`incremental/session.py`, `context.py`, `_restore_validation.py`)

The script is the most telling there can be: its callback appends a record of the bar
to a state cell, a module global, the cache and a varip cell. Whatever a deterministic
script keeps is a function of those records. A callback that raises has written to any
subset of the places. One thread at a time uses a session, so that a call is one
step, except that a seed and a replay go through their bars one step each (`queue`),
where any of them may fail. `NewSession` is a restart: only `saved`, the host's
checkpoint, survives. `feed` is history: the bars committed. Previews may write to a
clone only; `SharedWithPreview` names the one place that is not cloned.

Callbacks may end with `KeyboardInterrupt` or `SystemExit`, which `except Exception`
lets through: the pairs of `Interruptible` say which bar may be interrupted while which
is expected, up to `MaxInterrupted`. An interrupted preview (`OnBarUpdatedInterrupted`)
writes to a clone as any other, but the intrabar cells are switched and written before the
preview's clock moves: they stay those of the new bar under the time of the old one, until
a preview of a bar that is new to the clock, or a close, empties them. `torn` is history: the
bar of the interrupted preview; `PreviewIsIntrabar` says what the cells hold in either case.

Left out: plots and drawings (pruned like the request history, which stands for them, and
modelled in modules of their own), the resource counters, the encoding of checkpoints.

### PyneCache (`cache.py`)

`get_or_load` is two locked steps with the loader between them. Eviction takes
the first in the dict of the entries with the least `last_access`; so an entry has a
`place` in the insertion order, the number of the load that inserted its key (a later store
over the key keeps it). `lived`, `unused` and `granted` are history: ages counted by ticks,
independently of the clock readings that the code subtracts.

### IncrementalStrategy (`incremental/strategy.py` with `StrategyRules`)

The books of an account are one record. Each operation takes the books and returns
them, because every read of the position or the equity runs
`_sync_risk_liquidation` (`Sync`), in the middle of a fill, of a scan, or of a report;
`Sync` stands wherever the code reads. `BeginBar` scans the pending orders and the
brackets, the script makes up to `MaxCalls` calls (`Submit`, `CloseCall`, `Exit`,
`Cancel`, `CancelAll`, `Read`), `EndBar` fills what waits for the close and updates
peaks and locks, `Report` makes a result. While a scan runs, orders are canceled by
flag only, as in the code, where the loop holds the old list.

Abstractions: prices, quantities and money are integers, so there is no rounding to
eight places; commission is per contract, so that its shares are whole; quantities in
percent are quantities; order and trade logs, comments and the lifecycle report are
left out; `_same_direction_entry_count` is written by the code and read by nothing.
`cash`, `settled` and `fills` are history.

### StrategyReplay (`strategy/module.py`, `orders.py`, `replay*.py`, `ledger.py`)

A batch script calls `entry`, `order`, `close`, `exit`, `cancel` and the settings once
each, for a set of bars. Every call (`Call`, `Change`) appends its commands to the list
of orders and replays the whole list over all bars; the orders live on and keep what the
last replay wrote on them, which `Prepared` resets. The model's variables are `settings`
(the declaration in force), `replay`, `at` (the bar and phase the replay has come to; `todo`
are the commands of the bar not yet dispatched) and `made`, the calls made so far. An order
has two prices: `price` (`_base_price`) is the close of its bar and, once it was triggered, the
price it was triggered at, which a replay does not take back; `shown` (`price`) is reported,
and every replay starts it at the other. A limit that is
not set is `Unlimited`, since the code tells 0 from `None`. A replay is one record that the
phases of a bar take and return: admission, the book indexed by price with its heaps and
their versions, candidates that are tried in the order of their numbers (`CandidateTried`), fills,
OCA groups, ledger, risk. The heaps are modelled with their stale entries. `before` is
history: the replay of the call before. Left out are lifecycle events, comments, the
other columns of the report, quantities in percent, series of prices and the operation
budget.

### RangeCache (`_RangeCachingProvider` in `incremental/request.py`)

A session keeps rows it has requested. Its provider is free (`Announce`, `Revise`): it
may promise by a watermark that its rows up to a time are complete and final, withdraw
that before it next answers, and change whatever it has not promised or has not ended.
`Request` is all of `get_ohlcv_view`: the watermark is sampled and may drop the context,
one span of the window is fetched, ended rows under the promise and gaps before the first
open bar are kept, and the limits may drop the context again. `RequestFails` is a provider
that raises after the sampling. `Callback` is `begin_evaluation`, where a clock that goes
back drops everything. Coverage is a set of instants; the code's loops over sorted lists
(`Merged`, `Sweep`, `ObservedSpan`, `LiveSpan`, each a function of the places passed) stand
beside it, and `SweepsAreExact` compares them with the sets. The loops of the code break
early; the model passes every place, where those after the break change nothing.

Abstractions: the rows that open at one instant are one row; an invalid watermark counts
as a withdrawn one. Left out: reads before the first callback (no caller makes one).

### Requests (`request/module.py`, `alignment.py`, `lower_tf.py`, `_current.py`, `_indexed.py`)

The module above: the range asked for a request and how it is widened until it holds enough
history, the contexts kept under the names they were asked by, invalid symbols and
timeframes that are ignored, fields with an offset (`close[1]`), the merge of rows with bars
of the chart (gaps on and off, lookahead), groups of a lower timeframe, and the shortcut for
the last bar alone, which takes the bar to end at the close the host gave with it or one
step of the last two bars later (`CloseBoundary` of the chart so far). Left out: thunks,
which run a script function on the requested bars; currencies, diagnostics, metadata of
symbols.

### The hosts (`executor.py`, `_timeouts.py`, `historical.py`, `external.py`, `trace.py`, `input.py`, `checkpoint.py`)

`ProcessExecutor`: a parent that polls, reads, checks and judges; a worker that computes,
sends and exits, or dies at any moment; a pipe that is empty, partly written or full, since
a thread of the worker writes and a large answer is written while it is read.
`Alarms`: one timer, a stack of blocks with the alarm each of them found, and a caller
whose handler returns, raises, is ignored or kills. `HistoricalSession`: `advance` is one
step per assignment, so that a failure or an interrupt may come between any two.
`ExternalBroker`: a script is the calls of its `init`, `on_bar` and `on_fill`, run over a
history at once, bar by bar, or pass by pass. `TraceRecorder`: spans begin and end in any
order, `emit` meets the bound, and `TraceValues` shows a value only so deep and so long.

`Inputs`: a script is a list of declarations (`input`, `input.int`, `input.enum`,
`input.source`, ...), run with the host's overrides and, once it has ended, with the values
the host was shown (`Rerun`). `Declare` is one of them: the key it is known by (its title,
or the name of its kind, numbered when that is taken), the override found under that key,
its conversion to the kind of the input, the bounds and options it must meet, and the entry
that is kept for the host; or the refusal. `current` of an entry is what a host would hand
back as an override. `Checkpoint`: a session writes its limits, its release and its state
under two hashes; a loader of the same or another release, with the same or other limits,
reads the file under each of the restore policies, and refuses what its own budgets cannot
hold or replay. Texts and hashes are model values: a hash is the thing it is a hash of.

### The indicators (`incremental/ta.py`, `ta.py`, `ta_kernels.py`, `utils.py`)

`StepIndicators` has a record per helper class with the buffers and sums of the code,
`BatchIndicators` the functions over arrays, and `TaKernels` the loops under them with what
they carry from bar to bar: cumulated, block and ring sums, moments about a moving anchor,
weighted recurrences, a Fenwick tree, sorted windows, packed convolution, monotonic queues.
`Indicators` is `ctx.ta` itself: `Create` reserves a window and makes a helper, `Update`
feeds it one bar; a constructor that raises has reserved its window (`CreateRaises`). `fed`
and `outs` are history. Numbers are exact fractions (`Rationals`), so that every agreement
is an equality; a missing value is `Missing`. `KernelsAreExact` says of every kernel what
each window alone says, and `BatchNeverLooksAhead` of every batch indicator that cutting the
array leaves the earlier values. Square roots are represented by their squares and the
weights of ALMA are parameters. Left out: the rounding of binary64, infinities, the
splitting of a convolution by exponents, broadcasting of arguments.

### What a script keeps (`collections.py`, `plot/`, `incremental/drawing.py`, `limits.py`, `context.py`, `state_codec.py`)

`Collections` acts on a heap of objects (`CollectionHeap`), each call one action with the
checks of depth and size that the code makes where it makes them; a slice is an object that
refers to its owner. `Drawings` runs the same calls in both engines at once: `ctx`, with
events and limits, and `page`, the collector of a batch run; `seen` is history: what a
reader of the events has put together. `PlotOutputs` does so for points. `StateCells` is
`ctx.state`, `ctx.varip` and `ctx.window` with the tracker of their budgets; `owned` and
`fed` are history. `StateGraph` encodes a graph of objects as a table and decodes it.
Left out: searches and reductions of collections, which change nothing; texts, colours,
panes and titles, which are passed on.

### Proof modules

`SessionManagerProofs`, `SessionProofs`, `PyneCacheProofs`, `CachesProofs`, `HostsProofs`,
`RulesProofs` (what both strategy engines rest on: sides, triggers, prices), `StrategyProofs`
and `ReplayProofs`, see section 5.

## 3. Runs

All constants are model values or small sets.

| run | question | bounds |
|---|---|---|
| hosts | is the table bounded, are held sessions kept, do counts settle, one creation per key, does it implement the lease table? does every waiting thread and every call of the executor go on? is what a host is told right? | manager: 2 threads, 2 keys for 1 slot, ttl 1, nested and reentrant factories, 3 sessions, 2 unattributed releases; waiters: 3 threads; a feed of 6 events for 2 subscribers; deadlines of 0, 2 and none, clock to 3; alarms: 3 blocks deep, time to 6, every caller; horizon of 3 bars, retention 1, 2 and none, one interrupt; 2 bars, 40 scripts, groups of up to 3 passes; trace of 2 events, 1 slow span, 3 spans; values one level deeper than shown; three scripts of up to 8 inputs whose titles and keys meet, with 22 overrides; checkpoints under every policy, of the same and another release and limit |
| session | is committed state exactly the committed bars? | 3 bar times, 2 previews per bar, retention none, 1, 2; recording none or 2; one interrupted callback, of a bar or a preview, in the first 2 bars of sessions that record 2 |
| caches | does a script get the provider's rows, is only the tail fetched again, are the limits kept, do the sweeps compute the sets? does the script cache drop the right entries, and does no entry live longer through checkpoints? | contexts of 3 and 1 instants sharing a limit of 2 rows and 2 ranges, watermark 2, clocks 1 and 3, rows with and without a closing time; 2 threads, 2 keys (symmetric), limits 1 and 2, ttl none or 1, 2 loads, clock 0..2 |
| strategies | do the books balance, what fills and at what price, do limits and locks hold, in both engines? is no due order missed, and is every replay the same? do indicator helpers and batch functions agree, do buffers stay within what is reserved, are kernels exact, does nothing look ahead? | ten incremental configurations: 2 bars with 2 calls each (1 or 2 contracts on both sides, closes, costs, margin), 4 bars of three shapes with a call each (cancel and reduce groups, brackets, 3 intrabar paths), 3 bars with 2 calls (risk rules in cash and percent); seven batch configurations over 3 or 4 bars with 3 calls of 8 or 9 and a change of settings, limits of 0 among them; every family of indicators, periods 1 to 4, arrays of 3 to 7 bars over alphabets of 2 to 6 values with gaps and ties, a rebase every 2 updates; six helpers that compete for a window of 3 and totals of 6 and 9, and one whose constructor raises |
| containers | are views, copies and stores sound, do the engines show the same, are requests steady? | five heaps with windows of windows, nested arrays, maps and matrices, 2 calls, size 3, depth 2; 4 drawings, 3 calls, events unlimited and 5; 4 bars of plots whose names meet; 5 charts (gaps, closes given, one bar, two steps) by 5 histories by 4 timeframes, 2 requests; 2 bars, 1 preview, a ring of 2, payload unlimited and 8; graphs of 3 objects, budgets of 5 and 2 |
| session_partial_writes, strategy_oca_reduce, strategy_locked_fill, strategy_day_reset, replay_average, requests_lookahead, alarms_nested | one documented sentence each, which TLC finds violated | the smallest instance that shows it |

Why these bounds are enough: in the manager a second incarnation of a key with a third
lease is the smallest case in which a count can be blamed on the wrong one, and a slot for
two keys is the smallest contention; the theorems of section 5 have no bounds. In the
cache, two keys at a limit of one, and a limit that shrinks from two to one, are the
smallest evictions, and a ttl of one can be spent at a checkpoint, before it and after it.
Three instants are a gap, a row and an open bar in any order, with ranges that join and that
do not. A retention of one and of two with three bars passes the limit twice; a recording of
two bars is given up at the third. In the strategies, two lots of one side, a reversal and a
partial close need two contracts and two or three calls; a fill in a scan that liquidates
needs a position and two bars; an order that is popped, kept back and due again needs three
bars. An indicator of period two or three is warm, gapped, and warm again within five to
seven bars, and passes two rebases. A window of a window is the smallest view that must
follow two owners. Three blocks are an inner one, an outer one and one between.

`CHECK_DEADLOCK FALSE` stands in the runs whose behaviours end: scripts that have no bar or
call left, a parent that returned, a value that was shown. In `session` and `caches` every
state has a step. That no thread of the manager is left waiting for nobody is
`CreationsAreSound`, and that it goes on is part of `EveryCallReturns`.

Fairness is assumed in `hosts` only. A thread inside `acquire` keeps running and a factory
ends (weak fairness of `AcquireStep` and `FactoryEnds`): the operating system and the
caller's code provide that; the manager has no timeout of its own. The clock and the parent
of the executor run, and so does the thread of the worker that writes an answer while
somebody reads it; nothing is assumed of the script in the worker.

### What the code does otherwise than its documents say

Seven runs check one documented claim each and TLC finds it violated.

- `session_partial_writes`: `docs/concepts/security_modes.md:120` promises that a failed
  callback with partial writes stops the session. `_run_bar` poisons on `Exception`
  only: after a `KeyboardInterrupt` in a callback the session goes on with half of it.
- `strategy_oca_reduce`: a filled order of a reduce group reduces `qty` of its pending
  siblings, but a pending *entry* is sized by `_requested_fill_qty`, its original
  quantity, and fills in full.
- `strategy_locked_fill`: the lock is tested before the position is read, and reading it
  may liquidate and lock: a pending entry is filled after the lock.
- `strategy_day_reset`: on the first bar of a session the equity is read before the peak
  is set, so a loss since the peak of the *old* session liquidates and locks the new one.
- `replay_average`: an order that reduces a position keeps its average price, while lots are
  closed first in first out (`docs/api/strategy.md:114` says the average is recomputed).
- `requests_lookahead`: `docs/api/request.md:327-328` says of a merge without lookahead that it
  uses the latest requested bar at or before each chart bar, and with lookahead the next one
  at or after it. The code looks back in both, and without lookahead only at bars that have
  ended (`NeverAhead`): what the document describes is what
  `docs/development/code_review_execution_plan_zh.md:860` found wrong, and no longer done.
- `alarms_nested`: a block in a block, when the caller's own alarm rings inside: the alarm
  of the outer block is turned off for good (`tests/test_timeout_composition.py:1`).

More of this kind is in the model, as what the code does, and has no run of its own:

- *Results.* Making a result reads the position, which may liquidate it (`Report`).
  `on_bar_closed` reports after every bar and `seed` after the last one only, though
  `docs/concepts/bar_execution_model.md:160` says that both produce identical output.
- *Previews.* An interrupted preview leaves the intrabar cells of another bar under the time
  of the bar previewed before it; a later preview of that bar is not new and finds them,
  where `docs/concepts/bar_execution_model.md:90-91` and
  `docs/concepts/state_semantics.md:65-67` say that they are reset when the preview moves to
  a new bar. After an interrupted first preview of a bar `isnew` is true twice.
- *Submissions.* An entry is refused for changing the direction of a pending entry that its
  OCA sibling has canceled in the same bar (`SubmitRaises`; `docs/api/strategy.md:707`
  speaks of a still-pending entry). With `process_orders_on_close` a market entry that a
  lock keeps back stays pending and fills on a later bar.
- *Limits of zero.* With `max_intraday_filled_orders` of 0 the batch replay is locked before
  its first bar (`NewReplay`), the incremental account from its first session start on
  (`BeginBar`).
- *Reports.* An order that was triggered and refused is still reported at the price of its
  submission by the replay that triggered it, and at the trigger price by the replays of
  later calls, which find that in `_base_price` (`strategy/replay_events.py:38`,
  `strategy/replay_fills.py:104`); `ReplayRepeats` says so.
- *Collections.* A child that is already stored may grow past the depth limit of its parent
  (`docs/api/settings.md:153`); a later snapshot raises. `slice().reverse()` swaps pair by
  pair with validation and may stop half-way.
- *Indicators.* Batch and step differ, against "batch parity" in
  `docs/reference/pine_like_api_matrix.md:69`, for VWAP without price or volume, Supertrend
  with gaps, DMI with gaps (where the step returns an ADX a hundred times too small,
  `incremental/ta.py:760` against 791, and smooths nothing) and pivot levels without an
  opening price; the inputs of those families have no such bars.
- *Drawings.* An object whose event is refused stays, or stays changed, without an event;
  clearing a table does not tell that its merges went; a batch table may have no rows;
  copies of boxes and some setters exist in batch mode only.
- *Plots.* `show_last` of candles counts bars in one engine and points in the other over
  gaps; a condition that is NaN marks the bar incrementally and does not in batch mode.
- *Requests.* Where the step of a timeframe is inferred, the smallest gap decides when a bar
  counts as ended; a longer later request replaces the context of an earlier one. A session does not
  know when the next bar opens: on a chart with a gap its group of a lower timeframe ends
  one step after the bar, that of a batch run at the next bar (`CurrentBarAgrees` states both).
- *State.* A slice kept in a cell is counted with its owner at commit and released without
  it. A graph with a cycle that is entered at a tuple is written but not read.
- *Executor.* A worker that dies in the middle of an answer leaves its parent waiting for
  the rest without limit (`Torn`; `executor.py:3-5` promises a hard boundary). An answer
  that arrives as the deadline passes may be judged a failure.
- *Events.* A repeated event is answered from memory also after the session has failed;
  `process_bar` before `seed_or_snapshot` makes seeding impossible.
- *External broker.* An order made in `init` gives an intent for bar -1.
- *Alarms.* A timeout that a script swallows is not armed again, and an alarm of the caller
  that was due inside a block counts its next interval from the end of the block.
- *Historical session.* An interrupt between the callback and `last_closed_time` runs the
  bar twice (`"torn"`).

## 4. Mutants

Every property of every passing run has a mutant: a plausible bug in one mapped
definition under which the run violates that property. They are listed in `PROJECT.json`
and stand before the definition they change.

## 5. What is proved

For any number of keys, threads, sessions, bars, rows, orders, lots and clock readings. The
assumptions are the `ConstantsAssumption` of `SessionManager`, `Session` (with
`NoContextAssumption`), `RangeCache`, `IncrementalStrategy` and `StrategyReplay` (there
`ReplayAssumption`; settings, bars and calls of the shapes the code admits; a bar's open and
close lie between its low and its high): finitely many keys, positive limits, intervals of
instants, and "nothing" values that are not sessions, threads, rows or numbers. Those of
`PyneCache` are a hypothesis of its theorems, which `Caches` assumes of its instance
(`ScriptConstants`).

| theorem | module | statement |
|---|---|---|
| TypeCorrect | SessionManagerProofs | `Spec => []TypeOK` |
| CapacityRespected | SessionManagerProofs | the table never exceeds `MaxSessions` |
| CreationsHold | SessionManagerProofs | one factory per key, none over a session, no record without creator; a waiting thread has a creator that runs |
| HeldSessionsStay | SessionManagerProofs | only a forced close takes a held session |
| CountsCoverHolders | SessionManagerProofs | the count is at least the holders, and exact while unambiguous |
| ReleasesSettle | SessionManagerProofs | when all leases of a key are returned nothing is left |
| LeaseTableImplemented | SessionManagerProofs | the manager implements `SessionLeases` under the refinement mapping |
| HostsRight | HostsProofs | what a host is told is right: an event is processed once and repeated with the same answer, a worker gives one answer and is not left behind, the cursor of a horizon agrees with its session, the log of a trace accounts for its spans, and inputs have keys of their own and, given back the values that were shown, say the same again |
| TypeCorrect | SessionProofs | `Spec => []TypeOK` of the session |
| StateIsTheFeed | SessionProofs | what the script kept is exactly the committed bars, unless the session is poisoned or was interrupted |
| RecordingIsComplete | SessionProofs | a complete recording is the feed, and one that was given up is empty |
| CheckpointsRestore | SessionProofs | a healthy session writes no checkpoint that it would itself refuse |
| PreviewsStayIntrabar | SessionProofs | intrabar cells hold what previews of the open bar wrote, beside what one interrupted preview of a later bar may have left; a confirmed callback finds none of it |
| NewBarsAreNew | SessionProofs | `isnew` of a close is true exactly when the bar was not previewed |
| WithinItsLimit | PyneCacheProofs | `PyneCache!TypeOK`: never more than `max_items` entries, no key twice |
| TimeToLiveHolds | PyneCacheProofs, CachesProofs | no entry is served after its time to live, through checkpoints |
| ColdestEvicted | PyneCacheProofs, CachesProofs | what goes was unused for the longest time; what was just loaded stays |
| TypeCorrect | CachesProofs | `Spec => []TypeOK` of the range cache |
| ProviderServed | CachesProofs | every request is answered with the provider's rows |
| OnlyTheTailIsFetched | CachesProofs | a repeated request does not ask again for what is settled |
| LimitsRespected | CachesProofs | `WithinLimits`: the rows and the ranges of all contexts together stay within the limits |
| SweepsFindTheSets | CachesProofs | the loops over sorted ranges and times ask for the span from the first instant neither covered nor kept to the last, and leave the maximal ranges of what is covered |
| LimitsRespectedByBoth | CachesProofs | the two caches side by side hold what they may, within their limits |
| AccountIsTyped | StrategyProofs | `IncrementalStrategy!TypeOK`: lots of one side, none empty, gains and losses of their own sign, locked exactly for a reason, no scan left open |
| AccountBalances | StrategyProofs | the profit booked is the money that moved, the commission charged is what the trades carry |
| LimitsHold | StrategyProofs | `max_position_size` and `max_intraday_filled_orders` hold after every operation |
| EveryFillIsDue | StrategyProofs | limits, stops and brackets fill at prices of their bar, and nothing fills that was canceled, but inside a liquidation |
| LocksHold | StrategyProofs | until a new session a locked account neither grows nor turns |
| LossIsLimited | StrategyProofs | a call that looks at the position leaves it within the loss limit, and a liquidation in a callback leaves nothing to trade |
| BatchAccountIsRight | ReplayProofs | in a batch replay, at every step: the position is the sum of its lots, profit is the money that moved, commission is carried by trades; no lock is broken; and no order that a bar triggers is missed by the heaps |

### The argument

*Manager.* `TypeOK` is inductive. Capacity needs only that installing a session is
preceded by `SlotEnsured` in the same step. `SingleFlight` and `WaitersHaveCreator` are
not inductive: `CallInv` (`CallsMatch`) adds that the stacks, the creation records and
the table tell one story - all calls of a stack but the top one are in their factories, a
factory on a stack is the one on record, and a key under creation has no session. The
lease properties rest on `LeaseInv`: per key, `Account` relates the session's reference
count, the counts per token and the unattributed releases to the set of unreturned
leases (the sum of the counts less the unattributed releases is the number of leases,
and each count covers the leases of its token); tokens in use were minted; and a thread
inside `acquire` has asked once. Each way of granting, returning and dropping has a lemma
that keeps `Account`, and the frame lemmas carry it to the other keys.

*Refinement.* Under these two invariants every step of the manager is a step of
`SessionLeases` or a stutter, by a case for each action: a session that is evicted or
expires is idle, so not leased (`IdleIsUnheld`, from `LeaseInv`); one is installed only
where none is (`CallInv`); the last lease goes with its session (`ReturnedAt`); and a table
that loses idle sessions stays within the capacity (`FewerIdle`).

*Hosts.* `HostsInv` is the conjunction of five invariants, each preserved by the steps of
its own component and untouched by the others. For inputs it must be shown that a number is
always free: among the `n + 1` numbers from 2 on, one gives a key that none of the `n`
entries has (`FreeNumber`, by the pigeonhole principle for finite sets), so the least one exists
(`LeastNumber`, by the well-foundedness of `<` on the numbers) and `NextKeyIsNew`. That the
second run repeats the first (`InputsRepeat`) needs that a conversion accepts its own results
and returns them (`ResultsRepeat`), and that each declaration is a function of the entries
before it, which are a prefix of what was shown (`Prefixes`).

*Session.* `IInv` describes every field of the session, and the host's checkpoint, as a
function of the feed: the clocks (`ClocksTell`), the recording (`RecordingTells`), each
place the script writes to (`PlacesTell`), what is not used yet (`UnusedInv`), the bars
waiting in a seed or a replay (`QueueInv`), the preview (`PreviewInv`) and what was saved
(`SavedInv`). It has to speak of poisoned and interrupted sessions too, which hold half of a
bar, and of a replay that has come half-way, where the fields follow the bars done and not
the feed. `CommitKeeps`, `PoisonKeeps` and `RestoreKeeps` are the three things any call
amounts to; `NewestAppend` and `PrunedKeepsPace` say that pruning and appending commute, so
that all places retain the same bars.

*Script cache.* `IInv` says that clock readings tell what history tells (`TimesAgree`), in
the dict (`GoodTable`) and in the snapshot (`GoodSnapshot`), where no two keys have one
place. So eviction follows a strict total order (`OlderIsStrict`), the number of newer
entries is different for each key, and as many entries remain as there are ranks below the
limit (`RemainingFits`). What was just loaded is either the newest, or keeps its place, and
then only the other entries, which are fewer than the limit, may be newer (`LoadedStays`).
`CachesProofs` carries the theorems to the specification with both caches that the run
checks.

*Range cache.* `ServesTheProvider` is not inductive: `CacheInv` says why a kept row is
right. While the promise a context is kept under stands, everything kept lies under it, has
ended by the clock, and is what the provider has, so that `Revise` cannot touch it; once the
promise was lowered, the provider owes a read of the lower one (`owed`), and that read
drops the context. `LowerIsOrder` orders the watermarks, `ReadIsSound` shows that a read
keeps only what may be kept (`MayKeep`), and each action has a lemma. For the tail,
`NothingSettledIsUnknown` takes the first instant a repeated read would ask for: if all up
to it is promised and has ended it was a row, which is durable, or a gap before any open
bar, which is covered. The limits are about sums over all contexts (`MapThenSumSet`): such a
sum is a recursive function on the subsets of the keys, which exists for finite sets
(`SumExists`) and grows with what is summed (`SumsGrow`); so a read that does not overflow
fits (`KeptFits`), and so does every step that keeps less (`LessFits`).

*Incremental strategy.* The invariant (`AccountInv`) is short: between operations the book
is `Sound`, its locks follow their reasons (`Locks`), and nothing is being scanned. The
work is below it, since an operation is a chain of dozens of steps on a book, in any of which a
read may liquidate. Each step has a lemma that says what it keeps:
- `Money(b, x, y)` is double entry with a remainder: the order that is being executed has moved `x`
  of cash and been charged `y` that no trade carries yet. `Paid` opens the remainder,
  `Covered` and `Opened` bring it back to zero (`ExecutedIs`), and in between a liquidation
  keeps it (`SyncIs`). `ClosingIs` follows `_close_lots` lot by lot: what the lots give up
  is the part of the commission and of the price that was asked for, whatever the shares
  are rounded to.
- `Sound` adds the shapes of pending orders and of the fills noted, with the bar of the
  operation as a parameter. That limits and stops fill within the bar is
  `TriggerIs`, case by case; that no reversal passes the size limit is the
  arithmetic of `Capped` against the position at the time of the fill.
- `After` says how flags move: locks are only added, a running scan keeps the length of its
  list, and an operation that liquidates outside a scan leaves no order, bracket or lot.
  `Calm` adds that nothing is opened, `Frozen` that a locked book keeps its money,
  `Shrinks` that the position only goes towards zero.
- The scans are followed place by place (`ScannedIs`, `ExitsScannedIs`). The recursive
  functions of the model are unfolded once each, through the existence of such a function
  at every length; the induction is `AllPlaces`, a set of numbers with 0 and successors,
  which rests on the well-foundedness of `<`.

`TypeOK`, `BooksBalance` and `RiskLimitsHold` are not inductive without this: that an order
which was not canceled still has contracts (`SoundOrder`), that `filledLocked` is set when
the count reaches the limit (`Counts`), and that `scanning` is off between operations, are what
the steps rely on.

*Batch replay.* `BatchAccountHolds` is four things that hold for different reasons, so the
invariant (`ReplayInv`) has a part for each, over the record of the replay:
- `Sound` is its shape; `Balanced` double entry, which says of every lot that its side is
  the position's and that what it carries is what was paid for it. A closing passes the
  lots place by place (`ClosingUnfold`, with `AllPlaces` as the induction), and `LotGives`
  says what each gives: its part of what is left to close, at its price and its fee.
- `Orders` says that an order has one end (it is filled, canceled, rejected or active) and
  terms its trigger can use; `Locks` that a lock has its reason.
- `Heap` is what `NoOrderMissed` needs: for each active order, the heaps hold an entry with
  its present version at its present thresholds, among whatever stale entries there are. So
  an order that a bar triggers is reached by popping up to the bar's extremes
  (`TriggerReaches`), or is a stop-limit that was armed and is seen as armed (`SeenReaches`).
  Each way of putting orders back (kept back, reduced, armed, added) restores it.
- `Midway` and `Whole` say what holds inside a scan, where candidates have been popped and
  not yet put back, and between the phases of a bar.

*Sweeps.* `sorted` is described first: in a strict total order the number of elements before
each gives it a place of its own (`PlacesDiffer`), so a list in that order exists and has
every element once (`OrderedLists`). Then each loop has an invariant over the places passed.
`Gapped` lists have an instant between any two ranges; `JoinedIs` shows that a range which
starts after the others keeps that and adds just its own instants, so merging keeps the
instants (`MergedIs`), and a gapped list is the list of maximal ranges (`GappedRanges`).
`At` says where the cursor stands: it is the end of a range already passed, all of them end
before it or start after the request, and the holes found are what none of them holds
(`SweptIs`). In `ObservedSpanIs` the left edge is never an instant already passed, and
everything before it has been observed; the right edge likewise. `SpannedIs` adds one hole
to a span. That what a read covers is one range (`CoverageIsMerged`) is where the promise
and the clock come in: both hold of every instant before one of which they hold.

### What is only model-checked

- Of the batch replay, the index of open trades by bar (`OpenTradesByBar`), a tree of counts
  whose steps are powers of two, and that replays repeat (`ReplayRepeats`): the repeated replay
  has orders in its list that the first one made on the way, at other places, so that the two
  can only be compared up to a renaming. Three calls and three bars of seven configurations.
- Indicators, whose definitions are recursions over arrays that the prover could follow only
  family by family, and containers.
- Of the hosts, the alarms, the external broker, the values of traces and checkpoints
  (`DeadlinesIntentsAndFilesHold`).
- Liveness (`EveryCallReturns`).

Out of the prover's reach are liveness under fairness, `ENABLED`, induction over data
through the library's induction theorems (which take an operator as a parameter), and
modules with `RECURSIVE` operators (`Alarms`, `Checkpoint`, `Rationals`, `StateGraph`,
`TraceValues`), which are used by runs only.

## 6. Not modelled, and what could come next

Not modelled, since no state of theirs outlives a call: results, detection of callbacks and
comparison of engines; the assembly of a batch run; element-wise series and values; the
schema beside the inputs; static tooling, request conformance and the command line; the helper
namespaces. The security policy is a walk over a syntax tree. Of modelled components the
notes in `PROJECT.json` name what is left out; the larger parts are thunks and currencies
of requests, lifecycle events and columns of the replay's report, searches of collections,
texts and colours. Numbers are exact: rounding of binary64, infinities and the precision of
packed convolution are beyond a model checker, so agreement of the engines is shown for
exact arithmetic only.

Theorems that could follow: the index of open trades of `StrategyReplay`; a heap of
collections whose views stay inside their owners; the ring of `ctx.window` as a refinement
of a bounded queue. Runs that could follow: a session with drawings and plots inside, so
that a failed callback and a restore meet their budgets; brackets and trailing stops with
three lots; threads that share one range cache, when the library supports that.
