------------------------------ MODULE Requests ------------------------------
(***************************************************************************)
(* request.security() and request.security_lower_tf() of one run           *)
(* (request/module.py): the range asked of the host's provider, widened    *)
(* until it holds history enough, the contexts kept for later requests,    *)
(* the merge of the rows with the bars of the chart (request/alignment.py, *)
(* request/lower_tf.py), and the shortcut for the current bar only         *)
(* (request/_current.py, request/_indexed.py).                             *)
(***************************************************************************)
EXTENDS Integers, SequencesExt

CONSTANTS Charts,        \* charts: opening times, the step of the timeframe, and
                         \* the closes the host gives (UnknownStep where it does not)
          Histories,     \* rows of the provider, in order: [time, close]
          Timeframes,    \* requested timeframes
          StepOf,        \* their duration, and UnknownStep where the text has none
          Offsets,       \* bars back of a field expression: close[1]
          Symbols, Invalid,       \* symbols, and the one the provider does not know
          Na, UnknownStep,
          Minute,                 \* the shortest step a lower timeframe is compared with
          Factor, MaxWidenings,   \* _ADAPTIVE_WIDENING_FACTOR, _MAX_ADAPTIVE_WIDENINGS
          MaxRequests

VARIABLES chart,         \* the bars of the run
          history,       \* external: what the provider has
          cache,         \* _requested_context_cache
          aliases,       \* _requested_context_aliases
          last,          \* the last request and what it returned
          requests

vars == <<chart, history, cache, aliases, last, requests>>

Times == chart.times
Bars == Len(Times)
Known(step) == step # UnknownStep
Larger(m, n) == IF m > n THEN m ELSE n
Smaller(m, n) == IF m < n THEN m ELSE n
Lowest(s) == CHOOSE m \in s : \A n \in s : m <= n
Highest(s) == CHOOSE m \in s : \A n \in s : m >= n
TimesOf(rows) == [i \in DOMAIN rows |-> rows[i].time]
Steps(times) == {times[i + 1] - times[i] : i \in {j \in DOMAIN times : j < Len(times)}} \ {0}

-----------------------------------------------------------------------------
(* The range to ask for.                                                   *)

LastPositiveStep(times) ==                     \* _last_positive_chart_step
    IF Steps(times) = {} THEN UnknownStep
    ELSE LET i == Highest({j \in DOMAIN times : j < Len(times) /\ times[j + 1] > times[j]})
         IN  times[i + 1] - times[i]
\* The end of the chart up to one of its bars: the close given with that bar, or
\* the step before it, which need not be the step after it.
CloseBoundary(times) ==                        \* _chart_close_boundary
    CASE Known(chart.closes[Len(times)]) -> chart.closes[Len(times)]
      [] ~Known(chart.closes[Len(times)]) /\ Known(LastPositiveStep(times)) ->
            times[Len(times)] + LastPositiveStep(times)
      [] OTHER -> times[Len(times)] + chart.step
WindowStart(times, tf, warmup) ==              \* _request_provider_window
    LET step == IF Known(StepOf[tf]) THEN StepOf[tf] ELSE LastPositiveStep(times)
    IN  IF Known(step) THEN Larger(0, times[1] - warmup * step) ELSE times[1]

\* The provider returns the rows that open in the range, both ends included.
Provided(from, to) == SelectSeq(history, LAMBDA r : from <= r.time /\ r.time <= to)
Before(rows, time) == Len(SelectSeq(rows, LAMBDA r : r.time < time))

-----------------------------------------------------------------------------
(* The requested contexts.  A key is a symbol, a timeframe and a range.    *)

Resolved(key) ==                               \* the key at the end of the aliases
    LET step(k) == IF k \in DOMAIN aliases THEN aliases[k] ELSE k
    IN  FoldLeft(LAMBDA k, i : step(k), key, [i \in 1 .. Cardinality(DOMAIN aliases) |-> i])
Serves(entry, from, minimum) ==
    \/ entry.rows = <<>>
    \/ entry.prechart >= minimum
    \/ from <= 0
    \/ Times[1] - from <= 0
    \/ entry.exhausted /\ minimum <= entry.attempted

\* Widening w multiplies the lookback by Factor^w.  The first attempt that is
\* good enough, or the last one allowed, is kept.
WidenedStart(from, w) == Larger(0, Times[1] - (Times[1] - from) * Factor ^ w)
Enough(from, to, minimum, w) ==
    LET rows == Provided(WidenedStart(from, w), to)
    IN  \/ rows = <<>>
        \/ Before(rows, Times[1]) >= minimum
        \/ w >= MaxWidenings
        \/ WidenedStart(from, w) <= 0
        \/ from >= Times[1]
Attempt(from, to, minimum, first) ==
    LET w == Lowest({v \in first .. MaxWidenings : Enough(from, to, minimum, v)})
        start == WidenedStart(from, w)
        rows == Provided(start, to)
    IN  [start |-> start, rows |-> rows, prechart |-> Before(rows, Times[1]),
         attempted |-> minimum, widenings |-> w,
         exhausted |-> rows # <<>> /\ Before(rows, Times[1]) < minimum]

\* A bug the cache could have: an answer is reused however short it is.
MutantAnyAnswer(initial, key, minimum) ==
    [initial |-> initial, key |-> key, minimum |-> minimum, hit |-> key \in DOMAIN cache]
Found(initial, key, minimum) ==
    [initial |-> initial, key |-> key, minimum |-> minimum,
     hit |-> key \in DOMAIN cache /\ Serves(cache[key], key.from, minimum)]
InitialKey(symbol, tf, minimum) ==
    [symbol |-> symbol, tf |-> tf, from |-> WindowStart(Times, tf, minimum), to |-> CloseBoundary(Times)]
Lookup(symbol, tf, minimum) ==
    Found(InitialKey(symbol, tf, minimum), Resolved(InitialKey(symbol, tf, minimum)), minimum)

Put(f, key, value) == [k \in DOMAIN f \cup {key} |-> IF k = key THEN value ELSE f[k]]

Answered(kind, found, rows, from, hit, offset) ==
    last' = [kind |-> kind, symbol |-> found.initial.symbol, tf |-> found.initial.tf, offset |-> offset,
             minimum |-> found.minimum, rows |-> rows, start |-> from, hit |-> hit]

Minimum(offset) == Larger(Bars, offset)

FromMemory(kind, found, offset) ==
    /\ Answered(kind, found, cache[found.key].rows, found.key.from, TRUE, offset)
    /\ UNCHANGED <<cache, aliases>>
Remember(initial, final, fetched) ==
    /\ cache' = Put(cache, final, [rows |-> fetched.rows, prechart |-> fetched.prechart,
                                   attempted |-> fetched.attempted, exhausted |-> fetched.exhausted])
    /\ aliases' = IF initial = final THEN aliases ELSE Put(aliases, initial, final)
FromProvider(kind, found, fetched, offset) ==
    /\ Answered(kind, found, fetched.rows, fetched.start, FALSE, offset)
    /\ Remember(found.initial, [found.initial EXCEPT !.from = fetched.start], fetched)

\* An entry that is too short is asked for again with the next wider range.
Respond(kind, found, offset) ==
    IF found.hit THEN FromMemory(kind, found, offset)
    ELSE IF found.key \in DOMAIN cache
    THEN FromProvider(kind, found, Attempt(found.key.from, found.key.to, found.minimum, 1), offset)
    ELSE FromProvider(kind, found, Attempt(found.initial.from, found.key.to, found.minimum, 0), offset)
Request(kind, symbol, tf, offset) ==
    /\ requests < MaxRequests /\ requests' = requests + 1
    /\ symbol # Invalid
    /\ Respond(kind, Lookup(symbol, tf, Minimum(offset)), offset)
    /\ UNCHANGED <<chart, history>>

\* An invalid symbol that is ignored: no rows, and nothing is kept.
IgnoreInvalid(kind, tf, offset) ==
    /\ requests < MaxRequests /\ requests' = requests + 1
    /\ LET found == Lookup(Invalid, tf, Minimum(offset))
       IN  Answered(kind, found, <<>>, found.initial.from, FALSE, offset)
    /\ UNCHANGED <<chart, history, cache, aliases>>

\* A lower timeframe that is not lower, ignored: no rows.  Charts of less than a
\* minute are not compared.
ChartSeconds(times) ==
    IF Steps(times) = {} \/ Lowest(Steps(times)) < Minute THEN UnknownStep ELSE Lowest(Steps(times))
NotLower(tf) == /\ Known(StepOf[tf]) /\ Known(ChartSeconds(Times))
                /\ StepOf[tf] >= ChartSeconds(Times)
IgnoreTimeframe(tf, offset) ==
    /\ requests < MaxRequests /\ requests' = requests + 1
    /\ NotLower(tf)
    /\ LET found == Lookup(CHOOSE s \in Symbols : s # Invalid, tf, Bars)
       IN  Answered("lower", found, <<>>, found.initial.from, FALSE, offset)
    /\ UNCHANGED <<chart, history, cache, aliases>>

Security(symbol, tf, offset) == Request("security", symbol, tf, offset)
SecurityLowerTf(symbol, tf, offset) == Request("lower", symbol, tf, offset)

Init ==
    /\ chart \in Charts /\ history \in Histories
    /\ cache = <<>> /\ aliases = <<>>
    /\ last = [kind |-> "none"] /\ requests = 0

Next ==
    \E tf \in Timeframes, offset \in Offsets :
        \/ \E symbol \in Symbols : Security(symbol, tf, offset)
        \/ \E symbol \in Symbols : SecurityLowerTf(symbol, tf, offset)
        \/ IgnoreInvalid("security", tf, offset)
        \/ IgnoreTimeframe(tf, offset)

Spec == Init /\ [][Next]_vars

-----------------------------------------------------------------------------
(* The values of an expression, and their merge with the chart.            *)

Shifted(values, offset) ==                     \* _apply_history_offset
    [i \in DOMAIN values |-> IF i <= offset THEN Na ELSE values[i - offset]]
FieldValues(rows, offset) == Shifted([i \in DOMAIN rows |-> rows[i].close], offset)

InferStep(times) == IF Steps(times) = {} THEN UnknownStep ELSE Lowest(Steps(times))
StepOrHint(step, hint) == IF Known(step) THEN step ELSE hint
\* A bug the alignment could have: the bar is taken for closed at its opening.
\* A row is known when the chart bar ends that ends with it or after it.
ConfirmationShift(chartTimes, times, tf) ==
    LET chartStep == StepOrHint(InferStep(chartTimes), chart.step)
        step == StepOrHint(InferStep(times), StepOf[tf])
    IN  IF Known(step) /\ Known(chartStep) /\ step > chartStep THEN step - chartStep ELSE 0

AlignedValue(time, times, shift, values, gaps) ==
    LET upTo == Cardinality({i \in DOMAIN times : times[i] + shift <= time})
        at == {i \in DOMAIN times : times[i] + shift = time}
    IN  IF gaps THEN (IF at = {} THEN Na ELSE values[Lowest(at)])
        ELSE IF upTo = 0 THEN Na ELSE values[upTo]
Aligned(rows, tf, offset, gaps, lookahead) ==
    LET times == TimesOf(rows)
        shift == IF lookahead THEN 0 ELSE ConfirmationShift(Times, times, tf)
        values == FieldValues(rows, offset)
    IN  [b \in DOMAIN Times |-> AlignedValue(Times[b], times, shift, values, gaps)]

\* The shortcut of an incremental session: the value of its last bar only.
CurrentSecurity(chartTimes, rows, tf, offset, gaps, lookahead) ==
    LET shift == IF lookahead THEN 0 ELSE ConfirmationShift(chartTimes, TimesOf(rows), tf)
    IN  AlignedValue(chartTimes[Len(chartTimes)], TimesOf(rows), shift, FieldValues(rows, offset), gaps)

\* _group_single_lower_timeframe_values
NextTime(chartTimes, b, end) == IF b < Len(chartTimes) THEN chartTimes[b + 1] ELSE end
Groups(chartTimes, end, rows, offset) ==
    LET values == FieldValues(rows, offset)
        below(time) == Cardinality({i \in DOMAIN rows : rows[i].time < time})
    IN  [b \in DOMAIN chartTimes |->
            SubSeq(values, below(chartTimes[b]) + 1, below(NextTime(chartTimes, b, end)))]
CurrentGroup(chartTimes, end, rows, offset) ==
    Groups(<<chartTimes[Len(chartTimes)]>>, end, rows, offset)[1]

\* LowerTimeframeSeries: sums of the groups, over one flat array cut at the
\* places where the groups that have a value start (numpy's reduceat).
Present(group) == SelectSeq(group, LAMBDA v : v # Na)
SumOf(values) == FoldLeft(LAMBDA n, v : n + v, 0, values)
NumericGroups(groups) ==
    LET counts == [g \in DOMAIN groups |-> Len(Present(groups[g]))]
    IN  [flat |-> FlattenSeq([g \in DOMAIN groups |-> Present(groups[g])]), counts |-> counts,
         offsets |-> [g \in 1 .. Len(groups) + 1 |-> SumOf(SubSeq(counts, 1, g - 1))]]
Aggregate(groups) ==
    LET n == NumericGroups(groups)
        filled == SelectSeq([g \in DOMAIN groups |-> g], LAMBDA g : n.counts[g] > 0)
        stop(k) == IF k < Len(filled) THEN n.offsets[filled[k + 1]] ELSE Len(n.flat)
        place(g) == CHOOSE k \in DOMAIN filled : filled[k] = g
    IN  [g \in DOMAIN groups |->
            IF n.counts[g] = 0 THEN Na
            ELSE SumOf(SubSeq(n.flat, n.offsets[g] + 1, stop(place(g))))]

\* RowIndex and IndexedRows: a window on appended rows knows its smallest step
\* when it starts at the first row or has one row, also with rows put after it.
MinimumSteps(times) ==
    [i \in DOMAIN times |-> InferStep(SubSeq(times, 1, i))]
FastStepKnown(left, right) == left = 0 \/ right - left <= 1
FastStep(times, left, right, tail) ==
    LET start == IF left = 0 /\ right > 0 THEN MinimumSteps(times)[right] ELSE UnknownStep
        kept == SubSeq(times, left + 1, right)
        previous(i) == IF i > 1 THEN tail[i - 1]
                       ELSE IF kept # <<>> THEN kept[Len(kept)] ELSE tail[1]
        steps == {tail[i] - previous(i) : i \in DOMAIN tail} \ {0}
    IN  IF steps = {} THEN start
        ELSE IF Known(start) THEN Smaller(start, Lowest(steps)) ELSE Lowest(steps)

-----------------------------------------------------------------------------
(* Properties.                                                             *)

Answers == last.kind # "none"

\* A run never works with less history than it could have had: the rows of an
\* answer are those of the provider for its range, and they reach back far
\* enough, or the range starts at 0, or the widenings were used up.
EnoughHistory ==
    Answers /\ last.symbol # Invalid /\ last.rows # <<>> =>
        /\ last.rows = Provided(last.start, CloseBoundary(Times))
        /\ \/ Before(last.rows, Times[1]) >= last.minimum
           \/ last.start <= 0
           \/ last.start >= Times[1]
           \/ Times[1] - last.start >= Factor ^ MaxWidenings

\* Asking again is served from memory, with rows that end alike, whichever
\* aliases and longer requests came between; and it reads the same values.
AskingAgainHits ==
    \A key \in DOMAIN cache \cup DOMAIN aliases :
        Resolved(key) \in DOMAIN cache
AnswersAreStable ==
    [][Answers /\ last'.hit /\ last'.kind = last.kind /\ last'.symbol = last.symbol
       /\ last'.tf = last.tf /\ last'.offset = last.offset =>
          \A gaps \in BOOLEAN, lookahead \in BOOLEAN :
              Aligned(last.rows, last.tf, last.offset, gaps, lookahead)'
                 = Aligned(last.rows, last.tf, last.offset, gaps, lookahead)]_vars

\* The steps the code infers from the times are those of the timeframes.
StepsAreSeen(chartTimes, rows, tf) ==
    /\ Steps(chartTimes) # {} => InferStep(chartTimes) = chart.step
    /\ Steps(TimesOf(rows)) # {} => InferStep(TimesOf(rows)) = StepOf[tf]
    /\ Known(StepOf[tf])

\* Without lookahead a chart bar never sees a requested bar that ends after it
\* (unless it is of a shorter timeframe, whose bars end at their opening here),
\* and sees the latest one that has ended; values are rows' closes, so that what
\* is seen tells the row.
NeverAhead ==
    Answers /\ last.rows # <<>> /\ StepsAreSeen(Times, last.rows, last.tf) /\ StepOf[last.tf] >= chart.step =>
        \A b \in DOMAIN Times :
            LET ended == {i \in DOMAIN last.rows :
                            last.rows[i].time + StepOf[last.tf] <= Times[b] + chart.step}
            IN  Aligned(last.rows, last.tf, 0, FALSE, FALSE)[b]
                   = IF ended = {} THEN Na ELSE last.rows[Highest(ended)].close

\* What a session that ends at bar n of the chart is given: the rows up to the end
\* it takes that bar to have (its first row, which depends on its own history, is
\* taken to be that of the whole run).
SoFar(n) == SubSeq(Times, 1, n)
RowsSoFar(n) == SelectSeq(last.rows, LAMBDA r : r.time <= CloseBoundary(SoFar(n)))

StepsAgree(n) == /\ StepsAreSeen(SoFar(n), RowsSoFar(n), last.tf)
                 /\ StepsAreSeen(Times, last.rows, last.tf)

\* The shortcut gives at every bar of the chart the value a batch run gives there,
\* although it only knows the chart and the rows up to that bar.  Its group of a
\* lower timeframe is cut at the end it takes the bar to have: where the next bar
\* opens then, it is the group of the batch run; where the chart has a gap or the
\* bar another close, one of the two starts with the other.
CurrentBarAgrees ==
    Answers /\ last.rows # <<>> =>
        \A n \in 1 .. Bars :
            /\ \A gaps \in BOOLEAN, lookahead \in BOOLEAN :
                  lookahead \/ StepsAgree(n) =>
                      CurrentSecurity(SoFar(n), RowsSoFar(n), last.tf, last.offset, gaps, lookahead)
                         = Aligned(last.rows, last.tf, last.offset, gaps, lookahead)[n]
            /\ LET end == CloseBoundary(SoFar(n))
                   current == CurrentGroup(SoFar(n), end, RowsSoFar(n), last.offset)
                   batch == Groups(Times, CloseBoundary(Times), last.rows, last.offset)[n]
               IN  /\ IsPrefix(current, batch) \/ IsPrefix(batch, current)
                   /\ end = NextTime(Times, n, CloseBoundary(Times)) => current = batch

\* The rows from the first bar to the end of the chart are in one group each,
\* in order; sums over the flat array are the sums of the groups; and the step a
\* window knows is the one its times have.
GroupsPartition ==
    Answers =>
        LET groups == Groups(Times, CloseBoundary(Times), last.rows, last.offset)
            values == FieldValues(last.rows, last.offset)
            times == TimesOf(last.rows)
        IN  /\ FlattenSeq(groups) =
                 SubSeq(values, Before(last.rows, Times[1]) + 1, Before(last.rows, CloseBoundary(Times)))
            /\ \A g \in DOMAIN groups :
                  Aggregate(groups)[g] = IF Present(groups[g]) = <<>> THEN Na ELSE SumOf(Present(groups[g]))
            /\ \A left \in 0 .. Len(times), right \in 0 .. Len(times) :
                  left <= right /\ FastStepKnown(left, right) =>
                      FastStep(times, left, right, SubSeq(times, right + 1, Len(times)))
                         = InferStep(SubSeq(times, left + 1, Len(times)))

\* What docs/api/request.md says of the merge: without lookahead the latest
\* requested bar that opens at or before the chart bar, with it the next one at or
\* after the chart bar.  The code looks back in both, and without lookahead only
\* at bars that have ended.
DocumentedLookahead ==
    Answers /\ last.kind = "security" /\ last.symbol # Invalid /\ last.rows # <<>> =>
        \A b \in DOMAIN Times :
            LET before == {i \in DOMAIN last.rows : last.rows[i].time <= Times[b]}
                after == {i \in DOMAIN last.rows : last.rows[i].time >= Times[b]}
                shown(lookahead) == Aligned(last.rows, last.tf, 0, FALSE, lookahead)[b]
            IN  /\ before # {} => shown(FALSE) = last.rows[Highest(before)].close
                /\ after # {} => shown(TRUE) = last.rows[Lowest(after)].close
=============================================================================
