----------------------------- MODULE RangeCache -----------------------------
(***************************************************************************)
(* The rows a session has requested from its data provider                 *)
(* (_RangeCachingProvider of incremental/request.py).  A provider may      *)
(* promise, by a watermark it is asked for at every read, that its rows up *)
(* to a coordinate are complete and final; it may withdraw the promise, and *)
(* it revises what it has not promised and what has not ended yet.  Rows    *)
(* and gaps under the promise are kept; everything else is fetched again.   *)
(*                                                                         *)
(* A coordinate is an opening time, and every instant of the interval      *)
(* Coordinates[k] is one: most have no row.  The rows that open at one      *)
(* coordinate are one row here (the code keeps them as a group).            *)
(*                                                                         *)
(* A request calls begin_evaluation before its first read of a callback, so *)
(* _chart_time is a number whenever the cache is read, and the branches for *)
(* a missing one are not modelled.                                         *)
(***************************************************************************)
EXTENDS Integers, FiniteSetsExt, SequencesExt

CONSTANTS
    Keys,        \* pairs of a symbol and a timeframe
    Coordinates, \* per key, an interval of opening times
    Contents,    \* contents of a row
    Closes,      \* explicit time_close a row may have
    Clocks,      \* chart times of callbacks
    Watermarks,  \* per key, the watermarks its provider may return
    Step,        \* duration of a bar, NoStep for calendar periods and ticks
    MaxBars,     \* max_cached_bars
    MaxRanges,   \* max_covered_ranges
    NoStep, NoRow, NoClose,
    NoPromise,   \* the watermark is None
    Invalid      \* get_finalized_through raised or returned no integer

ASSUME ConstantsAssumption ==
    /\ Coordinates \in [Keys -> SUBSET Int]
    /\ \A k \in Keys : \A a, b \in Coordinates[k] : a..b \subseteq Coordinates[k]
    /\ IsFiniteSet(Keys) /\ \A k \in Keys : IsFiniteSet(Coordinates[k])
    /\ Watermarks \in [Keys -> SUBSET Int]
    /\ Closes \subseteq Int /\ Clocks \subseteq Int
    /\ Step \in (Nat \ {0}) \cup {NoStep}
    /\ MaxBars \in Nat \ {0} /\ MaxRanges \in Nat \ {0}
    /\ NoStep \notin Int /\ NoClose \notin Int /\ NoPromise \notin Int
    /\ Invalid \notin Int \cup {NoPromise}
    /\ NoRow \notin [content: Contents, close: Closes \cup {NoClose}]

VARIABLES
    clock,  \* _chart_time, the clock of the running callback
    bars,   \* _bars: the rows kept, per key a function on some coordinates
    covered,\* _ranges, as the set of the instants in them
    final,  \* _finalized_through
    rows,   \* external: the rows of the provider
    word,   \* external: what get_finalized_through returns
    owed    \* external: word was lowered and not been read since

cache == <<bars, covered, final>>
provider == <<rows, word, owed>>
vars == <<clock, bars, covered, final, rows, word, owed>>

-----------------------------------------------------------------------------
(* The interval algorithms: ranges are pairs <<first, last>> of instants,  *)
(* both included.  The loops of the code leave early; here every element   *)
(* is passed, because on sorted input those after the break change nothing.*)


\* sorted: the elements of S one by one, each before the next by the order.
Ordered(S, order) ==
    CHOOSE list \in [1 .. Cardinality(S) -> S] :
        \A i, j \in 1 .. Cardinality(S) : i < j => <<list[i], list[j]>> \in order
Precedes(p, q) == p[1] < q[1] \/ (p[1] = q[1] /\ p[2] < q[2])
Sorted(ranges) == Ordered(ranges, {p \in ranges \X ranges : Precedes(p[1], p[2])})
InOrder(times) == Ordered(times, {p \in times \X times : p[1] < p[2]})

\* _merge_ranges: one range joins the last one it touches.
MutantJoinsAcrossGap(merged, r) ==
    IF r[2] < r[1] THEN merged
    ELSE IF merged = <<>> \/ r[1] > Last(merged)[2] + 2 THEN Append(merged, r)
    ELSE [merged EXCEPT ![Len(merged)] = <<@[1], Max({@[2], r[2]})>>]
Joined(merged, r) ==
    IF r[2] < r[1] THEN merged
    ELSE IF merged = <<>> \/ r[1] > Last(merged)[2] + 1 THEN Append(merged, r)
    ELSE [merged EXCEPT ![Len(merged)] = <<@[1], Max({@[2], r[2]})>>]
Merged(ranges) ==
    LET list == Sorted(ranges)
        merged[i \in 0 .. Cardinality(ranges)] ==
            IF i = 0 THEN <<>> ELSE Joined(merged[i - 1], list[i])
    IN  merged[Cardinality(ranges)]

\* _missing_ranges: a sweep from start; its state is the holes and the cursor.
Swept(sweep, r, end) ==
    IF r[2] < sweep.cursor \/ r[1] > end THEN sweep
    ELSE [holes |-> IF r[1] <= sweep.cursor THEN sweep.holes
                    ELSE Append(sweep.holes, <<sweep.cursor, Min({r[1] - 1, end})>>),
          cursor |-> r[2] + 1]
Sweep(start, end, list) ==
    LET sweep[i \in 0 .. Len(list)] ==
            IF i = 0 THEN [holes |-> <<>>, cursor |-> start]
            ELSE Swept(sweep[i - 1], list[i], end)
    IN  sweep[Len(list)]
MissingRanges(start, end, ranges) ==
    IF end < start THEN <<>>
    ELSE LET sweep == Sweep(start, end, Merged(ranges))
         IN  IF sweep.cursor <= end THEN Append(sweep.holes, <<sweep.cursor, end>>) ELSE sweep.holes

\* _missing_observed_span: the range without the observed instants at its edges.
ObservedSpan(range, observed) ==
    LET times == InOrder(observed)
        edges[i \in 0 .. Cardinality(observed)] ==
            IF i = 0 THEN range
            ELSE LET left == edges[i - 1][1]
                     right == edges[i - 1][2]
                 IN  <<IF times[i] = left THEN left + 1 ELSE left,
                       IF times[Cardinality(observed) + 1 - i] = right THEN right - 1 ELSE right>>
        span == edges[Cardinality(observed)]
    IN  IF span[1] <= span[2] THEN <<span>> ELSE <<>>

\* _missing_live_span: from the first hole to the last, as one range or none.
Spanned(span, hole, times) ==
    LET rest == ObservedSpan(hole, times \cap hole[1] .. hole[2])
    IN  IF rest = <<>> THEN span
        ELSE <<<<IF span = <<>> THEN rest[1][1] ELSE span[1][1], rest[1][2]>>>>
LiveSpan(start, end, times, ranges) ==
    LET holes == MissingRanges(start, end, ranges)
        span[i \in 0 .. Len(holes)] ==
            IF i = 0 THEN <<>> ELSE Spanned(span[i - 1], holes[i], times)
    IN  span[Len(holes)]

\* What the lists mean: the maximal ranges of a set of instants.
RangesOf(instants) ==
    {r \in instants \X instants :
        /\ r[1] <= r[2] /\ r[1] .. r[2] \subseteq instants
        /\ r[1] - 1 \notin instants /\ r[2] + 1 \notin instants}

Row == [content: Contents, close: Closes \cup {NoClose}]
Words(k) == Watermarks[k] \cup {NoPromise, Invalid}
Window(k, s, e) == {t \in Coordinates[k] : s <= t /\ t <= e}
None == [t \in {} |-> NoRow]

TypeOK ==
    /\ clock \in Clocks
    /\ DOMAIN bars = Keys /\ DOMAIN covered = Keys /\ DOMAIN final = Keys
    /\ DOMAIN rows = Keys /\ DOMAIN word = Keys
    /\ \A k \in Keys : \E kept \in SUBSET Coordinates[k] : bars[k] \in [kept -> Row]
    /\ \A k \in Keys : covered[k] \subseteq Coordinates[k]
    /\ \A k \in Keys : final[k] \in Watermarks[k] \cup {NoPromise}
    /\ \A k \in Keys : rows[k] \in [Coordinates[k] -> Row \cup {NoRow}]
    /\ \A k \in Keys : word[k] \in Words(k)
    /\ owed \in [Keys -> BOOLEAN]

\* _row_has_ended at clock now, and the same for an instant without a row.
Ended(row, t, now) ==
    IF row # NoRow /\ row.close # NoClose THEN t < row.close /\ row.close <= now
    ELSE Step # NoStep /\ t + Step <= now

-----------------------------------------------------------------------------
(* One read.                                                               *)

\* Watermark w promises less than v.
Lower(w, v) ==
    \/ w = Invalid /\ v # Invalid
    \/ w = NoPromise /\ v \notin {NoPromise, Invalid}
    \/ w \notin {NoPromise, Invalid} /\ v \notin {NoPromise, Invalid} /\ w < v

\* _read_finality: what is kept of k is dropped.
Dropped(k) ==
    \/ word[k] = Invalid
    \/ final[k] # NoPromise /\ Lower(word[k], final[k])
    \/ final[k] = NoPromise /\ word[k] # NoPromise

\* Instants up to this one are under the promise the read goes on with.
Promised(k, t) ==
    /\ word[k] \in Watermarks[k]
    /\ ~(final[k] # NoPromise /\ Lower(word[k], final[k]))
    /\ t <= word[k]

Kept(k) == IF Dropped(k) THEN None ELSE bars[k]
Coverage(k) == IF Dropped(k) THEN {} ELSE covered[k]
Standing(k) == IF Dropped(k) THEN NoPromise ELSE final[k]

\* Up to where a request from s trusts gaps, before it sees an answer.
HistoryEnd(s) == IF Step = NoStep THEN s - 1 ELSE clock - Step

\* _missing_live_span: the span from the first instant of a request that is
\* neither covered nor kept to the last.
Unknown(k, s, e) ==
    (Window(k, s, e) \ {t \in Coverage(k) : t <= HistoryEnd(s)}) \ DOMAIN Kept(k)
Between(k, instants) == {t \in Coordinates[k] : \E i, j \in instants : i <= t /\ t <= j}
Span(k, s, e) == Between(k, Unknown(k, s, e))

\* The rows of the answer that are kept: they are promised and have ended.
MutantKeepsGaps(k, span) ==
    {t \in span \ DOMAIN Kept(k) : Promised(k, t) /\ Ended(rows[k][t], t, clock)}
Durable(k, span) ==
    {t \in span \ DOMAIN Kept(k) :
        rows[k][t] # NoRow /\ Promised(k, t) /\ Ended(rows[k][t], t, clock)}

\* The instants whose gaps are kept: no gap after an open bar is trusted.
Open(k, t) == rows[k][t] # NoRow /\ ~Ended(rows[k][t], t, clock)
MutantCoversOpen(k, s, span) ==
    {t \in span : Promised(k, t) /\ t <= HistoryEnd(s)}
MutantCoversToLastRow(k, s, span) ==
    {t \in span : /\ Promised(k, t) /\ t <= HistoryEnd(s)
                  /\ ~\E open \in span : open <= t /\ Open(k, open)
                  /\ \E i \in span : t <= i /\ rows[k][i] # NoRow}
NewlyCovered(k, s, span) ==
    {t \in span : /\ Promised(k, t) /\ t <= HistoryEnd(s)
                  /\ ~\E open \in span : open <= t /\ Open(k, open)}

\* What get_ohlcv_view returns.
Answer(k, window, span) ==
    [t \in window |-> IF t \in DOMAIN Kept(k) THEN Kept(k)[t]
                      ELSE IF t \in span THEN rows[k][t] ELSE NoRow]

\* What is kept of k after the read, before the limits.
BarsAfter(k, span) ==
    [t \in DOMAIN Kept(k) \cup Durable(k, span) |->
        IF t \in DOMAIN Kept(k) THEN Kept(k)[t] ELSE rows[k][t]]
CoveredAfter(k, s, span) == Coverage(k) \cup NewlyCovered(k, s, span)
FinalAfter(k, b, c) ==
    IF word[k] \in Watermarks[k] /\ Promised(k, word[k]) /\ DOMAIN b \cup c # {}
    THEN word[k] ELSE Standing(k)

\* _enforce_limits: the rows and the ranges of all keys, were those of k b and c.
Runs(c) == Cardinality({t \in c : t - 1 \notin c})
MutantOwnContextOnly(k, b, c) == Cardinality(DOMAIN b) > MaxBars \/ Runs(c) > MaxRanges
Overflows(k, b, c) ==
    \/ MapThenSumSet(LAMBDA j : Cardinality(IF j = k THEN DOMAIN b ELSE DOMAIN bars[j]), Keys) > MaxBars
    \/ MapThenSumSet(LAMBDA j : Runs(IF j = k THEN c ELSE covered[j]), Keys) > MaxRanges

Keep(k, b, c, f) ==
    /\ bars' = [bars EXCEPT ![k] = b]
    /\ covered' = [covered EXCEPT ![k] = c]
    /\ final' = [final EXCEPT ![k] = f]

-----------------------------------------------------------------------------
Init ==
    /\ clock \in Clocks
    /\ bars = [k \in Keys |-> None]
    /\ covered = [k \in Keys |-> {}]
    /\ final = [k \in Keys |-> NoPromise]
    /\ rows \in {r \in [Keys -> UNION {[Coordinates[k] -> Row \cup {NoRow}] : k \in Keys}] :
                     \A k \in Keys : DOMAIN r[k] = Coordinates[k]}
    /\ word \in {w \in [Keys -> UNION {Words(k) : k \in Keys}] :
                     \A k \in Keys : w[k] \in Words(k)}
    /\ owed = [k \in Keys |-> FALSE]

\* begin_evaluation: a preview or a restore may turn the clock back.
Forgets(now) == now < clock
Callback(now) ==
    /\ clock' = now
    /\ IF Forgets(now)
       THEN /\ bars' = [k \in Keys |-> None]
            /\ covered' = [k \in Keys |-> {}]
            /\ final' = [k \in Keys |-> NoPromise]
       ELSE UNCHANGED cache
    /\ UNCHANGED provider

\* The end of get_ohlcv_view: b and c are kept for k, if they fit.
Read(k, b, c) ==
    IF Overflows(k, b, c) THEN Keep(k, None, {}, NoPromise)
                          ELSE Keep(k, b, c, FinalAfter(k, b, c))
Request(k, s, e) ==
    LET span == Span(k, s, e)
    IN  /\ UNCHANGED <<clock, rows, word>>
        /\ owed' = [owed EXCEPT ![k] = FALSE]
        /\ Read(k, BarsAfter(k, span), CoveredAfter(k, s, span))

\* get_ohlcv_view when the provider raises or its answer is no list of rows.
RequestFails(k, s, e) ==
    /\ Span(k, s, e) # {}
    /\ Keep(k, Kept(k), Coverage(k), Standing(k))
    /\ owed' = [owed EXCEPT ![k] = FALSE]
    /\ UNCHANGED <<clock, rows, word>>

\* External: the provider raises its watermark, or lowers it and does not
\* raise it again before that was read.
Announce(k, w) ==
    /\ w # word[k]
    /\ Lower(w, word[k]) \/ ~owed[k]
    /\ word' = [word EXCEPT ![k] = w]
    /\ owed' = [owed EXCEPT ![k] = @ \/ Lower(w, word[k])]
    /\ UNCHANGED <<clock, bars, covered, final, rows>>

\* External: the provider changes what it has not promised, or a bar that is
\* still open.
Revise(k, t, row) ==
    /\ ~(word[k] \in Watermarks[k] /\ t <= word[k] /\ Ended(rows[k][t], t, clock))
    /\ rows' = [rows EXCEPT ![k][t] = row]
    /\ UNCHANGED <<clock, bars, covered, final, word, owed>>

Next ==
    \/ \E now \in Clocks : Callback(now)
    \/ \E k \in Keys : \E s, e \in Coordinates[k] :
        s <= e /\ (Request(k, s, e) \/ RequestFails(k, s, e))
    \/ \E k \in Keys : \E w \in Words(k) : Announce(k, w)
    \/ \E k \in Keys : \E t \in Coordinates[k], row \in Row \cup {NoRow} : Revise(k, t, row)

Spec == Init /\ [][Next]_vars

-----------------------------------------------------------------------------
(* Properties.                                                             *)

\* Whatever is requested next, the rows a script gets are those its provider
\* has now: nothing kept under a promise that was withdrawn, under an earlier
\* clock or from before the promise, and no gap where a row has appeared
\* (_read_finality, begin_evaluation and the coverage of get_ohlcv_view).
ServesTheProvider ==
    \A k \in Keys : \A s, e \in Coordinates[k] :
        s <= e => Answer(k, Window(k, s, e), Span(k, s, e))
                    = [t \in Window(k, s, e) |-> rows[k][t]]

\* The rows and the ranges kept for all keys together never exceed the limits,
\* although only the context of the current request is ever dropped
\* (_enforce_limits).
WithinLimits ==
    /\ MapThenSumSet(LAMBDA k : Cardinality(DOMAIN bars[k]), Keys) <= MaxBars
    /\ MapThenSumSet(LAMBDA k : Runs(covered[k]), Keys) <= MaxRanges

\* No request whose answer is kept leaves it so that repeating it asks the
\* provider again for an instant before which everything is promised and has
\* ended: later callbacks fetch only the tail, even where there are no rows
\* (docs/api/request_history_finality.md, get_ohlcv_view).
Settled(k, s, t) ==
    /\ Promised(k, t) /\ ~Open(k, t)
    /\ t <= HistoryEnd(s) \/ rows[k][t] # NoRow
Refetches(k, s, e) ==
    \E t \in Span(k, s, e) : \A i \in Window(k, s, t) : Settled(k, s, i)
FetchesOnlyTheTail ==
    [][\A k \in Keys : (UNCHANGED <<clock, rows, word>> /\ final'[k] # NoPromise) =>
         \A s, e \in Coordinates[k] :
            s <= e /\ Refetches(k, s, e)' => ~Request(k, s, e)]_vars

\* The sweeps over sorted lists of ranges find the span this module defines
\* on sets, and merging a new range leaves the lists of what is then covered
\* (_merge_ranges, _missing_ranges, _missing_observed_span, _missing_live_span).
Trusted(k, s) ==
    {<<r[1], Min({r[2], HistoryEnd(s)})>> :
        r \in {q \in RangesOf(Coverage(k)) : q[1] <= HistoryEnd(s)}}
AsRange(instants) == IF instants = {} THEN {} ELSE {<<Min(instants), Max(instants)>>}
SweepsAreExact ==
    \A k \in Keys : \A s, e \in Coordinates[k] : s <= e =>
        LET span == Span(k, s, e)
        IN  /\ ToSet(LiveSpan(s, e, DOMAIN Kept(k) \cap s..e, Trusted(k, s)))
                 = AsRange(span)
            /\ ToSet(Merged(RangesOf(Coverage(k)) \cup AsRange(NewlyCovered(k, s, span))))
                 = RangesOf(CoveredAfter(k, s, span))
=============================================================================
