----------------------------- MODULE PlotOutputs -----------------------------
(***************************************************************************)
(* What a script plots.  The incremental context (incremental/context.py)  *)
(* appends a point when a bar is executed, counts it against the limits,   *)
(* keeps the points of the running bar apart, and drops old ones; a batch  *)
(* run (plot/functions.py) is given the values of all bars at once.        *)
(* Panes, widths and titles are left out; colours where a sign sets them.  *)
(***************************************************************************)
EXTENDS Integers, SequencesExt

CONSTANTS Rows,          \* what a script computes on one bar
          Scripts,       \* names it plots, in order, and show_last of its candles
          Stem,          \* _slug: the name without case and punctuation, in parts
          Na, All,       \* a missing value; show_last is None
          MaxPoints, MaxSeries,   \* max_output_points, max_output_series
          Retentions,    \* bars whose points are kept
          Offsets, Heights,       \* offsets of markers, <<minheight, maxheight>>
          MaxBars

VARIABLES out,           \* the context
          rows,          \* the bars so far: bar i has time i
          script, retained,
          since,         \* the points of bars before this one are gone
          failed         \* a callback raised: the session is stopped

vars == <<out, rows, script, retained, since, failed>>

Now == Len(rows)

NewOutputs ==
    [points |-> <<>>,        \* by channel and id: the data of _series, _candles, _markers
     current |-> <<>>,       \* the same of the running bar
     names |-> <<>>,         \* _output_names, in the order of their first use
     used |-> 0,             \* tracker: output_points
     keys |-> {},            \* tracker: output_series_keys
     raised |-> FALSE]

-----------------------------------------------------------------------------
(* The incremental engine.                                                 *)

\* Two names may have the same slug; and a slug may look like a numbered one.
OutputId(names, channel, name) ==
    LET known == SelectSeq(names, LAMBDA n : n.channel = channel /\ n.name = name)
        used == {n.id : n \in {m \in ToSet(names) : m.channel = channel}}
        stem == Stem[name]
        free == {k \in 2 .. Len(names) + 2 : Append(stem, k) \notin used}
    IN  CASE known # <<>> -> known[1].id
          [] known = <<>> /\ stem \notin used -> stem
          [] OTHER -> Append(stem, CHOOSE k \in free : \A j \in free : k <= j)

Data(points, key) == IF key \in DOMAIN points THEN points[key] ELSE <<>>
With(points, key, data) == [k \in DOMAIN points \cup {key} |-> IF k = key THEN data ELSE points[k]]

\* reserve_output_point
CanReserve(o, key) ==
    /\ MaxSeries >= Cardinality(o.keys \cup {key})
    /\ MaxPoints >= o.used + 1

Emitted(o, channel, name, point, keep) ==
    LET id == OutputId(o.names, channel, name)
        key == <<channel, id>>
        named == [o EXCEPT !.names = IF \E n \in ToSet(@) : n.channel = channel /\ n.name = name
                                     THEN @ ELSE Append(@, [channel |-> channel, name |-> name, id |-> id])]
        data == Append(Data(o.points, key), point)
        first == IF keep = All \/ Len(data) <= keep THEN 1 ELSE Len(data) - keep + 1
    IN  IF o.raised THEN o
        ELSE IF ~CanReserve(o, key) THEN [named EXCEPT !.raised = TRUE]
        ELSE [named EXCEPT !.used = @ + 1, !.keys = @ \cup {key},
                           !.points = With(@, key, SubSeq(data, first, Len(data))),
                           !.current = With(@, key, IF channel = "candle" THEN <<point>>
                                                    ELSE Append(Data(@, key), point))]

Plot(o, name, value, time) ==
    IF value = Na THEN o ELSE Emitted(o, "series", name, [time |-> time, value |-> value], All)
Marker(o, name, condition, time) ==
    IF ~condition THEN o ELSE Emitted(o, "marker", name, [time |-> time], All)
PlotCandle(o, name, complete, time, keep) ==
    IF ~complete THEN o ELSE Emitted(o, "candle", name, [time |-> time], keep)

\* The callback of one bar: begin_bar, then the calls of the script in order.
Executed(o, row, time) ==
    LET begun == [o EXCEPT !.current = <<>>]
        plotted == FoldLeft(LAMBDA p, k : Plot(p, script.names[k], row.values[k], time), begun,
                            [k \in DOMAIN script.names |-> k])
    IN  PlotCandle(Marker(plotted, script.names[1], row.flag, time),
                   script.names[1], row.complete, time, script.showLast)

\* A bug the pruning could have: channels without points keep their key.
Pruned(o, cutoff) ==                           \* prune_before_time
    LET left == [k \in DOMAIN o.points |-> SelectSeq(o.points[k], LAMBDA p : p.time >= cutoff)]
        points == [k \in {j \in DOMAIN left : left[j] # <<>>} |-> left[k]]
    IN  [o EXCEPT !.points = points, !.keys = DOMAIN points,
                  !.used = FoldFunction(LAMBDA data, n : n + Len(data), 0, points)]

\* to_result for a range of times; for the time of the running bar it reads the
\* points of that bar.
Result(o, from, to) ==
    LET source == IF from = Now /\ to = Now THEN o.current ELSE o.points
        within == [k \in DOMAIN source |-> SelectSeq(source[k], LAMBDA p : from <= p.time /\ p.time <= to)]
    IN  [k \in {j \in DOMAIN within : within[j] # <<>>} |-> within[k]]

Init ==
    /\ out = NewOutputs /\ rows = <<>>
    /\ script \in Scripts /\ retained \in Retentions
    /\ since = 1 /\ failed = FALSE

\* A bar is executed and committed; old points are dropped when the session
\* keeps a number of bars only.
Bar(row) ==
    LET o == Executed(out, row, Now + 1)
        cutoff == Now + 2 - retained
    IN  /\ ~failed /\ Now < MaxBars
        /\ rows' = Append(rows, row)
        /\ failed' = o.raised
        /\ IF o.raised \/ retained = All THEN out' = o /\ since' = since
           ELSE /\ out' = Pruned(o, cutoff)
                /\ since' = IF cutoff > since THEN cutoff ELSE since
        /\ UNCHANGED <<script, retained>>

Next == \E row \in Rows : Bar(row)

Spec == Init /\ [][Next]_vars

-----------------------------------------------------------------------------
(* The batch engine, on the values of all bars.                            *)

Bars == [i \in DOMAIN rows |-> i]
FirstVisible(showLast) == IF showLast = All \/ Now <= showLast THEN 1 ELSE Now - showLast + 1

PlotPoints(k) ==
    LET valid == SelectSeq(Bars, LAMBDA i : rows[i].values[k] # Na)
    IN  [n \in DOMAIN valid |-> [time |-> valid[n], value |-> rows[valid[n]].values[k]]]
CandlePoints(showLast) ==
    LET visible == SelectSeq(Bars, LAMBDA i : rows[i].complete /\ i >= FirstVisible(showLast))
    IN  [n \in DOMAIN visible |-> [time |-> visible[n]]]
MarkerPoints(offset, showLast) ==
    LET on == SelectSeq(Bars, LAMBDA i : /\ i >= FirstVisible(showLast) /\ rows[i].flag
                                         /\ i + offset \in DOMAIN rows)
    IN  [n \in DOMAIN on |-> [time |-> on[n] + offset]]
Regions ==                                     \* bgcolor
    LET on == SelectSeq(Bars, LAMBDA i : rows[i].flag)
    IN  [n \in DOMAIN on |-> [time |-> on[n]]]
HistogramPoints(k) ==                          \* bar
    [n \in DOMAIN PlotPoints(k) |->
        [time |-> PlotPoints(k)[n].time, up |-> PlotPoints(k)[n].value >= 0]]
BarColors(k) == [n \in DOMAIN PlotPoints(k) |-> [time |-> PlotPoints(k)[n].time]]
Signals(k) ==                                  \* emit_signal
    [n \in DOMAIN Regions |->
        LET i == Regions[n].time
        IN  [time |-> i, price |-> rows[i].values[k]]]

\* plotarrow: arrows of the values that are not 0, as high as the share of the
\* value in the largest visible one, rounded half to even.
Size(n) == IF n < 0 THEN -n ELSE n
RoundHalfEven(n, d) ==
    LET q == n \div d
        twice == 2 * (n % d)
    IN  IF twice < d \/ (twice = d /\ q % 2 = 0) THEN q ELSE q + 1
Nonzero(k, showLast) ==
    SelectSeq(Bars, LAMBDA i : /\ i >= FirstVisible(showLast)
                               /\ rows[i].values[k] # Na /\ rows[i].values[k] # 0)
\* A bug the heights could have: the bounds are not put in order.
MutantUnordered(bounds) == bounds
Ordered(bounds) == IF bounds[2] < bounds[1] THEN <<bounds[2], bounds[1]>> ELSE bounds
Height(size, largest, bounds) ==
    bounds[1] + RoundHalfEven((bounds[2] - bounds[1]) * size, largest)
ArrowsAt(arrows, k, largest, bounds, offset) ==
    LET on == SelectSeq(arrows, LAMBDA i : i + offset \in DOMAIN rows)
    IN  [n \in DOMAIN on |-> [time |-> on[n] + offset, up |-> rows[on[n]].values[k] > 0,
                              size |-> Size(rows[on[n]].values[k]),
                              height |-> Height(Size(rows[on[n]].values[k]), largest, bounds)]]
Arrows(k, offset, showLast, heights) ==
    LET arrows == Nonzero(k, showLast)
        sizes == {Size(rows[i].values[k]) : i \in ToSet(arrows)}
    IN  ArrowsAt(arrows, k, CHOOSE m \in sizes \cup {0} : \A n \in sizes : m >= n,
                 Ordered(heights), offset)

-----------------------------------------------------------------------------
(* Properties.                                                             *)

From(points, first) == SelectSeq(points, LAMBDA p : p.time >= first)
IdOf(channel, name) == OutputId(out.names, channel, name)

\* The points an incremental session has kept are those a batch run draws for
\* the same bars (lines, markers, backgrounds of the same condition); of candles
\* with show_last the batch run counts bars and the session points, so that the
\* former are the last of the latter.
PlotsAgree ==
    ~failed =>
        /\ \A k \in DOMAIN script.names :
              Data(out.points, <<"series", IdOf("series", script.names[k])>>) = From(PlotPoints(k), since)
        /\ Data(out.points, <<"marker", IdOf("marker", script.names[1])>>) = From(MarkerPoints(0, All), since)
        /\ MarkerPoints(0, All) = Regions
        /\ IsSuffix(From(CandlePoints(script.showLast), since),
                    Data(out.points, <<"candle", IdOf("candle", script.names[1])>>))

Total(points) == FoldFunction(LAMBDA data, n : n + Len(data), 0, points)

\* The counters of the limits are the points and the series that are kept, but
\* for candles cut by show_last, which stay counted until the next pruning; what
\* is asked for the running bar is what is kept of it; and no two names of a
\* channel share an output.
OutputsAccounted ==
    /\ script.showLast = All \/ (retained # All /\ ~failed) => out.used = Total(out.points)
    /\ out.used >= Total(out.points) /\ out.used <= MaxPoints
    /\ {k \in DOMAIN out.points : out.points[k] # <<>>} \subseteq out.keys
    /\ script.showLast = All => out.keys = DOMAIN out.points
    /\ \A m, n \in DOMAIN out.names :
          (out.names[m].channel = out.names[n].channel /\ out.names[m].id = out.names[n].id) => m = n
    /\ rows # <<>> =>
          \A key \in DOMAIN out.current :
              key[1] # "candle" \/ script.showLast # 0 =>
                  Data(Result(out, Now, Now), key) = SelectSeq(Data(out.points, key), LAMBDA p : p.time = Now)

\* Arrows and shifted markers stay on the chart, in order of time; no arrow is
\* lower than another of a smaller value, none leaves the heights it was given,
\* in whichever order they were given, and colours and signals follow the bars.
ArrowsInProportion ==
    \A bounds \in Heights, offset \in Offsets, showLast \in {All, 0, 1, 2} :
        LET arrows == Arrows(1, offset, showLast, bounds)
            marks == MarkerPoints(offset, showLast)
            low == IF bounds[1] < bounds[2] THEN bounds[1] ELSE bounds[2]
        IN  /\ \A n \in DOMAIN arrows :
                  /\ arrows[n].time \in DOMAIN rows
                  /\ arrows[n].height \in low .. bounds[1] + bounds[2] - low
                  /\ \A m \in DOMAIN arrows :
                        /\ m < n => arrows[m].time < arrows[n].time
                        /\ arrows[m].size <= arrows[n].size => arrows[m].height <= arrows[n].height
            /\ {p.time : p \in ToSet(marks)} \subseteq {p.time + offset : p \in ToSet(Regions)} \cap DOMAIN rows
            /\ {p.time : p \in ToSet(BarColors(1))} = {p.time : p \in ToSet(HistogramPoints(1))}
            /\ Len(Signals(1)) = Len(Regions)
=============================================================================
