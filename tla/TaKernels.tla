------------------------------ MODULE TaKernels ------------------------------
(***************************************************************************)
(* The array kernels under the batch indicators (ta_kernels.py,            *)
(* _weighted_numeric.py and the rolling parts of utils.py).  An array is a *)
(* sequence whose position i is bar i - 1.  The kernels are translated     *)
(* with the state they carry from bar to bar; beside each stands what it   *)
(* must compute, said of the window alone.                                 *)
(***************************************************************************)
EXTENDS Rationals, FiniteSetsExt

BarsOf(source) == DOMAIN source
Gaps(source) == [i \in DOMAIN source |-> Missing]
Compact(source) == SelectSeq(source, Present)
Seen(source, i) == Cardinality({j \in 1..i : Present(source[j])})
WindowAt(source, period, i) == SubSeq(source, i - period + 1, i)
Complete(window) == \A i \in DOMAIN window : Present(window[i])

\* carried[i]: the state after the first i elements, of a loop that starts with first.
Scan(Step(_, _, _), first, source) ==
    LET carried[i \in 0..Len(source)] ==
            IF i = 0 THEN first ELSE Step(carried[i - 1], source[i], i)
    IN  carried

\* _fixnan: the latest present value.
FixNan(source) ==
    LET last == Scan(LAMBDA s, x, i : IF Present(x) THEN x ELSE s, Missing, source)
    IN  [i \in BarsOf(source) |-> last[i]]

---------------------------------------------------------------------------
\* Rolling sums.

\* _window_sums: differences of the cumulated sums, one per full window.
WindowSums(values, period) ==
    LET cumulative == Scan(LAMBDA s, x, i : Plus(s, x), Zero, values)
    IN  [k \in 1..(Len(values) - period + 1) |-> Minus(cumulative[k + period - 1], cumulative[k - 1])]

\* _block_window_sums: a suffix of one block and a prefix of the next.
BlockWindowSums(values, period) ==
    LET n == Len(values)
        block(i) == (i - 1) \div period
        prefix == [i \in 1..n |-> Total(SubSeq(values, block(i) * period + 1, i))]
        suffix == [i \in 1..n |-> Total(SubSeq(values, i, Min({(block(i) + 1) * period, n})))]
    IN  [k \in 1..(n - period + 1) |->
            IF block(k) = block(k + period - 1) THEN prefix[k + period - 1]
            ELSE Plus(suffix[k], prefix[k + period - 1])]

\* _exact_window_sums: a ring of the last period values and their sum.
ExactWindowSums(values, period) ==
    LET ring == Scan(LAMBDA s, x, i :
                        LET slot == (i - 1) % period
                        IN  [window |-> [s.window EXCEPT ![slot] = x],
                             total |-> Plus(IF i > period THEN Minus(s.total, s.window[slot])
                                            ELSE s.total, x)],
                     [window |-> [j \in 0..(period - 1) |-> Zero], total |-> Zero], values)
    IN  [k \in 1..(Len(values) - period + 1) |-> ring[k + period - 1].total]

\* _rolling_nonmissing_sum: over the last period present values, kept through gaps.
NonmissingSum(source, period) ==
    LET compact == Compact(source)
        sums == IF period = 1 THEN compact ELSE WindowSums(compact, period)
    IN  IF Len(compact) < period THEN Gaps(source)
        ELSE [i \in BarsOf(source) |-> IF Seen(source, i) >= period
                                     THEN sums[Seen(source, i) - period + 1] ELSE Missing]

\* _rolling_variance_values of a complete array, centered on the first value of each block.
VarianceValues(values, period, ddof) ==
    LET at(i) == LET w == WindowAt(values, period, i)
                     anchor == values[1]
                     c == [j \in 1..period |-> Minus(w[j], anchor)]
                     sum == Total(c)
                     squares == Total([j \in 1..period |-> Times(c[j], c[j])])
                 IN  Over(Minus(squares, Over(Times(sum, sum), Q(period))), Q(period - ddof))
    IN  [i \in DOMAIN values |->
            IF i < period \/ period = ddof THEN Missing
            ELSE IF period = 1 THEN Zero ELSE at(i)]
NonmissingVariance(source, period, ddof) ==
    LET compact == VarianceValues(Compact(source), period, ddof)
    IN  [i \in BarsOf(source) |-> IF Seen(source, i) = 0 THEN Missing ELSE compact[Seen(source, i)]]

---------------------------------------------------------------------------
\* weighted_windows: the plain and the 1..period weighted sum of every full window, from
\* the last ones.
WeightedWindows(source, period) ==
    Scan(LAMBDA s, x, i :
            LET slot == (i - 1) % period
                incoming == IF Present(x) THEN x ELSE Zero
            IN  [window |-> [s.window EXCEPT ![slot] = <<incoming, Present(x)>>],
                 weighted |-> IF i <= period THEN Plus(s.weighted, Times(Q(i), incoming))
                              ELSE Plus(s.weighted, Minus(Times(Q(period), incoming), s.total)),
                 total |-> Plus(s.total, Minus(incoming, s.window[slot][1])),
                 valid |-> s.valid + (IF Present(x) THEN 1 ELSE 0)
                                   - (IF s.window[slot][2] THEN 1 ELSE 0)],
         [window |-> [j \in 0..(period - 1) |-> <<Zero, FALSE>>], weighted |-> Zero,
          total |-> Zero, valid |-> 0], source)

\* _rolling_weighted_average_values.
WeightedAverage(source, period) ==
    LET w == WeightedWindows(source, period)
    IN  [i \in BarsOf(source) |-> IF i < period THEN Missing
                                ELSE Over(w[i].weighted, Q((period * (period + 1)) \div 2))]

\* _rolling_linear_regression_values, from the same two sums.
LinearRegression(source, period, offset) ==
    LET w == WeightedWindows(source, period)
        spread == period * period - 1
        numerator(s) == Plus(Times(s.total, Q(spread)),
                             Times(Minus(Times(Q(6), s.weighted), Times(Q(3 * (period + 1)), s.total)),
                                   Q(period - 1 - 2 * offset)))
    IN  IF period = 1 THEN source
        ELSE [i \in BarsOf(source) |-> IF i < period \/ w[i].valid # period THEN Missing
                                     ELSE Over(numerator(w[i]), Q(period * spread))]

---------------------------------------------------------------------------
\* _FenwickTree: counts and sums by rank.  A tree is a function on 1..size.
LowBit(i) == CHOOSE b \in {1, 2, 4, 8, 16, 32} : i % b = 0 /\ i % (2 * b) # 0
EmptyTree(size) == [i \in 1..size |-> [count |-> 0, sum |-> Zero]]

\* The nodes that add() touches for a rank, and those that prefix() reads for a stop.
Path(tree, rank) ==
    LET up[i \in Nat] == IF i \in DOMAIN tree THEN {i} \cup up[i + LowBit(i)] ELSE {} IN up[rank]
Roots(stop) ==
    LET down[i \in Nat] == IF i = 0 THEN {} ELSE {i} \cup down[i - LowBit(i)] IN down[stop]

TreeAdd(tree, rank, count, value) ==
    LET path == Path(tree, rank)
    IN  [i \in DOMAIN tree |->
            LET node == tree[i]
            IN  IF i \in path THEN [count |-> node.count + count, sum |-> Plus(node.sum, value)]
                ELSE node]
TreeCount(tree, stop) == MapThenSumSet(LAMBDA i : tree[i].count, Roots(stop))
TreeSum(tree, stop) == FoldSet(LAMBDA i, s : Plus(s, tree[i].sum), Zero, Roots(stop))

\* kth: descends by powers of two; the rank (from 1) of the order-th smallest element.
Kth(tree, order) ==
    LET walk[s \in Nat, p \in Nat, left \in Nat] ==
            IF s = 0 THEN p + 1
            ELSE IF p + s \in DOMAIN tree /\ tree[p + s].count < left
                 THEN walk[s \div 2, p + s, left - tree[p + s].count]
                 ELSE walk[s \div 2, p, left]
    IN  walk[Max({1, 2, 4, 8} \cap DOMAIN tree), 0, order]

\* np.unique: the distinct present values, ascending.
Coordinates(source) == SetToSortSeq({source[i] : i \in {j \in BarsOf(source) : Present(source[j])}}, Less)
RankIn(coordinates, x) == CHOOSE k \in DOMAIN coordinates : coordinates[k] = x

\* The tree, the number of gaps and the sum of the window that ends at each bar.
RankedWindows(source, period) ==
    LET coordinates == Coordinates(source)
        entered(s, x, sign) ==
            IF Present(x)
            THEN [s EXCEPT !.tree = TreeAdd(@, RankIn(coordinates, x), sign, Times(Q(sign), x)),
                           !.sum = Plus(@, Times(Q(sign), x))]
            ELSE [s EXCEPT !.gaps = @ + sign]
    IN  Scan(LAMBDA s, x, i : IF i <= period THEN entered(s, x, 1)
                              ELSE entered(entered(s, x, 1), source[i - period], -1),
             [tree |-> EmptyTree(Len(coordinates)), gaps |-> 0, sum |-> Zero], source)

\* _rolling_mean_and_mad: the mean absolute deviation from the counts and the sums on the
\* two sides of the mean.
MeanAndMad(source, period) ==
    LET coordinates == Coordinates(source)
        windows == RankedWindows(source, period)
        at(w) ==
            LET mean == Over(w.sum, Q(period))
                split == Cardinality({k \in DOMAIN coordinates : AtMost(coordinates[k], mean)})
                leftCount == TreeCount(w.tree, split)
                leftSum == TreeSum(w.tree, split)
                numerator == Minus(Plus(Times(w.sum, Q(leftCount)),
                                        Times(Q(period), Minus(w.sum, leftSum))),
                                   Plus(Times(Q(period), leftSum),
                                        Times(w.sum, Q(period - leftCount))))
            IN  <<mean, IF Kth(w.tree, 1) = Kth(w.tree, period) THEN Zero
                        ELSE Over(numerator, Q(period * period))>>
    IN  [i \in BarsOf(source) |->
            IF period = 1 THEN IF Present(source[i]) THEN <<source[i], Zero>> ELSE <<Missing, Missing>>
            ELSE IF i < period \/ windows[i].gaps > 0 THEN <<Missing, Missing>> ELSE at(windows[i])]

---------------------------------------------------------------------------
\* Percentiles.  A percentage is an integer 0..100.
Ceiling(n, d) == (n + d - 1) \div d
NearestRank(percentage, period) == Max({Ceiling(percentage * period, 100), 1})
Interpolated(lower, upper, fraction) == Plus(lower, Times(Minus(upper, lower), fraction))

\* The virtual index percentage / 100 * period - 1 / 2, between the first and the last.
VirtualIndex(percentage, period) ==
    Smaller(Larger(Minus(Frac(percentage * period, 100), Frac(1, 2)), Zero), Q(period - 1))
Whole(x) == x[1] \div x[2]
Selected(at(_), percentage, period, linear) ==     \* at(k): the k-th smallest, from 1
    LET v == VirtualIndex(percentage, period)
    IN  IF linear THEN Interpolated(at(Whole(v) + 1), at(Min({Whole(v) + 2, period})),
                                    Minus(v, Q(Whole(v))))
        ELSE at(NearestRank(percentage, period))

\* _rolling_percentile_values of a complete array: order statistics of the tree.
CompletePercentile(values, period, percentage, linear) ==
    LET coordinates == Coordinates(values)
        windows == RankedWindows(values, period)
        at(i) == Selected(LAMBDA k : coordinates[Kth(windows[i].tree, k)], percentage, period, linear)
    IN  [i \in BarsOf(values) |-> IF i < period THEN Missing ELSE at(i)]

\* _rolling_missing_percentile_values: from the first gap on, a list of <<bar, value>> in
\* which a value moves from the slot of the one it replaces; gaps are not ordered.
OrderedBefore(p, q) == Less(p[2], q[2]) \/ (p[2] = q[2] /\ q[1] < p[1])
Insertion(ordered, x, slot, old) ==     \* the place of x, from 1, after slot was taken out
    LET n == Len(ordered)
        first(places) == IF places = {} THEN n + 1 ELSE Min(places)
    IN  IF ~Present(x) THEN n + 1
        ELSE IF ~Present(old) THEN first({p \in 1..n : AtMost(x, ordered[p][2])})
        ELSE IF AtMost(x, old)
             THEN Max({1} \cup {p + 1 : p \in {k \in 1..(slot - 1) : Less(ordered[k][2], x)}})
             ELSE first({p \in slot..n : AtMost(x, ordered[p][2])})
OrderedAfter(ordered, source, period, i) ==
    LET x == source[i]
        gone == IF i > period THEN source[i - period] ELSE Missing
        slots == {p \in DOMAIN ordered : IF Present(gone) THEN ordered[p][2] = gone
                                         ELSE ordered[p][1] = i - period}
        slot == IF slots = {} THEN 0 ELSE Max(slots)
        rest == IF slot = 0 THEN ordered ELSE RemoveAt(ordered, slot)
        old == IF slot = 0 THEN Missing ELSE ordered[slot][2]
    IN  InsertAt(rest, Insertion(rest, x, slot, old), <<i, x>>)
OrderedLists(source, period, start) ==     \* the list at each bar from start - 1 on
    LET before == SetToSortSeq({<<j, source[j]>> : j \in Max({start - period, 1})..(start - 1)},
                               OrderedBefore)
        lists[i \in (start - 1)..Len(source)] ==
            IF i = start - 1 THEN before ELSE OrderedAfter(lists[i - 1], source, period, i)
    IN  lists

FirstGap(source) == Min({i \in BarsOf(source) : ~Present(source[i])})
PercentileValues(source, period, percentage, linear) ==
    LET n == Len(source)
        complete == Complete(source)
        start == FirstGap(source)
        prefix == CompletePercentile(SubSeq(source, 1, start - 1), period, percentage, linear)
        lists == OrderedLists(source, period, start)
    IN  IF period > n \/ Compact(source) = <<>> THEN Gaps(source)
        ELSE IF complete THEN CompletePercentile(source, period, percentage, linear)
        ELSE [i \in BarsOf(source) |->
                IF i < start THEN IF period > start - 1 THEN Missing ELSE prefix[i]
                ELSE IF i < period THEN Missing
                ELSE Selected(LAMBDA k : lists[i][k][2], percentage, period, linear)]

---------------------------------------------------------------------------
\* Correlation: represented by the square of the coefficient with its sign.
SignedSquare(numerator, product) ==
    LET r == Over(Times(numerator, numerator), product)
    IN  IF Less(numerator, Zero) THEN Minus(Zero, r) ELSE r

\* _rolling_full_window_correlation_values: Pearson over complete windows, centered.
CoherentCorrelation(a, b, period, i) ==
    LET wa == WindowAt(a, period, i)
        wb == WindowAt(b, period, i)
        ca == [j \in 1..period |-> Minus(wa[j], wa[1])]
        cb == [j \in 1..period |-> Minus(wb[j], wb[1])]
        m2(x, y) == Minus(Total([j \in 1..period |-> Times(x[j], y[j])]),
                          Over(Times(Total(x), Total(y)), Q(period)))
    IN  IF m2(ca, ca) = Zero \/ m2(cb, cb) = Zero THEN Zero
        ELSE SignedSquare(m2(ca, cb), Times(m2(ca, ca), m2(cb, cb)))

\* _rolling_correlation_values: where a window has gaps, the moments of x, y and xy run over
\* their own present observations, around the first value of each source.
Correlation(a, b, period) ==
    LET anchorA == Head(Compact(a))
        anchorB == Head(Compact(b))
        ca == [i \in BarsOf(a) |-> Minus(a[i], anchorA)]
        cb == [i \in BarsOf(b) |-> Minus(b[i], anchorB)]
        paired(x, y) == [i \in BarsOf(a) |-> IF Present(y[i]) THEN x[i] ELSE Missing]
        mean(x) == [i \in BarsOf(a) |-> Over(NonmissingSum(x, period)[i], Q(period))]
        meanA == mean(ca)
        meanB == mean(cb)
        pairA == mean(paired(ca, cb))
        pairB == mean(paired(cb, ca))
        product == mean([i \in BarsOf(a) |-> Times(ca[i], cb[i])])
        varianceA == NonmissingVariance(a, period, 0)
        varianceB == NonmissingVariance(b, period, 0)
        numerator(i) == Plus(Minus(product[i], Times(meanA[i], meanB[i])),
                             Plus(Times(anchorA, Minus(pairB[i], meanB[i])),
                                  Times(anchorB, Minus(pairA[i], meanA[i]))))
        denominator(i) == Times(varianceA[i], varianceB[i])
        independent(i) == IF denominator(i) = Zero /\ numerator(i) = Zero THEN Zero
                          ELSE SignedSquare(numerator(i), denominator(i))
    IN  [i \in BarsOf(a) |->
            IF i >= period /\ Complete(WindowAt(a, period, i)) /\ Complete(WindowAt(b, period, i))
            THEN CoherentCorrelation(a, b, period, i)
            ELSE IF Compact(a) = <<>> \/ Compact(b) = <<>> THEN Missing ELSE independent(i)]

---------------------------------------------------------------------------
\* _convolution_coefficients: both sequences are made non-negative by an offset and packed
\* into one integer each; the digits of the product are the coefficients, if none overflows
\* its width.  Integers here are plain, and kernel is the reversed weights.
Width(valueSpan, kernelSpan, period) ==
    CHOOSE w \in 1..30 : /\ 2 ^ w > Max({period * valueSpan * kernelSpan, valueSpan, kernelSpan})
                         /\ \A u \in 1..(w - 1) :
                               2 ^ u <= Max({period * valueSpan * kernelSpan, valueSpan, kernelSpan})
SumInts(s) == FoldLeft(+, 0, s)
ProductDigits(values, kernel, base) ==
    LET column(c) == SumInts([j \in DOMAIN kernel |->
                        IF c - j + 1 \in DOMAIN values THEN values[c - j + 1] * kernel[j] ELSE 0])
        carried[c \in 0..(Len(values) + Len(kernel) - 1)] ==
            IF c = 0 THEN [digit |-> 0, carry |-> 0]
            ELSE LET t == column(c) + carried[c - 1].carry
                 IN  [digit |-> t % base, carry |-> t \div base]
    IN  [c \in 1..(Len(values) + Len(kernel) - 1) |-> carried[c].digit]
ConvolutionCoefficients(values, kernel) ==
    LET period == Len(kernel)
        lowest(s) == Min({0} \cup {s[i] : i \in DOMAIN s})
        highest(s) == Max({0} \cup {s[i] : i \in DOMAIN s})
        vo == -lowest(values)
        ko == -lowest(kernel)
        base == 2 ^ Width(highest(values) + vo, highest(kernel) + ko, period)
        digits == ProductDigits([i \in DOMAIN values |-> values[i] + vo],
                                [i \in DOMAIN kernel |-> kernel[i] + ko], base)
    IN  [at \in 1..(Len(values) - period + 1) |->
            digits[at + period - 1] - vo * SumInts(kernel) - period * vo * ko
                - ko * SumInts(SubSeq(values, at, at + period - 1))]

---------------------------------------------------------------------------
\* Rolling extremes and pivots (utils.py).

Beats(x, y, highest) == IF highest THEN Less(y, x) ELSE Less(x, y)
\* A monotonic queue of bars of source after bar i joined it.
MutantKeepsTies(queue, source, i, highest, orEqual) ==
    LET stays == {k \in DOMAIN queue : ~Beats(source[i], source[queue[k]], highest)}
    IN  Append(SubSeq(queue, 1, IF stays = {} THEN 0 ELSE Max(stays)), i)
Queued(queue, source, i, highest, orEqual) ==
    LET stays == {k \in DOMAIN queue : ~Beats(source[i], source[queue[k]], highest)
                                       /\ ~(orEqual /\ source[i] = source[queue[k]])}
    IN  Append(SubSeq(queue, 1, IF stays = {} THEN 0 ELSE Max(stays)), i)
From(queue, oldest) == SelectSeq(queue, LAMBDA i : i >= oldest)

\* _rolling_extreme: a gap empties the queue.
RollingExtreme(source, period, highest, returnOffset) ==
    LET queues == Scan(LAMBDA q, x, i :
                          IF ~Present(x) THEN <<>>
                          ELSE Queued(From(q, i - period + 1), source, i, highest, FALSE),
                       <<>>, source)
    IN  [i \in BarsOf(source) |->
            IF i < period THEN Missing
            ELSE IF queues[i] = <<>> THEN IF returnOffset THEN Zero ELSE Missing
            ELSE IF returnOffset THEN Q(queues[i][1] - i) ELSE source[queues[i][1]]]

\* _pivot: for every center of a segment without gaps, the queue of the bars up to right
\* bars later; the pivot is confirmed on the last of them.
SegmentStart(source, i) == 1 + Max({0} \cup {j \in 1..i : ~Present(source[j])})
SegmentEnd(source, i) == Min({Len(source)} \cup {j - 1 : j \in {k \in i..Len(source) : ~Present(source[k])}})
PivotQueue(source, left, right, highest, center) ==
    LET start == SegmentStart(source, center)
        queue[j \in (start - 1)..Len(source)] ==
            IF j < start THEN <<>> ELSE Queued(queue[j - 1], source, j, highest, TRUE)
    IN  From(queue[Min({SegmentEnd(source, center), center + right})], center - left)
PivotValues(source, left, right, highest) ==
    [i \in BarsOf(source) |->
        LET center == i - right
        IN  IF center > left /\ Present(source[center])
               /\ PivotQueue(source, left, right, highest, center)[1] = center
            THEN source[center] ELSE Missing]

\* _direction: the last period comparisons of neighbours that are both present.
Direction(source, period, upward) ==
    LET valid == {i \in 2..Len(source) : Present(source[i]) /\ Present(source[i - 1])}
        holds(i) == Beats(source[i], source[i - 1], upward)
        last(i) == {j \in valid : j <= i}
        failures(i) == Cardinality({j \in last(i) : ~holds(j)})
        observedBefore(i) == {j \in last(i) : Cardinality({k \in last(i) : k > j}) >= period}
    IN  [i \in BarsOf(source) |->
            /\ Cardinality(last(i)) >= period
            /\ failures(i) = Cardinality({j \in observedBefore(i) : ~holds(j)})]

---------------------------------------------------------------------------
\* Pivot point levels.

\* _pivot_level_values: a period is a record with open, high, low and close.  The levels
\* are the pivot and the first resistance and support of the type; the further ones are
\* these shifted by the range of the period.
NoLevels == <<Missing, Missing, Missing>>
PivotLevelValues(type, period, currentOpen) ==
    LET hl == Plus(period.high, period.low)
        span == Minus(period.high, period.low)
        around(p, up, down) == IF Present(p) /\ Present(up) THEN <<p, up, down>> ELSE NoLevels
        reflected(p) == around(p, Minus(Times(Q(2), p), period.low), Minus(Times(Q(2), p), period.high))
        third == Over(Plus(hl, period.close), Q(3))
        quarter == Over(Plus(hl, Times(Q(2), currentOpen)), Q(4))
        demark == Plus(hl, IF period.open = period.close THEN Times(Q(2), period.close)
                           ELSE IF Less(period.open, period.close) THEN Plus(period.high, period.close)
                           ELSE Plus(period.low, period.close))
        half == Over(demark, Q(2))
        spread(s) == around(third, Plus(third, Times(s, span)), Minus(third, Times(s, span)))
        step == Over(Times(Frac(11, 10), span), Q(12))
    IN  CASE type = "traditional" -> reflected(third)
          [] type = "classic"     -> reflected(third)
          [] type = "fibonacci"   -> spread(Frac(382, 1000))
          [] type = "woodie"      -> reflected(quarter)
          [] type = "dm"          -> IF Present(period.open) /\ Present(period.close)
                                     THEN around(Over(demark, Q(4)), Minus(half, period.low),
                                                 Minus(half, period.high))
                                     ELSE NoLevels
          [] type = "camarilla"   -> around(third, Plus(period.close, step), Minus(period.close, step))
==============================================================================
