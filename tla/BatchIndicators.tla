--------------------------- MODULE BatchIndicators ---------------------------
(***************************************************************************)
(* The indicators over whole arrays (ta.py and utils.py): what a batch     *)
(* script computes in one call for all bars.  An array is a sequence, a    *)
(* gap in it is Missing; several results are a tuple per bar, in the shape  *)
(* of the step-by-step helpers.                                            *)
(***************************************************************************)
EXTENDS TaKernels

\* A value per bar, from the arrays at that bar.
Each(source, F(_)) == [i \in DOMAIN source |-> F(i)]
Column(bars, field(_)) == [i \in DOMAIN bars |-> field(bars[i])]
Highs(bars)  == Column(bars, LAMBDA b : b.high)
Lows(bars)   == Column(bars, LAMBDA b : b.low)
ClosesOf(bars) == Column(bars, LAMBDA b : b.close)

MutantShiftsForward(source, n) ==
    Each(source, LAMBDA i : IF i + n <= Len(source) THEN source[i + n] ELSE Missing)
Shift(source, n) == Each(source, LAMBDA i : IF i > n THEN source[i - n] ELSE Missing)
Change(source, n) == Each(source, LAMBDA i : Minus(source[i], Shift(source, n)[i]))
Nz(source, replacement) == Each(source, LAMBDA i : IF Present(source[i]) THEN source[i] ELSE replacement)
Roc(source, n) ==
    Each(source, LAMBDA i : Times(Over(Change(source, n)[i], Shift(source, n)[i]), Q(100)))

---------------------------------------------------------------------------
\* Averages.

Sma(source, period) ==
    IF period > Len(source) THEN Gaps(source)
    ELSE LET s == NonmissingSum(source, period) IN Each(source, LAMBDA i : Over(s[i], Q(period)))

\* _ema_skip_leading_na: seeded by the mean of the first period present values.
EmaValues(source, period) ==
    LET compact == Compact(source)
        seed == Mean(SubSeq(compact, 1, period))
        k == Frac(2, period + 1)
        value == Scan(LAMBDA v, x, i :
                         IF ~Present(x) \/ Seen(source, i) < period THEN v
                         ELSE IF Seen(source, i) = period THEN seed
                         ELSE Plus(Times(x, k), Times(v, Minus(Q(1), k))),
                      Missing, source)
    IN  IF Len(compact) < period THEN Gaps(source)
        ELSE Each(source, LAMBDA i : IF Present(source[i]) THEN value[i] ELSE Missing)

\* _rma: Wilder's smoothing; a gap shows the old value or nothing.
RmaValues(source, period, emitMissing) ==
    LET alpha == Frac(1, period)
        smoothed == Scan(LAMBDA s, x, i :
                            IF ~Present(x) THEN s
                            ELSE IF s.count < period
                            THEN [count |-> s.count + 1, seed |-> Plus(s.seed, x),
                                  value |-> IF s.count + 1 < period THEN Missing
                                            ELSE Over(Plus(s.seed, x), Q(period))]
                            ELSE [s EXCEPT !.value = Plus(Times(alpha, x), Times(Minus(Q(1), alpha), @))],
                         [count |-> 0, seed |-> Zero, value |-> Missing], source)
    IN  IF period > Len(source) THEN Gaps(source)
        ELSE Each(source, LAMBDA i : IF Present(source[i]) \/ ~emitMissing THEN smoothed[i].value
                                     ELSE Missing)

Wma(source, period) ==
    LET average == WeightedAverage(IF Complete(source) THEN source ELSE FixNan(source), period)
    IN  IF period > Len(source) THEN Gaps(source)
        ELSE Each(source, LAMBDA i : IF i >= period /\ Present(source[i]) /\ Seen(source, i) >= period
                                     THEN average[i] ELSE Missing)

Root(n) == Max({r \in 0..n : r * r <= n})
Hma(source, period) ==
    LET fast == Wma(source, Max({period \div 2, 1}))
        slow == Wma(source, period)
    IN  Wma(Each(source, LAMBDA i : Minus(Times(Q(2), fast[i]), slow[i])), Max({Root(period), 1}))

Swma(source) ==
    Each(source, LAMBDA i :
        IF i >= 4 /\ Complete(WindowAt(source, 4, i))
        THEN LET w == WindowAt(source, 4, i)
             IN  Over(Plus(Plus(w[1], w[4]), Times(Q(2), Plus(w[2], w[3]))), Q(6))
        ELSE Missing)

\* alma: a gap in the window hides the convolution, which runs over zeros there.
Alma(source, period, weights) ==
    LET clean == Nz(source, Zero)
        convolved(i) == Total([j \in 1..period |-> Times(clean[i - period + j], weights[j])])
    IN  Each(source, LAMBDA i : IF i >= period /\ Complete(WindowAt(source, period, i))
                                THEN convolved(i) ELSE Missing)

Vwma(source, volume, period) ==
    LET n == NonmissingSum(Each(source, LAMBDA i : Times(source[i], volume[i])), period)
        d == NonmissingSum(volume, period)
    IN  Each(source, LAMBDA i : IF Less(Zero, d[i]) THEN Over(n[i], d[i]) ELSE Missing)

\* vwap: a bar with a gap adds nothing and shows nothing.
Vwap(source, volume, anchor) ==
    LET sums == Scan(LAMBDA s, x, i :
                        LET t == IF anchor[i] THEN [on |-> TRUE, v |-> Zero, w |-> Zero, q |-> Zero]
                                 ELSE s
                        IN  IF ~t.on \/ ~Present(x) \/ ~Present(volume[i]) THEN t
                            ELSE [t EXCEPT !.v = Plus(@, volume[i]), !.w = Plus(@, Times(x, volume[i])),
                                           !.q = Plus(@, Times(Times(x, x), volume[i]))],
                     [on |-> FALSE, v |-> Zero, w |-> Zero, q |-> Zero], source)
        at(s) == LET value == Over(s.w, s.v)
                 IN  <<value, Larger(Minus(Over(s.q, s.v), Times(value, value)), Zero)>>
    IN  Each(source, LAMBDA i :
                IF ~sums[i].on \/ ~Present(source[i]) \/ ~Present(volume[i]) \/ sums[i].v = Zero
                THEN <<Missing, Missing>> ELSE at(sums[i]))

---------------------------------------------------------------------------
\* Oscillators.

Signed(source, test(_), value(_)) ==     \* np.where over an array whose gaps stay gaps
    Each(source, LAMBDA i : IF ~Present(source[i]) THEN Missing
                            ELSE IF test(source[i]) THEN value(source[i]) ELSE Zero)
Negated(x) == Minus(Zero, x)

Rsi(source, period) ==
    LET delta == Change(source, 1)
        gain == RmaValues(Signed(delta, LAMBDA d : Less(Zero, d), LAMBDA d : d), period, TRUE)
        loss == RmaValues(Signed(delta, LAMBDA d : Less(d, Zero), Negated), period, TRUE)
        rsi(i) == IF loss[i] = Zero THEN Q(100)
                  ELSE IF gain[i] = Zero /\ Less(Zero, loss[i]) THEN Zero
                  ELSE Minus(Q(100), Over(Q(100), Plus(Q(1), Over(gain[i], loss[i]))))
    IN  Each(source, LAMBDA i : IF i <= period \/ ~Present(delta[i]) THEN Missing ELSE rsi(i))

\* cmo: an unknown change is no upward flow and a missing downward one.
Cmo(source, period) ==
    LET delta == Change(source, 1)
        rises(i) == AtMost(Zero, delta[i])
        up == NonmissingSum(Each(source, LAMBDA i : IF rises(i) THEN delta[i] ELSE Zero), period)
        down == NonmissingSum(Each(source, LAMBDA i : IF rises(i) THEN Zero ELSE Negated(delta[i])), period)
    IN  Each(source, LAMBDA i : IF i <= period THEN Missing
                                ELSE Over(Times(Q(100), Minus(up[i], down[i])), Plus(up[i], down[i])))

Highest(source, period) == RollingExtreme(source, period, TRUE, FALSE)
Lowest(source, period) == RollingExtreme(source, period, FALSE, FALSE)
HighestBars(source, period) == RollingExtreme(source, period, TRUE, TRUE)
LowestBars(source, period) == RollingExtreme(source, period, FALSE, TRUE)

Wpr(bars, period) ==
    LET hh == Highest(Highs(bars), period)
        ll == Lowest(Lows(bars), period)
        spread(i) == Minus(hh[i], ll[i])
    IN  Each(bars, LAMBDA i : IF spread(i) = Zero THEN Zero
                              ELSE Over(Times(Q(-100), Minus(hh[i], bars[i].close)), spread(i)))

Tsi(source, short, long) ==
    LET momentum == Change(source, 1)
        smooth(s) == EmaValues(EmaValues(s, long), short)
        m == smooth(momentum)
        a == smooth(Each(source, LAMBDA i : Size(momentum[i])))
    IN  Each(source, LAMBDA i : Over(m[i], a[i]))

Stoch(source, highs, lows, period) ==
    LET hh == Highest(highs, period)
        ll == Lowest(lows, period)
    IN  FixNan(Each(source, LAMBDA i : Over(Times(Q(100), Minus(source[i], ll[i])), Minus(hh[i], ll[i]))))

Cci(source, period) ==
    LET m == MeanAndMad(source, period)
    IN  Each(source, LAMBDA i :
            IF i < period THEN Missing
            ELSE IF m[i][2] = Zero THEN Zero
            ELSE Over(Minus(source[i], m[i][1]), Times(Frac(15, 1000), m[i][2])))

Macd(source, fast, slow, signal) ==
    LET f == EmaValues(source, fast)
        s == EmaValues(source, slow)
        dif == Each(source, LAMBDA i : Minus(f[i], s[i]))
        dea == EmaValues(dif, signal)
    IN  Each(source, LAMBDA i : <<dif[i], dea[i], Minus(dif[i], dea[i])>>)

Mfi(source, volume, period) ==
    LET delta == Change(source, 1)
        flow(test(_)) == NonmissingSum(Each(source, LAMBDA i :
                            IF i > 1 /\ test(delta[i]) THEN Times(source[i], volume[i]) ELSE Zero), period)
        positive == flow(LAMBDA d : Less(Zero, d))
        negative == flow(LAMBDA d : Less(d, Zero))
    IN  Each(source, LAMBDA i :
            IF Present(negative[i]) /\ negative[i] # Zero
            THEN Minus(Q(100), Over(Q(100), Plus(Q(1), Over(positive[i], negative[i]))))
            ELSE Q(100))

Mom(source, n) == Each(source, LAMBDA i : Minus(source[i], Shift(source, n)[i]))

---------------------------------------------------------------------------
\* Dispersion.

Variance(source, period, ddof) == NonmissingVariance(source, period, ddof)
Stdev(source, period) == NonmissingVariance(source, period, 0)
Dev(source, period) == LET m == MeanAndMad(source, period) IN Each(source, LAMBDA i : m[i][2])
Bb(source, period) ==
    LET middle == Sma(source, period)
        square == Stdev(source, period)
    IN  Each(source, LAMBDA i : <<middle[i], square[i]>>)

---------------------------------------------------------------------------
\* Ranges of bars.

Tr(bars) ==
    LET previous == Shift(ClosesOf(bars), 1)
        span(i) == Minus(bars[i].high, bars[i].low)
        reach(i) == Larger(Size(Minus(bars[i].high, previous[i])), Size(Minus(bars[i].low, previous[i])))
    IN  Each(bars, LAMBDA i : IF Present(previous[i]) THEN Larger(span(i), reach(i)) ELSE span(i))
StrictTr(bars) ==
    LET previous == Shift(ClosesOf(bars), 1)
    IN  Each(bars, LAMBDA i : IF Present(previous[i]) THEN Tr(bars)[i] ELSE Missing)
AtrValues(bars, period) == RmaValues(Tr(bars), period, FALSE)

DmiComponents(bars, period, adxPeriod) ==
    LET up == Change(Highs(bars), 1)
        down == Each(bars, LAMBDA i : Negated(Change(Lows(bars), 1)[i]))
        movement(mine, other) ==
            Each(bars, LAMBDA i : IF ~Present(mine[i]) THEN Missing
                                  ELSE IF Less(other[i], mine[i]) /\ Less(Zero, mine[i]) THEN mine[i]
                                  ELSE Zero)
        trur == RmaValues(StrictTr(bars), period, FALSE)
        plus == RmaValues(movement(up, down), period, FALSE)
        minus == RmaValues(movement(down, up), period, FALSE)
        plusDi == FixNan(Each(bars, LAMBDA i : Over(Times(Q(100), plus[i]), trur[i])))
        minusDi == FixNan(Each(bars, LAMBDA i : Over(Times(Q(100), minus[i]), trur[i])))
        total(i) == Plus(plusDi[i], minusDi[i])
        dx == Each(bars, LAMBDA i : Over(Size(Minus(plusDi[i], minusDi[i])),
                                         IF total(i) = Zero THEN Q(1) ELSE total(i)))
        adx == RmaValues(dx, adxPeriod, FALSE)
    IN  Each(bars, LAMBDA i : <<plusDi[i], minusDi[i], Times(Q(100), adx[i])>>)

\* keltner: the middle and the width (over the multiplier).
Keltner(bars, period, useTrueRange, smoothing) ==
    LET middle == EmaValues(ClosesOf(bars), period)
        span == IF useTrueRange THEN StrictTr(bars)
                ELSE Each(bars, LAMBDA i : Minus(bars[i].high, bars[i].low))
        width == IF smoothing = "atr" THEN AtrValues(bars, period) ELSE EmaValues(span, period)
    IN  Each(bars, LAMBDA i : <<middle[i], width[i]>>)

Donchian(bars, period) ==
    LET upper == Highest(Highs(bars), period)
        lower == Lowest(Lows(bars), period)
    IN  Each(bars, LAMBDA i : <<upper[i], Over(Plus(upper[i], lower[i]), Q(2)), lower[i]>>)

---------------------------------------------------------------------------
\* sar: the loop over bars; params is [start, increment, maximum].
SarBar(s, bar, i, bars, params) ==
    LET before == bars[i - 1]
        rising == Less(before.close, bar.close)
        moved == Plus(s.sar, Times(s.acceleration, Minus(s.extreme, s.sar)))
        turns == IF s.below THEN Less(bar.low, moved) ELSE Less(moved, bar.high)
        extends == IF s.below THEN Less(s.extreme, bar.high) ELSE Less(bar.low, s.extreme)
        below == IF turns THEN ~s.below ELSE s.below
        value == IF ~turns THEN moved
                 ELSE IF s.below THEN Larger(bar.high, s.extreme) ELSE Smaller(bar.low, s.extreme)
        bounds(field(_)) == {x \in {field(bars[j]) : j \in Max({1, i - 2})..(i - 1)} : Present(x)}
        clamped == IF below THEN FoldSet(Smaller, value, bounds(LAMBDA b : b.low))
                   ELSE FoldSet(Larger, value, bounds(LAMBDA b : b.high))
    IN  IF \E x \in {bar.high, bar.low, bar.close} : ~Present(x)
        THEN [s EXCEPT !.sar = Missing, !.extreme = Missing, !.acceleration = Missing, !.out = Missing]
        ELSE IF ~Present(s.sar)
        THEN IF i = 1 \/ ~Present(before.close) THEN s
             ELSE LET first == IF rising THEN before.low ELSE before.high
                  IN  [below |-> rising, extreme |-> IF rising THEN bar.high ELSE bar.low,
                       sar |-> first, acceleration |-> params.start, out |-> first]
        ELSE [below |-> below, sar |-> clamped, out |-> clamped,
              extreme |-> IF turns \/ extends THEN IF below THEN bar.high ELSE bar.low ELSE s.extreme,
              acceleration |-> IF turns THEN params.start
                               ELSE IF extends
                               THEN Smaller(Plus(s.acceleration, params.increment), params.maximum)
                               ELSE s.acceleration]
Sar(bars, params) ==
    LET states == Scan(LAMBDA s, bar, i : SarBar(s, bar, i, bars, params),
                       [below |-> FALSE, sar |-> Missing, extreme |-> Missing,
                        acceleration |-> Missing, out |-> Missing], bars)
    IN  Each(bars, LAMBDA i : states[i].out)

\* supertrend: the bands are adjusted in place, from those of the bar before.
Supertrend(bars, factor, period) ==
    LET or(x, default) == IF Present(x) THEN x ELSE default
        directed(i, started, s, upper, lower) ==
            IF i = 1 \/ ~started THEN 1
            ELSE IF Present(s.line) /\ s.line = or(s.upper, Zero)
            THEN IF Less(upper, bars[i].close) THEN -1 ELSE 1
            ELSE IF Less(bars[i].close, lower) THEN 1 ELSE -1
        drawn(i, upper, lower, direction) ==
            [upper |-> upper, lower |-> lower, direction |-> direction,
             line |-> IF Present(upper) /\ Present(lower)
                      THEN IF direction = -1 THEN lower ELSE upper
                      ELSE IF i = 1 THEN Zero ELSE Missing]
        bounded(i, started, s, upper, lower) ==
            drawn(i, upper, lower, directed(i, started, s, upper, lower))
        kept(raw, previous, closer, crossed) ==
            IF Present(raw) /\ ~closer /\ ~crossed THEN previous ELSE raw
        banded(i, started, s, close0, lower, upper, oldLower, oldUpper) ==
            bounded(i, started, s,
                    kept(upper, oldUpper, Less(upper, oldUpper), Less(oldUpper, close0)),
                    kept(lower, oldLower, Less(oldLower, lower), Less(close0, oldLower)))
        around(i, started, s, middle, reach) ==
            banded(i, started, s, IF i = 1 THEN Missing ELSE bars[i - 1].close,
                   Minus(middle, reach), Plus(middle, reach), or(s.lower, Zero), or(s.upper, Zero))
        states(atr) ==
            Scan(LAMBDA s, bar, i : around(i, i > 1 => Present(atr[i - 1]), s,
                                           Over(Plus(bar.high, bar.low), Q(2)), Times(factor, atr[i])),
                 [upper |-> Missing, lower |-> Missing, direction |-> 1, line |-> Missing], bars)
        pairs(lines) == Each(bars, LAMBDA i : <<lines[i].line, lines[i].direction>>)
    IN  pairs(states(AtrValues(bars, period)))

\* pivot_point_levels: a period has bars from its first one on, whatever its open.
PivotPointLevels(bars, anchors, developing, type) ==
    LET none == [open |-> Missing, high |-> Missing, low |-> Missing, close |-> Missing]
        kept(x, y, Choice(_, _)) == IF ~Present(y) THEN x ELSE IF ~Present(x) THEN y ELSE Choice(x, y)
        begun(s, bar) == [fixed |-> IF s.hasBars THEN PivotLevelValues(type, s.period, bar.open)
                                    ELSE NoLevels,
                          period |-> none, hasBars |-> FALSE]
        extended(p, bar) == [open |-> p.open, high |-> kept(p.high, bar.high, Larger),
                             low |-> kept(p.low, bar.low, Smaller),
                             close |-> IF Present(bar.close) THEN bar.close ELSE p.close]
        added(t, bar) == [fixed |-> t.fixed, hasBars |-> TRUE,
                          period |-> extended(IF t.hasBars THEN t.period
                                              ELSE [t.period EXCEPT !.open = bar.open], bar)]
        levels(states) ==
            Each(bars, LAMBDA i : IF developing
                                  THEN PivotLevelValues(type, states[i].period, states[i].period.open)
                                  ELSE states[i].fixed)
    IN  levels(Scan(LAMBDA s, bar, i : added(IF anchors[i] THEN begun(s, bar) ELSE s, bar),
                    [fixed |-> NoLevels, period |-> none, hasBars |-> FALSE], bars))

---------------------------------------------------------------------------
\* Conditions and accumulations (utils.py).

BarsSince(conditions) ==
    LET trues(i) == {j \in 1..i : conditions[j]}
    IN  Each(conditions, LAMBDA i : IF trues(i) = {} THEN Missing ELSE Q(i - Max(trues(i))))

ValueWhen(conditions, source, occurrence) ==
    LET trues(i) == SelectSeq([j \in 1..i |-> j], LAMBDA j : conditions[j])
    IN  Each(source, LAMBDA i : IF Len(trues(i)) <= occurrence THEN Missing
                                ELSE source[trues(i)[Len(trues(i)) - occurrence]])

\* _cross: every bar with both values against the bar before with both values.
Cross(a, b, direction) ==
    LET valid == {i \in DOMAIN a : Present(a[i]) /\ Present(b[i])}
        earlier(i) == {j \in valid : j < i}
        crossed(i, j) ==
            CASE direction = "over"  -> AtMost(a[j], b[j]) /\ Less(b[i], a[i])
              [] direction = "under" -> AtMost(b[j], a[j]) /\ Less(a[i], b[i])
              [] OTHER -> (Less(a[j], b[j]) /\ Less(b[i], a[i])) \/ (Less(b[j], a[j]) /\ Less(a[i], b[i]))
    IN  Each(a, LAMBDA i : i \in valid /\ earlier(i) # {} /\ crossed(i, Max(earlier(i))))

Cum(source) ==
    LET sums == Scan(LAMBDA s, x, i : IF Present(x) THEN Plus(s, x) ELSE s, Zero, source)
    IN  Each(source, LAMBDA i : IF Present(source[i]) THEN sums[i] ELSE Missing)

Sign(x) == IF ~Present(x) THEN Missing ELSE IF Less(x, Zero) THEN Q(-1)
           ELSE IF x = Zero THEN Zero ELSE Q(1)
Obv(closes, volume) ==
    LET delta == Change(closes, 1)
    IN  Cum(Each(closes, LAMBDA i : Times(Sign(delta[i]), volume[i])))

SumValues(source, period) == NonmissingSum(source, period)
PivotHigh(source, left, right) == PivotValues(source, left, right, TRUE)
PivotLow(source, left, right) == PivotValues(source, left, right, FALSE)
Rising(source, period) == Direction(source, period, TRUE)
Falling(source, period) == Direction(source, period, FALSE)

-----------------------------------------------------------------------------
(* What the array kernels must compute, said of each window alone, and     *)
(* what no batch indicator may do: use a bar that comes later.             *)

\* The last period present values up to bar i, and the ordinary window of bar i.
LastPresent(source, period, i) ==
    LET seen == Compact(SubSeq(source, 1, i)) IN WindowAt(seen, period, Len(seen))
FullAt(source, period, i) == i >= period /\ Complete(WindowAt(source, period, i))

\* The three rolling sums agree with the sum of each window of a complete array, and the sum
\* over present values with the sum of the last ones.
SumsAreExact(source, period) ==
    LET values == Nz(source, Zero)
        direct == [k \in 1..(Len(source) - period + 1) |-> Total(SubSeq(values, k, k + period - 1))]
    IN  /\ WindowSums(values, period) = direct
        /\ BlockWindowSums(values, period) = direct
        /\ ExactWindowSums(values, period) = direct
        /\ \A i \in BarsOf(source) :
              NonmissingSum(source, period)[i] =
                  IF Seen(source, i) < period THEN Missing ELSE Total(LastPresent(source, period, i))

\* The centered moments give the mean squared deviation of the last present values.
MomentsAreExact(source, period) ==
    \A i \in BarsOf(source) : Seen(source, i) >= period =>
        LET w == LastPresent(source, period, i)
            mean == Mean(w)
            squares == [j \in 1..period |-> Times(Minus(w[j], mean), Minus(w[j], mean))]
        IN  NonmissingVariance(source, period, 0)[i] = Mean(squares)

\* The recurrences of the weighted sums give the weighted mean and the least squares line.
WeightsAreExact(source, period) ==
    LET fit(w, offset) ==
            LET center == Over(Q(period + 1), Q(2))
                dx == [j \in 1..period |-> Minus(Q(j), center)]
                slope == Over(Total([j \in 1..period |-> Times(dx[j], w[j])]),
                              Total([j \in 1..period |-> Times(dx[j], dx[j])]))
            IN  Plus(Mean(w), Times(slope, Minus(Q(period - offset), center)))
        clean == Nz(source, Zero)
    IN  \A i \in BarsOf(source) :
            /\ i >= period => WeightedAverage(clean, period)[i] =
                   LET w == WindowAt(clean, period, i)
                   IN  Over(Total([j \in 1..period |-> Times(Q(j), w[j])]),
                            Total([j \in 1..period |-> Q(j)]))
            /\ period > 1 => \A offset \in {0, 1} :
                   LinearRegression(source, period, offset)[i] =
                       IF FullAt(source, period, i) THEN fit(WindowAt(source, period, i), offset)
                       ELSE Missing

\* The tree gives the mean absolute deviation and the order statistics of each window; the
\* list of an array with gaps holds exactly the bars of its window.
SortedWindow(w) == LET bars == SetToSortSeq(DOMAIN w, LAMBDA a, b : Less(w[a], w[b]) \/ (w[a] = w[b] /\ a < b))
                   IN  [j \in DOMAIN w |-> w[bars[j]]]
RanksAreExact(source, period) ==
    LET n == Len(source)
        start == IF Complete(source) THEN n + 1 ELSE FirstGap(source)
    IN  /\ \A i \in period..n :
              MeanAndMad(source, period)[i] =
                  IF FullAt(source, period, i)
                  THEN <<Mean(WindowAt(source, period, i)), MeanDeviation(WindowAt(source, period, i))>>
                  ELSE <<Missing, Missing>>
        /\ \A i \in period..(start - 1) : \A percentage \in {0, 50, 80, 100} :
              LET sorted == SortedWindow(WindowAt(source, period, i))
                  rank == Ceiling(percentage * period, 100)
              IN  PercentileValues(source, period, percentage, FALSE)[i] =
                      sorted[IF rank = 0 THEN 1 ELSE rank]
        /\ start <= n /\ period <= n => \A i \in start..n :
              LET list == OrderedLists(source, period, start)[i]
                  bars == Max({1, i - period + 1})..i
              IN  /\ Len(list) = Cardinality(bars)
                  /\ {list[p] : p \in DOMAIN list} = {<<j, source[j]>> : j \in bars}

\* The packed product gives every coefficient of the convolution: no digit overflows.
ConvolutionIsExact(source, kernel) ==
    LET values == [i \in BarsOf(source) |-> IF Present(source[i]) THEN source[i][1] ELSE -2]
        period == Len(kernel)
    IN  period <= Len(values) =>
            ConvolutionCoefficients(values, kernel) =
                [k \in 1..(Len(values) - period + 1) |->
                    SumInts([j \in 1..period |-> values[k + j - 1] * kernel[period - j + 1]])]

\* Extremes since the last gap, pivots of a segment, and runs of rising bars.
ExtremesAreExact(source, period) ==
    \A i \in period..Len(source) :
        LET live == Max({SegmentStart(source, i), i - period + 1})..i
            top == {j \in live : \A k \in live : AtMost(source[k], source[j])}
        IN  /\ Present(source[i]) =>
                  /\ Highest(source, period)[i] = source[Min(top)]
                  /\ HighestBars(source, period)[i] = Q(Min(top) - i)
            /\ Present(source[i]) <=> Present(Highest(source, period)[i])
            /\ Rising(source, period)[i] =
                  LET pairs == {j \in 2..i : Present(source[j]) /\ Present(source[j - 1])}
                      last == {j \in pairs : Cardinality({k \in pairs : k > j}) < period}
                  IN  Cardinality(last) = period /\ \A j \in last : Less(source[j - 1], source[j])
PivotsAreExact(source, left, right) ==
    \A i \in BarsOf(source) :
        LET center == i - right
            live == {j \in (center - left)..i : j \in BarsOf(source) /\ j >= SegmentStart(source, center)
                                                /\ j <= SegmentEnd(source, center)}
            wins == /\ center > left /\ Present(source[center])
                    /\ \A j \in live : IF j < center THEN AtMost(source[j], source[center])
                                       ELSE j = center \/ Less(source[j], source[center])
        IN  PivotHigh(source, left, right)[i] = IF wins THEN source[center] ELSE Missing

\* Correlation is Pearson's over a complete pair of windows; elsewhere each moment is taken
\* over its own present observations.
CorrelationIsExact(a, b, period) ==
    LET own(x, i) == IF Seen(x, i) < period THEN Missing ELSE Mean(LastPresent(x, period, i))
        ab == [i \in BarsOf(a) |-> Times(a[i], b[i])]
        cross(i) == Minus(own(ab, i), Times(own(a, i), own(b, i)))
        spread(x, i) == NonmissingVariance(x, period, 0)[i]
        product(i) == Times(spread(a, i), spread(b, i))
    IN  \A i \in period..Len(a) :
            LET both == FullAt(a, period, i) /\ FullAt(b, period, i)
            IN  /\ Present(product(i)) /\ Present(cross(i)) /\ (both \/ product(i) # Zero) =>
                       Correlation(a, b, period)[i] =
                           IF product(i) = Zero THEN Zero ELSE SignedSquare(cross(i), product(i))
                /\ both => AtMost(Size(Correlation(a, b, period)[i]), Q(1))

---------------------------------------------------------------------------
\* A value of an array depends on the bars before it only: it is the last value of the array
\* cut there.
LastOf(array) == array[Len(array)]
NoLookahead(whole, cut) == SubSeq(whole, 1, Len(cut)) = cut

ScalarsLookBack(source, period) ==
    LET front == Front(source)
        ahead(F(_)) == NoLookahead(F(source), F(front))
    IN  /\ ahead(LAMBDA s : Cmo(s, period))
        /\ ahead(LAMBDA s : Tsi(s, 1, 2))
        /\ ahead(LAMBDA s : Roc(s, period))
        /\ ahead(LAMBDA s : Mom(s, period))
        /\ ahead(LAMBDA s : SumValues(s, period))
        /\ ahead(LAMBDA s : Falling(s, period))
        /\ ahead(LAMBDA s : LinearRegression(s, period, 0))
        /\ ahead(LAMBDA s : PercentileValues(s, period, 50, FALSE))
        /\ ahead(LAMBDA s : PercentileValues(s, period, 75, TRUE))
        /\ ahead(FixNan)
        /\ \A i \in BarsOf(source) :
              /\ Present(Cmo(source, period)[i]) => AtMost(Size(Cmo(source, period)[i]), Q(100))
              /\ Present(Tsi(source, 1, 2)[i]) => AtMost(Size(Tsi(source, 1, 2)[i]), Q(1))
BarsLookBack(bars, period) ==
    LET front == Front(bars)
        volume(b) == Each(b, LAMBDA i : b[i].open)
        ahead(F(_)) == NoLookahead(F(bars), F(front))
        channel == Donchian(bars, period)
    IN  /\ ahead(LAMBDA b : Wpr(b, period))
        /\ ahead(LAMBDA b : Keltner(b, period, TRUE, "atr"))
        /\ ahead(LAMBDA b : Keltner(b, period, FALSE, "ema"))
        /\ ahead(LAMBDA b : Donchian(b, period))
        /\ ahead(LAMBDA b : Obv(ClosesOf(b), volume(b)))
        /\ \A i \in BarsOf(bars) :
              /\ Present(channel[i][2]) =>
                    AtMost(channel[i][3], channel[i][2]) /\ AtMost(channel[i][2], channel[i][1])
              /\ Present(Keltner(bars, period, TRUE, "atr")[i][2]) =>
                    AtMost(Zero, Keltner(bars, period, TRUE, "atr")[i][2])
===============================================================================
