---------------------------- MODULE StepIndicators ----------------------------
(***************************************************************************)
(* The step-by-step helpers of incremental/ta.py, ctx.ta.  A helper is a    *)
(* record; XUpdate(h, ...) is the record after one call of its update(),    *)
(* with the value the call returns in the field out (None is Missing, a     *)
(* tuple of values is a tuple).  A square root is represented by its square *)
(* and the weights of ALMA are parameters.                                  *)
(***************************************************************************)
EXTENDS Rationals, FiniteSetsExt

CONSTANT RebaseEvery    \* updates between two rebases of centered moments (4096), at least 1

\* Both engines compute pivot levels by one kernel.
Kernels == INSTANCE TaKernels

\* deque.append and, when the deque is longer than n, popleft.
Pushed(window, x, n) == IF Len(window) < n THEN Append(window, x) ELSE Append(Tail(window), x)
Full(window, n) == Len(window) = n /\ \A i \in DOMAIN window : Present(window[i])

---------------------------------------------------------------------------
\* Moments over the last period present observations: _StepRollingMoments.

Moments(period) ==
    [period |-> period, window |-> <<>>, anchor |-> Missing, sum |-> Zero, squares |-> Zero,
     exactSum |-> Zero, exactSquares |-> Missing, updates |-> 0, out |-> Missing]

Centered(h, x) == Minus(x, IF Present(h.anchor) THEN h.anchor ELSE Zero)

\* _accumulate: one observation enters (sign 1) or leaves (sign -1).
Accumulated(h, x, sign) ==
    LET c == Centered(h, x)
    IN  [h EXCEPT !.exactSum = Plus(@, Times(sign, x)),
                  !.exactSquares = Plus(@, Times(sign, Times(x, x))),
                  !.sum = Plus(@, Times(sign, c)),
                  !.squares = Plus(@, Times(sign, Times(c, c)))]

\* _rebase: center on the oldest observation kept.
MutantRebasesAnchorOnly(h) == [h EXCEPT !.anchor = Head(h.window)]
Rebased(h) ==
    LET g == [h EXCEPT !.anchor = Head(h.window)]
        c == [i \in DOMAIN h.window |-> Centered(g, h.window[i])]
    IN  [g EXCEPT !.sum = Total(c), !.squares = Total([i \in DOMAIN c |-> Times(c[i], c[i])])]

MomentsPushed(h, x) ==
    IF ~Present(x) THEN h
    ELSE LET entered == [h EXCEPT !.anchor = IF Present(@) THEN @ ELSE x, !.window = Append(@, x)]
             expired(g) == IF Len(g.window) <= h.period THEN g
                           ELSE Accumulated([g EXCEPT !.window = Tail(@)], Head(g.window), Q(-1))
             counted(g) == IF (g.updates + 1) % Max({h.period, RebaseEvery}) = 0 THEN Rebased(g) ELSE g
         IN  [counted(expired(Accumulated(entered, x, Q(1)))) EXCEPT !.updates = @ + 1]

MeanValue(h) ==
    IF Len(h.window) < h.period THEN Missing
    ELSE IF h.period = 1 THEN h.window[1]
    ELSE Over(h.exactSum, Q(h.period))

Squares(window) == Total([i \in DOMAIN window |-> Times(window[i], window[i])])

\* variance_value gives up the centered sums when they cancel, and from then on keeps
\* exact squares.
WithExactSquares(h) ==
    IF \/ Present(h.exactSquares) \/ Len(h.window) < h.period \/ h.period = 1 \/ h.squares = Zero
       \/ Minus(h.squares, Over(Times(h.sum, h.sum), Q(h.period))) # Zero
    THEN h ELSE [h EXCEPT !.exactSquares = Squares(h.window)]

VarianceValue(h, ddof) ==
    IF Len(h.window) < h.period \/ h.period = ddof THEN Missing
    ELSE IF h.period = 1 THEN Zero
    ELSE LET spread(q, s) == Over(Minus(q, Over(Times(s, s), Q(h.period))), Q(h.period - ddof))
             exact == Present(h.exactSquares)
         IN  spread(IF exact THEN h.exactSquares ELSE h.squares, IF exact THEN h.exactSum ELSE h.sum)

SmaUpdate(h, x) ==
    LET returning(g) == [g EXCEPT !.out = MeanValue(g)] IN returning(MomentsPushed(h, x))

VarianceUpdate(h, x, ddof) ==
    LET squared(g) == IF h.period = ddof THEN g ELSE WithExactSquares(g)
        returning(g) == [g EXCEPT !.out = VarianceValue(g, ddof)]
    IN  returning(squared(MomentsPushed(h, x)))
StdevUpdate(h, x) == VarianceUpdate(h, x, 0)       \* the square of the deviation

\* boll: the middle line and the square of the half width (over the multiplier).
BollUpdate(h, x) ==
    LET both(g) == [g EXCEPT !.out = IF Present(@) THEN <<MeanValue(g), @>> ELSE <<Missing, Missing>>]
    IN  both(VarianceUpdate(h, x, 0))

---------------------------------------------------------------------------
\* Recursive and weighted averages.

Ema(period) == [period |-> period, seedSum |-> Zero, seedCount |-> 0, ema |-> Missing, out |-> Missing]
EmaUpdate(h, x) ==
    IF ~Present(x) THEN [h EXCEPT !.out = Missing]
    ELSE IF Present(h.ema) THEN
        LET moved(alpha) == Plus(Times(alpha, x), Times(Minus(Q(1), alpha), h.ema))
            now(e) == [h EXCEPT !.ema = e, !.out = e]
        IN  now(moved(Frac(2, h.period + 1)))
    ELSE
        LET n == h.seedCount + 1
            seeded(s, e) == [h EXCEPT !.seedSum = s, !.seedCount = n, !.ema = e, !.out = e]
            after(s) == seeded(s, IF n < h.period THEN Missing ELSE Over(s, Q(n)))
        IN  after(Plus(h.seedSum, x))

Rma(period) == [period |-> period, seedSum |-> Zero, seedCount |-> 0, value |-> Missing, out |-> Missing]
RmaUpdate(h, x, emitMissing) ==
    IF ~Present(x) THEN [h EXCEPT !.out = IF emitMissing THEN Missing ELSE h.value]
    ELSE IF ~Present(h.value) THEN
        LET n == h.seedCount + 1
            seeded(s, v) == [h EXCEPT !.seedSum = s, !.seedCount = n, !.value = v, !.out = v]
            after(s) == seeded(s, IF n < h.period THEN Missing ELSE Over(s, Q(h.period)))
        IN  after(Plus(h.seedSum, x))
    ELSE
        LET moved(alpha) == Plus(Times(alpha, x), Times(Minus(Q(1), alpha), h.value))
            now(v) == [h EXCEPT !.value = v, !.out = v]
        IN  now(moved(Frac(1, h.period)))

\* The weighted window goes on with the last input through gaps.
Wma(period) ==
    [period |-> period, window |-> <<>>, simple |-> Zero, weighted |-> Zero,
     observations |-> 0, last |-> Missing, out |-> Missing]
WmaUpdate(h, x) ==
    LET number == IF Present(x) THEN x ELSE h.last
        seen   == IF Present(x) THEN Min({h.observations + 1, h.period}) ELSE h.observations
        full   == Len(h.window) = h.period
        weight == Q(Min({Len(h.window) + 1, h.period}))
        lost   == IF full THEN Head(h.window) ELSE Zero
        total  == Plus(IF full THEN Minus(h.weighted, h.simple) ELSE h.weighted, Times(weight, number))
    IN  IF ~Present(number) THEN [h EXCEPT !.out = Missing]
        ELSE [h EXCEPT !.window = Pushed(@, number, h.period),
                       !.simple = Plus(Minus(@, lost), number),
                       !.weighted = total,
                       !.observations = seen,
                       !.last = number,
                       !.out = IF ~Present(x) \/ seen < h.period THEN Missing
                               ELSE Over(total, Q((h.period * (h.period + 1)) \div 2))]

\* The products and the volumes advance independently.
Vwma(period) ==
    [period |-> period, products |-> <<>>, weights |-> <<>>, numerator |-> Zero,
     denominator |-> Zero, out |-> Missing]
VwmaUpdate(h, x, volume) ==
    LET product == Times(x, volume)
        keepsP  == Present(product)
        keepsW  == Present(volume)
        oldest(w) == IF Len(w) = h.period THEN Head(w) ELSE Zero
        g == [h EXCEPT
                !.products = IF keepsP THEN Pushed(@, product, h.period) ELSE @,
                !.numerator = IF keepsP THEN Minus(Plus(@, product), oldest(h.products)) ELSE @,
                !.weights = IF keepsW THEN Pushed(@, volume, h.period) ELSE @,
                !.denominator = IF keepsW THEN Minus(Plus(@, volume), oldest(h.weights)) ELSE @]
    IN  [g EXCEPT !.out = IF Len(g.products) < h.period \/ Len(g.weights) < h.period
                             \/ ~Less(Zero, g.denominator)
                          THEN Missing ELSE Over(g.numerator, g.denominator)]

\* hma: a weighted average of the difference of two.
ISqrt(n) == CHOOSE r \in 0..n : r * r <= n /\ (r + 1) * (r + 1) > n
Hma(period) ==
    [fast |-> Wma(Max({period \div 2, 1})), slow |-> Wma(period),
     result |-> Wma(Max({ISqrt(period), 1})), out |-> Missing]
HmaUpdate(h, x) ==
    LET made(f, s, r) == [fast |-> f, slow |-> s, result |-> r, out |-> r.out]
        after(f, s) == made(f, s, WmaUpdate(h.result, Minus(Times(Q(2), f.out), s.out)))
    IN  after(WmaUpdate(h.fast, x), WmaUpdate(h.slow, x))

Macd(fast, slow, signal) ==
    [fast |-> Ema(fast), slow |-> Ema(slow), signal |-> Ema(signal),
     out |-> <<Missing, Missing, Missing>>]
MacdUpdate(h, x) ==
    LET made(f, s, g, dif) ==
            [fast |-> f, slow |-> s, signal |-> g,
             out |-> IF Present(dif) THEN <<dif, g.out, Minus(dif, g.out)>>
                     ELSE <<Missing, Missing, Missing>>]
        signaled(f, s, dif) ==
            made(f, s, IF Present(dif) THEN EmaUpdate(h.signal, dif) ELSE h.signal, dif)
        after(f, s) == signaled(f, s, Minus(f.out, s.out))
    IN  after(EmaUpdate(h.fast, x), EmaUpdate(h.slow, x))

Cum == [total |-> Zero, out |-> Missing]
CumUpdate(h, x) ==
    IF Present(x) THEN [total |-> Plus(h.total, x), out |-> Plus(h.total, x)]
    ELSE [h EXCEPT !.out = Missing]

---------------------------------------------------------------------------
\* Windows that need every bar: change, swma, alma, dev, cci.

Window(period) == [period |-> period, window |-> <<>>, out |-> Missing]

ChangeUpdate(h, x) ==
    LET w == Pushed(h.window, x, h.period + 1)
    IN  [h EXCEPT !.window = w, !.out = IF Len(w) <= h.period THEN Missing ELSE Minus(x, w[1])]

SwmaUpdate(h, x) ==
    LET w == Pushed(h.window, x, 4)
    IN  [h EXCEPT !.window = w,
                  !.out = IF Full(w, 4)
                          THEN Over(Total(<<w[1], w[2], w[2], w[3], w[3], w[4]>>), Q(6)) ELSE Missing]

AlmaUpdate(h, x, weights) ==
    LET w == Pushed(h.window, x, h.period)
    IN  [h EXCEPT !.window = w,
                  !.out = IF Full(w, h.period)
                          THEN Total([i \in 1..h.period |-> Times(w[i], weights[i])]) ELSE Missing]

DevUpdate(h, x) ==
    LET w == Pushed(h.window, x, h.period)
    IN  [h EXCEPT !.window = w, !.out = IF Full(w, h.period) THEN MeanDeviation(w) ELSE Missing]

CciOf(x, mean, deviation) ==
    IF deviation = Zero THEN Zero ELSE Over(Minus(x, mean), Times(Frac(15, 1000), deviation))
CciUpdate(h, x) ==
    LET w == Pushed(h.window, x, h.period)
    IN  [h EXCEPT !.window = w,
                  !.out = IF Full(w, h.period) THEN CciOf(x, Mean(w), MeanDeviation(w)) ELSE Missing]

---------------------------------------------------------------------------
\* Extremes: a deque of <<bar, value>> whose values are monotonic.

\* The candidates that the new value x does not beat: the last ones popped while beaten.
Surviving(candidates, x, highest, orEqual) ==
    LET beaten(v) == IF orEqual /\ v = x THEN TRUE
                     ELSE IF highest THEN Less(v, x) ELSE Less(x, v)
        left == {i \in DOMAIN candidates : ~beaten(candidates[i][2])}
    IN  SubSeq(candidates, 1, IF left = {} THEN 0 ELSE Max(left))
MutantNeverExpires(candidates, oldest) == candidates
Unexpired(candidates, oldest) ==
    SubSeq(candidates, 1 + Cardinality({i \in DOMAIN candidates : candidates[i][1] < oldest}),
           Len(candidates))

Extreme(period, highest) ==
    [period |-> period, highest |-> highest, index |-> -1, window |-> <<>>, out |-> Missing]

ExtremeWindow(h, x, orEqual) ==
    IF ~Present(x) THEN <<>>
    ELSE Append(Surviving(Unexpired(h.window, h.index + 2 - h.period), x, h.highest, orEqual),
                <<h.index + 1, x>>)

MonotonicUpdate(h, x) ==
    LET w == ExtremeWindow(h, x, TRUE)
    IN  [h EXCEPT !.index = @ + 1, !.window = w,
                  !.out = IF w = <<>> \/ h.index + 2 < h.period THEN Missing ELSE w[1][2]]

\* The offset of the earliest extreme; a gap counts as an extreme of its own.
ExtremeBarsUpdate(h, x) ==
    LET w == ExtremeWindow(h, x, FALSE)
    IN  [h EXCEPT !.index = @ + 1, !.window = w,
                  !.out = IF h.index + 2 < h.period THEN Missing
                          ELSE IF w = <<>> THEN Zero ELSE Q(w[1][1] - (h.index + 1))]

Stoch(period) ==
    [highest |-> Extreme(period, TRUE), lowest |-> Extreme(period, FALSE), out |-> Missing]
StochUpdate(h, x, high, low) ==
    LET hi == MonotonicUpdate(h.highest, high)
        lo == MonotonicUpdate(h.lowest, low)
        spread == Minus(hi.out, lo.out)
    IN  [highest |-> hi, lowest |-> lo,
         out |-> IF Present(x) /\ Present(spread) /\ spread # Zero
                 THEN Over(Times(Q(100), Minus(x, lo.out)), spread) ELSE h.out]

\* _PivotWindow: one queue of candidates per segment of present values.
Pivot(left, right, highest) ==
    [left |-> left, right |-> right, highest |-> highest, index |-> -1, pending |-> <<>>,
     segments |-> <<>>, open |-> FALSE, out |-> Missing]

\* The segments after the value of bar index arrived: [first, last or -1, queue].
SegmentsWith(h, x, index) ==
    LET segments == IF Present(x) /\ ~h.open
                    THEN Append(h.segments, [first |-> index, last |-> -1, queue |-> <<>>])
                    ELSE h.segments
        n == Len(segments)
    IN  IF Present(x)
        THEN [segments EXCEPT ![n].queue =
                 Append(Surviving(@, x, h.highest, TRUE), <<index, x>>)]
        ELSE IF h.open THEN [segments EXCEPT ![n].last = index - 1] ELSE segments

PivotUpdate(h, x) ==
    LET index    == h.index + 1
        pending  == Append(h.pending, x)
        arrived  == SegmentsWith(h, x, index)
        center   == index - h.right
        ended    == {i \in DOMAIN arrived :
                        \A j \in 1..i : arrived[j].last # -1 /\ arrived[j].last < center}
        kept     == SubSeq(arrived, Cardinality(ended) + 1, Len(arrived))
        compared == index >= h.left + h.right /\ Present(pending[1])
        queue    == Unexpired(kept[1].queue, center - h.left)
        waiting  == Len(pending) <= h.right
    IN  [h EXCEPT !.index = index, !.open = Present(x),
                  !.pending = IF waiting THEN pending ELSE Tail(pending),
                  !.segments = IF waiting THEN arrived
                               ELSE IF compared THEN [kept EXCEPT ![1].queue = queue] ELSE kept,
                  !.out = IF ~waiting /\ compared
                          THEN IF queue # <<>> /\ queue[1][1] = center THEN pending[1] ELSE Missing
                          ELSE Missing]

---------------------------------------------------------------------------
\* Conditions.

BarsSince == [index |-> -1, lastTrue |-> -1, out |-> Missing]
BarsSinceUpdate(h, condition) ==
    LET i == h.index + 1
        t == IF condition THEN i ELSE h.lastTrue
    IN  [index |-> i, lastTrue |-> t, out |-> IF t = -1 THEN Missing ELSE Q(i - t)]

ValueWhen(occurrence) == [occurrence |-> occurrence, values |-> <<>>, out |-> Missing]
ValueWhenUpdate(h, condition, x) ==
    LET v == IF condition THEN Pushed(h.values, x, h.occurrence + 1) ELSE h.values
    IN  [h EXCEPT !.values = v,
                  !.out = IF Len(v) <= h.occurrence THEN Missing ELSE v[Len(v) - h.occurrence]]

\* Crossing is judged against the last pair that was present.
Crosses(direction, a, b, a0, b0) ==
    LET over   == Less(b, a) /\ AtMost(a0, b0)
        under  == Less(a, b) /\ AtMost(b0, a0)
        strict == (Less(b, a) /\ Less(a0, b0)) \/ (Less(a, b) /\ Less(b0, a0))
    IN  CASE direction = "over" -> over [] direction = "under" -> under [] OTHER -> strict
CrossHelper(direction) == [direction |-> direction, a |-> Missing, b |-> Missing, out |-> FALSE]
CrossUpdate(h, a, b) ==
    LET pair == Present(a) /\ Present(b)
    IN  [h EXCEPT !.out = pair /\ Crosses(h.direction, a, b, h.a, h.b),
                  !.a = IF pair THEN a ELSE @,
                  !.b = IF pair THEN b ELSE @]

---------------------------------------------------------------------------
\* Oscillators and ranges.  A bar is a record with high, low and close.

PositivePart(x) == Larger(x, Zero)
RsiOf(gain, loss) ==
    IF loss = Zero THEN Q(100) ELSE IF gain = Zero THEN Zero
    ELSE Over(Times(Q(100), gain), Plus(gain, loss))

Rsi(period) ==
    [period |-> period, prev |-> Missing, count |-> 0, gainSum |-> Zero, lossSum |-> Zero,
     gain |-> Missing, loss |-> Missing, out |-> Missing]
RsiUpdate(h, x) ==
    IF ~Present(x) \/ ~Present(h.prev) THEN [h EXCEPT !.prev = x, !.out = Missing]
    ELSE
    LET up     == PositivePart(Minus(x, h.prev))
        down   == PositivePart(Minus(h.prev, x))
        seeded == Present(h.gain)
        n      == IF seeded THEN h.count ELSE h.count + 1
        us     == IF seeded THEN h.gainSum ELSE Plus(h.gainSum, up)
        ds     == IF seeded THEN h.lossSum ELSE Plus(h.lossSum, down)
        smoothed(v, d) == Over(Plus(Times(v, Q(h.period - 1)), d), Q(h.period))
        g == IF seeded THEN smoothed(h.gain, up)
             ELSE IF n < h.period THEN Missing ELSE Over(us, Q(h.period))
        l == IF seeded THEN smoothed(h.loss, down)
             ELSE IF n < h.period THEN Missing ELSE Over(ds, Q(h.period))
    IN  [h EXCEPT !.prev = x, !.count = n, !.gainSum = us, !.lossSum = ds, !.gain = g, !.loss = l,
                  !.out = IF Present(g) THEN RsiOf(g, l) ELSE Missing]

RangeOf(bar, previousClose) ==
    LET span == Minus(bar.high, bar.low)
    IN  IF ~Present(previousClose) THEN span
        ELSE Larger(span, Larger(Size(Minus(bar.high, previousClose)),
                                 Size(Minus(bar.low, previousClose))))

TrueRange == [previousClose |-> Missing, out |-> Missing]
TrueRangeUpdate(h, bar) == [previousClose |-> bar.close, out |-> RangeOf(bar, h.previousClose)]

Atr(period, handleNa) ==
    [period |-> period, handleNa |-> handleNa, prevClose |-> Missing, count |-> 0,
     sum |-> Zero, atr |-> Missing, out |-> Missing]
AtrUpdate(h, bar) ==
    LET skipped == ~Present(bar.high) \/ ~Present(bar.low) \/ (~Present(h.prevClose) /\ ~h.handleNa)
        tr == RangeOf(bar, h.prevClose)
        g  == [h EXCEPT !.prevClose = bar.close]
        n  == h.count + 1
        a  == IF Present(h.atr) THEN Over(Plus(Times(h.atr, Q(h.period - 1)), tr), Q(h.period))
              ELSE IF n < h.period THEN Missing ELSE Over(Plus(h.sum, tr), Q(h.period))
    IN  IF skipped THEN [g EXCEPT !.out = h.atr]
        ELSE IF Present(h.atr) THEN [g EXCEPT !.atr = a, !.out = a]
        ELSE [g EXCEPT !.count = n, !.sum = Plus(@, tr), !.atr = a, !.out = a]

\* The volume-weighted price since the anchor: with stdev_mult, the square of the deviation.
Vwap == [running |-> FALSE, volume |-> Zero, weighted |-> Zero, squares |-> Zero,
         out |-> <<Missing, Missing>>]
VwapUpdate(h, x, volume, anchor) ==
    LET base == IF anchor THEN [Vwap EXCEPT !.running = TRUE] ELSE h
        g == IF base.running /\ Present(x) /\ Present(volume)
             THEN [base EXCEPT !.volume = Plus(@, volume),
                               !.weighted = Plus(@, Times(x, volume)),
                               !.squares = Plus(@, Times(Times(x, x), volume))]
             ELSE base
        value == Over(g.weighted, g.volume)
    IN  [g EXCEPT !.out = IF ~g.running \/ g.volume = Zero THEN <<Missing, Missing>>
                          ELSE <<value, PositivePart(Minus(Over(g.squares, g.volume),
                                                           Times(value, value)))>>]

\* Directional movement: +DI, -DI and ADX.  A bar without a high or a low returns
\* the smoothed index itself, every other bar a hundred times of it.
Dmi(period, adxPeriod) ==
    [atr |-> Atr(period, FALSE), plus |-> Rma(period), minus |-> Rma(period), adx |-> Rma(adxPeriod),
     high |-> Missing, low |-> Missing, plusDi |-> Missing, minusDi |-> Missing,
     out |-> <<Missing, Missing, Missing>>]
Movement(mine, other) ==
    IF ~Present(mine) \/ ~Present(other) THEN Missing
    ELSE IF Less(other, mine) /\ Less(Zero, mine) THEN mine ELSE Zero
DirectionalIndex(plusDi, minusDi) ==
    LET total == Plus(plusDi, minusDi)
    IN  Over(Size(Minus(plusDi, minusDi)), IF total = Zero THEN Q(1) ELSE total)
Percent(x) == Times(Q(100), x)
DmiUpdate(h, bar) ==
    LET gap == ~Present(bar.high) \/ ~Present(bar.low)
        or(x, old) == IF Present(x) THEN x ELSE old
        \* after the average range, the smoothed movements, the two indicators and the index
        done(g, adx) ==
            [g EXCEPT !.adx = adx,
                      !.out = <<g.plusDi, g.minusDi, IF gap THEN adx.out ELSE Percent(adx.out)>>]
        indexed(g) == done(g, RmaUpdate(g.adx, IF gap THEN Missing
                                               ELSE DirectionalIndex(g.plusDi, g.minusDi), FALSE))
        divided(g) == [g EXCEPT !.plusDi = or(Over(Percent(g.plus.out), g.atr.out), @),
                                !.minusDi = or(Over(Percent(g.minus.out), g.atr.out), @)]
        moved(g, up, down) ==
            [g EXCEPT !.plus = RmaUpdate(@, Movement(up, down), FALSE),
                      !.minus = RmaUpdate(@, Movement(down, up), FALSE),
                      !.high = bar.high, !.low = bar.low]
        ranged == [h EXCEPT !.atr = AtrUpdate(@, bar)]
    IN  indexed(IF gap THEN ranged
                ELSE divided(moved(ranged, Minus(bar.high, h.high), Minus(h.low, bar.low))))

MfiOf(positive, negative) ==
    IF ~Present(negative) \/ negative = Zero THEN Q(100)
    ELSE Minus(Q(100), Over(Q(100), Plus(Q(1), Over(positive, negative))))
Mfi(period) ==
    [period |-> period, source |-> Missing, positive |-> <<>>, negative |-> <<>>, out |-> Missing]
MfiUpdate(h, x, volume) ==
    LET raw == Times(x, volume)
        flow(active) == IF active THEN raw ELSE Zero
        p == flow(Less(h.source, x))
        n == flow(Less(x, h.source))
        ps == IF Present(p) THEN Pushed(h.positive, p, h.period) ELSE h.positive
        ns == IF Present(n) THEN Pushed(h.negative, n, h.period) ELSE h.negative
        sum(w) == IF Len(w) < h.period THEN Missing ELSE Total(w)
    IN  [h EXCEPT !.source = x, !.positive = ps, !.negative = ns,
                  !.out = MfiOf(sum(ps), sum(ns))]

---------------------------------------------------------------------------
\* Trend followers.

\* sar: stop and reverse.  params is [start, increment, maximum].
Sar(params) ==
    [params |-> params, sar |-> Missing, extreme |-> Missing, acceleration |-> Missing,
     below |-> FALSE, previousClose |-> Missing, highs |-> <<>>, lows |-> <<>>, out |-> Missing]

\* The first bar of a trend after the start, or after a gap.
SarStarted(h, bar) ==
    LET below == Less(h.previousClose, bar.close)
    IN  [h EXCEPT !.below = below, !.acceleration = h.params.start,
                  !.extreme = IF below THEN bar.high ELSE bar.low,
                  !.sar = IF below THEN Last(h.lows) ELSE Last(h.highs)]

\* A later bar: move towards the extreme, then reverse or go on.
SarMoved(h, bar) ==
    LET moved == Plus(h.sar, Times(h.acceleration, Minus(h.extreme, h.sar)))
        faster == Smaller(Plus(h.acceleration, h.params.increment), h.params.maximum)
    IN  IF h.below /\ Less(bar.low, moved)
        THEN [h EXCEPT !.below = FALSE, !.sar = Larger(bar.high, h.extreme),
                       !.extreme = bar.low, !.acceleration = h.params.start]
        ELSE IF ~h.below /\ Less(moved, bar.high)
        THEN [h EXCEPT !.below = TRUE, !.sar = Smaller(bar.low, h.extreme),
                       !.extreme = bar.high, !.acceleration = h.params.start]
        ELSE IF h.below /\ Less(h.extreme, bar.high)
        THEN [h EXCEPT !.sar = moved, !.extreme = bar.high, !.acceleration = faster]
        ELSE IF ~h.below /\ Less(bar.low, h.extreme)
        THEN [h EXCEPT !.sar = moved, !.extreme = bar.low, !.acceleration = faster]
        ELSE [h EXCEPT !.sar = moved]

\* The stop stays outside the last two bars.
SarClamped(h) ==
    [h EXCEPT !.sar = IF h.below THEN FoldLeft(Smaller, @, SelectSeq(h.lows, Present))
                      ELSE FoldLeft(Larger, @, SelectSeq(h.highs, Present))]

SarUpdate(h, bar) ==
    LET gap == \E x \in {bar.high, bar.low, bar.close} : ~Present(x)
        g == IF gap THEN [h EXCEPT !.sar = Missing, !.extreme = Missing, !.acceleration = Missing]
             ELSE IF ~Present(h.sar) /\ Present(h.previousClose) /\ h.highs # <<>> THEN SarStarted(h, bar)
             ELSE IF Present(h.sar) /\ Present(h.extreme) /\ Present(h.acceleration)
                  THEN SarClamped(SarMoved(h, bar))
             ELSE h
    IN  [g EXCEPT !.previousClose = bar.close, !.highs = Pushed(@, bar.high, 2),
                  !.lows = Pushed(@, bar.low, 2), !.out = g.sar]

\* supertrend: the line and its direction (1 down, -1 up).
Supertrend(factor, period) ==
    [factor |-> factor, atr |-> Atr(period, TRUE), previousAtr |-> Missing, previousClose |-> Missing,
     upper |-> Zero, lower |-> Zero, line |-> Zero, index |-> -1, out |-> <<Missing, 1>>]

SupertrendGap(h, bar, atr) ==
    [h EXCEPT !.atr = atr, !.previousAtr = atr.out, !.previousClose = bar.close,
              !.upper = Zero, !.lower = Zero, !.index = @ + 1,
              !.out = <<IF h.index = -1 THEN Zero ELSE Missing, 1>>]

\* A band moves only towards the price, or when the price has crossed it.
Band(moved, previous, closer, crossed) == IF closer \/ crossed THEN moved ELSE previous

SupertrendUpdate(h, bar) ==
    LET directed(upper, lower) ==
            IF h.index = -1 \/ ~Present(h.previousAtr) THEN 1
            ELSE IF h.line = h.upper THEN IF Less(upper, bar.close) THEN -1 ELSE 1
            ELSE IF Less(bar.close, lower) THEN 1 ELSE -1
        drawn(atr, upper, lower, direction) ==
            LET line == IF direction = -1 THEN lower ELSE upper
            IN  [h EXCEPT !.atr = atr, !.previousAtr = atr.out, !.previousClose = bar.close,
                          !.upper = upper, !.lower = lower, !.line = line, !.index = @ + 1,
                          !.out = <<line, direction>>]
        bounded(atr, upper, lower) == drawn(atr, upper, lower, directed(upper, lower))
        banded(atr, upper, lower) ==
            IF ~Present(upper) \/ ~Present(bar.close) THEN SupertrendGap(h, bar, atr)
            ELSE bounded(atr,
                         Band(upper, h.upper, Less(upper, h.upper), Less(h.upper, h.previousClose)),
                         Band(lower, h.lower, Less(h.lower, lower), Less(h.previousClose, h.lower)))
        around(atr, middle, reach) == banded(atr, Plus(middle, reach), Minus(middle, reach))
        ranged(atr) == around(atr, Over(Plus(bar.high, bar.low), Q(2)), Times(h.factor, atr.out))
    IN  ranged(AtrUpdate(h.atr, bar))

\* pivot_point_levels: the levels of a period that begins with an anchor.
NoPeriod == [open |-> Missing, high |-> Missing, low |-> Missing, close |-> Missing]
Extended(period, bar) ==
    [open  |-> period.open,
     high  |-> IF Present(period.high) /\ Present(bar.high) THEN Larger(period.high, bar.high)
               ELSE IF Present(bar.high) THEN bar.high ELSE period.high,
     low   |-> IF Present(period.low) /\ Present(bar.low) THEN Smaller(period.low, bar.low)
               ELSE IF Present(bar.low) THEN bar.low ELSE period.low,
     close |-> IF Present(bar.close) THEN bar.close ELSE period.close]

PivotPointLevels(type, developing) ==
    [type |-> type, developing |-> developing, fixed |-> Kernels!NoLevels,
     period |-> NoPeriod, out |-> Kernels!NoLevels]
PivotPointLevelsUpdate(h, bar, anchor) ==
    LET fixed == IF ~anchor THEN h.fixed
                 ELSE IF Present(h.period.open) THEN Kernels!PivotLevelValues(h.type, h.period, bar.open)
                 ELSE Kernels!NoLevels
        base == IF anchor THEN NoPeriod ELSE h.period
        period == Extended([base EXCEPT !.open = IF Present(@) THEN @ ELSE bar.open], bar)
    IN  [h EXCEPT !.fixed = fixed, !.period = period,
                  !.out = IF h.developing THEN Kernels!PivotLevelValues(h.type, period, bar.open) ELSE fixed]

---------------------------------------------------------------------------
\* _ta_capacity.window_capacity: the items a helper reserves before it exists.
WindowCapacity(kind, p) ==
    CASE kind = "pivot"      -> p.left + p.right + 1
      [] kind = "occurrence" -> p.occurrence + 1
      [] kind = "double"     -> p.period * 2
      [] kind = "change"     -> p.period + 1
      [] kind = "hma"        -> Max({p.period \div 2, 1}) + p.period + Max({ISqrt(p.period), 1})
      [] kind = "fixed"      -> 4
      [] kind = "period"     -> p.period
===============================================================================
