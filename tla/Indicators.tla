------------------------------ MODULE Indicators ------------------------------
(***************************************************************************)
(* The namespace ctx.ta of an incremental script (incremental/ta.py and    *)
(* _ta_capacity.py).  A script asks for helpers by family and name and     *)
(* feeds each of them one value per bar; a helper is created the first     *)
(* time it is asked for, once its window is reserved, and later requests   *)
(* return it whatever their parameters.  fed records what each helper was  *)
(* given and outs what it returned, so that the batch functions of         *)
(* BatchIndicators can be asked for the same bars.                         *)
(***************************************************************************)
EXTENDS StepIndicators, TLC

CONSTANT Scripts        \* groups of records [asks, inputs, bars, window, total]: the requests a
                        \* script may make, the values and the number of its bars, and the limits
                        \* max_window_size and max_total_window_items

VARIABLES script,       \* the script that runs
          helpers,      \* key -> helper record
          asked,        \* key -> the request that created the helper
          fed, outs,    \* key -> the inputs of its updates, and the values they returned
          reserved,     \* _LimitTracker.total_window_items
          largest       \* _LimitTracker.largest_window_size

vars == <<script, helpers, asked, fed, outs, reserved, largest>>

Batch == INSTANCE BatchIndicators

\* A request [family, name, p]; _helpers is keyed by "family:name".
Key(ask) == <<ask.family, ask.name>>
NoLimit == -1     \* None

---------------------------------------------------------------------------
\* The window a family reserves; the others keep no window.
Reserves(ask) ==
    CASE ask.family \in {"sma", "wma", "vwma", "variance", "stdev", "highestbars", "lowestbars", "alma",
                         "dev", "boll", "highest", "lowest", "cci"} -> WindowCapacity("period", ask.p)
      [] ask.family = "change" -> WindowCapacity("change", ask.p)
      [] ask.family \in {"pivothigh", "pivotlow"} -> WindowCapacity("pivot", ask.p)
      [] ask.family \in {"stoch", "mfi"} -> WindowCapacity("double", ask.p)
      [] ask.family = "hma" -> WindowCapacity("hma", ask.p)
      [] ask.family = "valuewhen" -> WindowCapacity("occurrence", ask.p)
      [] ask.family \in {"swma", "sar"} -> WindowCapacity("fixed", ask.p)
      [] OTHER -> 0

NewHelper(family, p) ==
    CASE family \in {"sma", "variance", "stdev", "boll"} -> Moments(p.period)
      [] family = "ema" -> Ema(p.period)
      [] family = "rma" -> Rma(p.period)
      [] family = "wma" -> Wma(p.period)
      [] family = "vwma" -> Vwma(p.period)
      [] family \in {"change", "alma", "dev", "cci"} -> Window(p.period)
      [] family = "swma" -> Window(4)
      [] family \in {"highest", "highestbars"} -> Extreme(p.period, TRUE)
      [] family \in {"lowest", "lowestbars"} -> Extreme(p.period, FALSE)
      [] family = "pivothigh" -> Pivot(p.left, p.right, TRUE)
      [] family = "pivotlow" -> Pivot(p.left, p.right, FALSE)
      [] family = "tr" -> TrueRange
      [] family = "cum" -> Cum
      [] family = "macd" -> Macd(p.fast, p.slow, p.signal)
      [] family = "rsi" -> Rsi(p.period)
      [] family = "atr" -> Atr(p.period, TRUE)
      [] family = "stoch" -> Stoch(p.period)
      [] family = "hma" -> Hma(p.period)
      [] family = "barssince" -> BarsSince
      [] family = "valuewhen" -> ValueWhen(p.occurrence)
      [] family = "cross" -> CrossHelper(p.direction)
      [] family = "vwap" -> Vwap
      [] family = "dmi" -> Dmi(p.period, p.adxPeriod)
      [] family = "sar" -> Sar(p)
      [] family = "mfi" -> Mfi(p.period)
      [] family = "supertrend" -> Supertrend(p.factor, p.period)
      [] family = "pivot_point_levels" -> PivotPointLevels(p.type, p.developing)

Updated(family, p, h, x) ==
    CASE family = "sma" -> SmaUpdate(h, x)
      [] family = "ema" -> EmaUpdate(h, x)
      [] family = "rma" -> RmaUpdate(h, x, TRUE)
      [] family = "wma" -> WmaUpdate(h, x)
      [] family = "vwma" -> VwmaUpdate(h, x[1], x[2])
      [] family = "variance" -> VarianceUpdate(h, x, p.ddof)
      [] family = "stdev" -> StdevUpdate(h, x)
      [] family = "boll" -> BollUpdate(h, x)
      [] family = "change" -> ChangeUpdate(h, x)
      [] family = "swma" -> SwmaUpdate(h, x)
      [] family = "alma" -> AlmaUpdate(h, x, p.weights)
      [] family = "dev" -> DevUpdate(h, x)
      [] family = "cci" -> CciUpdate(h, x)
      [] family \in {"highest", "lowest"} -> MonotonicUpdate(h, x)
      [] family \in {"highestbars", "lowestbars"} -> ExtremeBarsUpdate(h, x)
      [] family \in {"pivothigh", "pivotlow"} -> PivotUpdate(h, x)
      [] family = "tr" -> TrueRangeUpdate(h, x)
      [] family = "cum" -> CumUpdate(h, x)
      [] family = "macd" -> MacdUpdate(h, x)
      [] family = "rsi" -> RsiUpdate(h, x)
      [] family = "atr" -> AtrUpdate(h, x)
      [] family = "stoch" -> StochUpdate(h, x[1], x[2], x[3])
      [] family = "hma" -> HmaUpdate(h, x)
      [] family = "barssince" -> BarsSinceUpdate(h, x)
      [] family = "valuewhen" -> ValueWhenUpdate(h, x[1], x[2])
      [] family = "cross" -> CrossUpdate(h, x[1], x[2])
      [] family = "vwap" -> VwapUpdate(h, x[1], x[2], x[3])
      [] family = "dmi" -> DmiUpdate(h, x)
      [] family = "sar" -> SarUpdate(h, x)
      [] family = "mfi" -> MfiUpdate(h, x[1], x[2])
      [] family = "supertrend" -> SupertrendUpdate(h, x)
      [] family = "pivot_point_levels" -> PivotPointLevelsUpdate(h, x[1], x[2])

---------------------------------------------------------------------------
Init ==
    /\ \E group \in DOMAIN Scripts : script \in Scripts[group]
    /\ helpers = <<>> /\ asked = <<>> /\ fed = <<>> /\ outs = <<>>
    /\ reserved = 0
    /\ largest = 0

\* _LimitTracker.reserve_window, where the limits are on.
Fits(size) ==
    /\ script.window # NoLimit => size <= script.window
    /\ script.total # NoLimit => reserved + size <= script.total
LimitsEnabled == script.window # NoLimit \/ script.total # NoLimit

Reserve(size) ==
    /\ size > 0 => Fits(size)
    /\ reserved' = IF LimitsEnabled THEN reserved + size ELSE reserved
    /\ largest' = IF LimitsEnabled THEN Max({largest, size}) ELSE largest

\* The constructor of alma raises on a sigma of zero, which gives no weights.
Constructs(ask) == ask.family = "alma" => ask.p.weights # <<>>

\* A getter that creates its helper.
Create(ask) ==
    LET k == Key(ask)
    IN  /\ ask \in script.asks /\ k \notin DOMAIN helpers
        /\ Reserve(Reserves(ask))
        /\ Constructs(ask)
        /\ helpers' = helpers @@ (k :> NewHelper(ask.family, ask.p))
        /\ asked' = asked @@ (k :> ask)
        /\ fed' = fed @@ (k :> <<>>)
        /\ outs' = outs @@ (k :> <<>>)
        /\ UNCHANGED script

\* A getter whose constructor raises: the window stays reserved for nothing.
CreateRaises(ask) ==
    /\ ask \in script.asks /\ Key(ask) \notin DOMAIN helpers
    /\ Reserve(Reserves(ask))
    /\ ~Constructs(ask)
    /\ UNCHANGED <<script, helpers, asked, fed, outs>>

\* A helper's update; the request that found it may carry other parameters.
Update(ask, x) ==
    LET k == Key(ask)
    IN  /\ ask \in script.asks /\ k \in DOMAIN helpers
        /\ Len(fed[k]) < script.bars
        /\ helpers' = [helpers EXCEPT ![k] = Updated(ask.family, asked[k].p, @, x)]
        /\ fed' = [fed EXCEPT ![k] = Append(@, x)]
        /\ outs' = [outs EXCEPT ![k] = Append(@, helpers'[k].out)]
        /\ UNCHANGED <<script, asked, reserved, largest>>

Next == \/ \E ask \in script.asks : Create(ask)
        \/ \E ask \in script.asks : CreateRaises(ask)
        \/ \E ask \in script.asks : \E x \in script.inputs : Update(ask, x)

Spec == Init /\ [][Next]_vars

---------------------------------------------------------------------------
Column(rows, j) == [i \in DOMAIN rows |-> rows[i][j]]

\* The batch function of a family over the arrays of its inputs.
BatchOf(family, p, rows) ==
    CASE family = "sma" -> Batch!Sma(rows, p.period)
      [] family = "ema" -> Batch!EmaValues(rows, p.period)
      [] family = "rma" -> Batch!RmaValues(rows, p.period, TRUE)
      [] family = "wma" -> Batch!Wma(rows, p.period)
      [] family = "vwma" -> Batch!Vwma(Column(rows, 1), Column(rows, 2), p.period)
      [] family = "variance" -> Batch!Variance(rows, p.period, p.ddof)
      [] family = "stdev" -> Batch!Stdev(rows, p.period)
      [] family = "boll" -> Batch!Bb(rows, p.period)
      [] family = "change" -> Batch!Change(rows, p.period)
      [] family = "swma" -> Batch!Swma(rows)
      [] family = "alma" -> Batch!Alma(rows, p.period, p.weights)
      [] family = "dev" -> Batch!Dev(rows, p.period)
      [] family = "cci" -> Batch!Cci(rows, p.period)
      [] family = "highest" -> Batch!Highest(rows, p.period)
      [] family = "lowest" -> Batch!Lowest(rows, p.period)
      [] family = "highestbars" -> Batch!HighestBars(rows, p.period)
      [] family = "lowestbars" -> Batch!LowestBars(rows, p.period)
      [] family = "pivothigh" -> Batch!PivotHigh(rows, p.left, p.right)
      [] family = "pivotlow" -> Batch!PivotLow(rows, p.left, p.right)
      [] family = "tr" -> Batch!Tr(rows)
      [] family = "cum" -> Batch!Cum(rows)
      [] family = "macd" -> Batch!Macd(rows, p.fast, p.slow, p.signal)
      [] family = "rsi" -> Batch!Rsi(rows, p.period)
      [] family = "atr" -> Batch!AtrValues(rows, p.period)
      [] family = "stoch" -> Batch!Stoch(Column(rows, 1), Column(rows, 2), Column(rows, 3), p.period)
      [] family = "hma" -> Batch!Hma(rows, p.period)
      [] family = "barssince" -> Batch!BarsSince(rows)
      [] family = "valuewhen" -> Batch!ValueWhen(Column(rows, 1), Column(rows, 2), p.occurrence)
      [] family = "cross" -> Batch!Cross(Column(rows, 1), Column(rows, 2), p.direction)
      [] family = "vwap" -> Batch!Vwap(Column(rows, 1), Column(rows, 2), Column(rows, 3))
      [] family = "dmi" -> Batch!DmiComponents(rows, p.period, p.adxPeriod)
      [] family = "sar" -> Batch!Sar(rows, p)
      [] family = "mfi" -> Batch!Mfi(Column(rows, 1), Column(rows, 2), p.period)
      [] family = "supertrend" -> Batch!Supertrend(rows, p.factor, p.period)
      [] family = "pivot_point_levels" ->
             Batch!PivotPointLevels(Column(rows, 1), Column(rows, 2), p.developing, p.type)

\* What ta_reserved_window_sizes accepts of the buffers of a restored helper.
BuffersAccepted(ask, h) ==
    CASE ask.family = "vwma" -> Len(h.products) <= h.period /\ Len(h.weights) <= h.period
      [] ask.family = "mfi" -> Len(h.positive) <= h.period /\ Len(h.negative) <= h.period
      [] ask.family = "stoch" -> /\ Len(h.highest.window) <= h.highest.period
                                 /\ Len(h.lowest.window) <= h.lowest.period
      [] ask.family = "hma" -> \A w \in {h.fast, h.slow, h.result} : Len(w.window) <= w.period
      [] ask.family \in {"pivothigh", "pivotlow"} ->
             /\ Len(h.pending) <= h.right
             /\ Len(h.segments) <= h.right + 1
             /\ FoldLeft(LAMBDA n, s : n + Len(s.queue), 0, h.segments) <= Reserves(ask)
      [] ask.family = "valuewhen" -> Len(h.values) <= Reserves(ask)
      [] ask.family = "sar" -> Len(h.highs) <= 2 /\ Len(h.lows) <= 2
      [] Reserves(ask) > 0 -> Len(h.window) <= Reserves(ask)
      [] OTHER -> TRUE

---------------------------------------------------------------------------
\* Every step-by-step helper returns, bar by bar, what the batch function computes for the
\* whole array of the same bars, through gaps, seeds, rebases of moments and a changed request
\* (ta.py against incremental/ta.py).  Since the arrays grow one bar at a time, this also
\* says that no batch value depends on a later bar.
StepEqualsBatch ==
    \A k \in DOMAIN helpers : outs[k] = BatchOf(k[1], asked[k].p, fed[k])

\* A snapshot of the namespace is one restore accepts (_restore_validation.py): no buffer
\* has outgrown what its family reserved, whatever gaps and ties it was fed, and the tracker
\* counts at least what a restore counts again, and no more unless a constructor raised,
\* within the limits.
OwnWindowsRestore ==
    /\ \A k \in DOMAIN helpers : BuffersAccepted(asked[k], helpers[k])
    /\ LimitsEnabled =>
          LET sizes == [k \in DOMAIN helpers |-> Reserves(asked[k])]
              kept == MapThenSumSet(LAMBDA k : sizes[k], DOMAIN helpers)
          IN  /\ reserved >= kept
              /\ (\A ask \in script.asks : Constructs(ask)) => reserved = kept
              /\ \A k \in DOMAIN helpers : sizes[k] <= largest
              /\ script.total # NoLimit => reserved <= script.total
              /\ script.window # NoLimit => largest <= script.window

\* On every array that a script feeds to cum, to cross and to tr, the array kernels
\* (ta_kernels.py, _weighted_numeric.py, utils.py) compute what each window holds: their
\* cumulated sums, rings, trees, queues and packed integers lose and keep nothing.
KernelsAreExact ==
    \A k \in DOMAIN helpers :
        LET rows == fed[k]
        IN  CASE k[1] = "cum" ->
                     /\ \A period \in 1..3 :
                           /\ Batch!SumsAreExact(rows, period)
                           /\ Batch!MomentsAreExact(rows, period)
                           /\ Batch!WeightsAreExact(rows, period)
                           /\ Batch!RanksAreExact(rows, period)
                           /\ Batch!ExtremesAreExact(rows, period)
                     /\ \A left \in {0, 2}, right \in {0, 1} : Batch!PivotsAreExact(rows, left, right)
                     /\ \A kernel \in {<<1, 2>>, <<-1, 0, 2>>} : Batch!ConvolutionIsExact(rows, kernel)
              [] k[1] = "cross" -> Batch!CorrelationIsExact(Column(rows, 1), Column(rows, 2), 2)
              [] OTHER -> TRUE

\* The batch-only indicators never look ahead: cutting the array leaves the earlier values,
\* and the bounded ones stay in their range.
BatchNeverLooksAhead ==
    \A k \in DOMAIN helpers :
        LET rows == fed[k]
        IN  CASE rows = <<>> -> TRUE
              [] rows # <<>> /\ k[1] = "cum" -> \A period \in {1, 2} : Batch!ScalarsLookBack(rows, period)
              [] rows # <<>> /\ k[1] = "tr" -> Batch!BarsLookBack(rows, 2)
              [] OTHER -> TRUE
==============================================================================
