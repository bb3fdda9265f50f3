----------------------------- MODULE MCIndicators -----------------------------
(***************************************************************************)
(* Scripts of a few indicators over small alphabets of bars.               *)
(***************************************************************************)
EXTENDS Rationals

NoLimit == -1     \* a limit that is None

Numbers == {Missing, Q(0), Q(1), Q(3)}
Few == {Missing, Q(1), Q(2)}
Conditions == {TRUE, FALSE}
Ohlc(o, h, l, c) == [open |-> Q(o), high |-> Q(h), low |-> Q(l), close |-> Q(c)]
FullBars == {Ohlc(2, 4, 1, 3), Ohlc(3, 5, 2, 2), Ohlc(3, 3, 3, 3), Ohlc(6, 8, 6, 7)}
GapBars == {[Ohlc(2, 4, 1, 3) EXCEPT !.high = Missing], [Ohlc(3, 5, 2, 2) EXCEPT !.close = Missing]}

Of(family, p) == [family |-> family, name |-> "a", p |-> p]
P(n) == [period |-> n]
Single(family, p, inputs, bars) ==
    [asks |-> {Of(family, p)}, inputs |-> inputs, bars |-> bars, window |-> NoLimit, total |-> NoLimit]
AlmaP == [period |-> 3, weights |-> <<Frac(1, 4), Frac(1, 2), Frac(1, 4)>>]
SarP == [start |-> Frac(1, 4), increment |-> Frac(1, 4), maximum |-> Frac(1, 2)]

Scalars ==
    {Single(f, P(n), Numbers, 5) : f \in {"sma", "ema", "rma", "wma", "stdev", "boll", "dev", "cci", "rsi",
                                           "highest", "lowest", "highestbars", "lowestbars"}, n \in {2, 3}}
    \cup {Single(f, P(1), Few, 4) : f \in {"sma", "wma", "dev", "highest", "lowestbars", "stdev", "rsi"}}
    \cup {Single("variance", [period |-> n, ddof |-> d], Numbers, 5) : n \in {1, 3}, d \in {0, 1}}
    \cup {Single("change", P(n), Numbers, 4) : n \in {1, 2}}
    \cup {Single("swma", P(4), Few, 6), Single("alma", AlmaP, Few, 5), Single("cum", P(0), Numbers, 5),
          Single("hma", P(4), Few, 7), Single("hma", P(2), Numbers, 5),
          Single("macd", [fast |-> 1, slow |-> 2, signal |-> 2], Few, 6)}
    \cup {Single(f, [left |-> l, right |-> r], Few, 7) : f \in {"pivothigh", "pivotlow"},
          l \in {0, 1, 2}, r \in {0, 1, 2}}

Pairs ==
    {Single("vwma", P(2), Few \X {Missing, Q(0), Q(2)}, 4), Single("mfi", P(2), Few \X {Missing, Q(2)}, 5),
     Single("stoch", P(2), {<<Q(1), Q(2), Q(1)>>, <<Missing, Q(3), Q(2)>>, <<Q(2), Q(2), Q(2)>>,
                            <<Q(2), Missing, Q(1)>>, <<Q(2), Q(4), Missing>>}, 5)}
    \cup {Single("cross", [direction |-> d], Few \X Few, 4) : d \in {"over", "under", "either"}}

Events ==
    {Single("valuewhen", [occurrence |-> 0], Conditions \X Few, 4),
     Single("valuewhen", [occurrence |-> 1], Conditions \X Few, 5)}

OfBars ==
    {Single("tr", P(0), FullBars \cup GapBars, 4), Single("atr", P(2), FullBars \cup GapBars, 5),
     Single("sar", SarP, FullBars \cup GapBars, 5),
     Single("dmi", [period |-> 2, adxPeriod |-> 2], FullBars, 5),
     Single("supertrend", [factor |-> Q(1), period |-> 2], FullBars, 6)}

Anchored ==
    {Single("pivot_point_levels", [type |-> t, developing |-> d],
            {<<b, c>> : b \in FullBars, c \in Conditions}, 3) :
        t \in {"traditional", "classic", "fibonacci", "dm", "camarilla"}, d \in Conditions}
    \cup {Single("pivot_point_levels", [type |-> "woodie", developing |-> FALSE],   \* never developing
                 {<<b, c>> : b \in FullBars, c \in Conditions}, 3)}

\* Several helpers compete for the windows; one is asked for twice.
Limited ==
    {[asks |-> {Of("sma", P(3)), Of("sma", P(2)), Of("hma", P(2)), Of("ema", P(2)),
                Of("valuewhen", [occurrence |-> 1]), Of("pivothigh", [left |-> 1, right |-> 2])},
      inputs |-> {}, bars |-> 0, window |-> w, total |-> t] : w \in {3, NoLimit}, t \in {6, 9, NoLimit}}
\* A constructor that raises, asked for again and again.
Raising ==
    {[asks |-> {Of("sma", P(3)), Of("ema", P(2)), Of("alma", [AlmaP EXCEPT !.weights = <<>>])},
      inputs |-> {}, bars |-> 0, window |-> w, total |-> 9] : w \in {2, 3, NoLimit}}
\* A request with another period than the one that created the helper.
Renamed == {[asks |-> {Of("wma", P(2)), Of("wma", P(3))}, inputs |-> Few, bars |-> 3,
             window |-> NoLimit, total |-> NoLimit]}

MCScripts ==
    <<Scalars, Pairs, Events, OfBars, Anchored, Limited, Raising, Renamed,
      {Single("barssince", P(0), Conditions, 6)},
      {Single("vwap", P(0), {Q(1), Q(2), Q(4)} \X {Q(0), Q(2)} \X Conditions, 3)}>>
==============================================================================
