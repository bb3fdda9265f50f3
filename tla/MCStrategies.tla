---------------------------- MODULE MCStrategies ----------------------------
(* What has a batch and an incremental engine, for TLC: the incremental       *)
(* account and the batch replay of a strategy, and the indicators, whose two  *)
(* engines are fed the same bars.  The three share no state, so that a        *)
(* behaviour is about one of them.  Prices of the replay are multiples of 12, *)
(* which keeps the average price of positions of up to four contracts an      *)
(* integer.                                                                   *)
EXTENDS MCIncrementalStrategy, StrategyReplay

VARIABLES
    engine,                                               \* what the behaviour is about
    script, helpers, asked, fed, outs, reserved, largest  \* Indicators

Studies == INSTANCE MCIndicators
Ta == INSTANCE Indicators WITH Scripts <- Studies!MCScripts, RebaseEvery <- 2
taVars == <<script, helpers, asked, fed, outs, reserved, largest>>

-----------------------------------------------------------------------------
(* The configurations, bars and calls of the replay.                       *)

Replayed == [Plain EXCEPT !.capital = 1200, !.pyramiding = 3, !.rate = 1]

Candle(open, high, low, close, first) ==
    [open |-> 12 * open, high |-> 12 * high, low |-> 12 * low, close |-> 12 * close,
     first |-> first]
InTwelves(p) == IF p = NoPrice THEN p ELSE 12 * p

Blank ==
    [type |-> "cancel_all", id |-> idA, from |-> NoId, side |-> "long", qty |-> 1,
     limit |-> NoPrice, stop |-> NoPrice, group |-> NoGroup, oca |-> "none"]
CallAt(command, when) == [command |-> command, when |-> when]
Trading(type, id, side, q) == [Blank EXCEPT !.type = type, !.id = id, !.side = side, !.qty = q]
Priced(command, limit, stop) == [command EXCEPT !.limit = InTwelves(limit), !.stop = InTwelves(stop)]
Grouped(command, oca) == [command EXCEPT !.group = grp, !.oca = oca]
Bracket(from, q, limit, stop) ==
    Priced([Blank EXCEPT !.type = "exit", !.id = idB, !.from = from, !.qty = q], limit, stop)
CloseOf(id, q) == [Blank EXCEPT !.type = "close", !.id = id, !.qty = q]

\* Pending orders of both kinds in cancel and reduce groups, stop-limits,
\* replacements and cancels, with a limit of fills that a new session lifts.
BookCases ==
    {[Replayed EXCEPT !.maxFilled = 1, !.verify = 12],
     [Replayed EXCEPT !.path = "ohlc", !.slip = 12, !.margin = [s \in Side |-> 2000]],
     [Replayed EXCEPT !.path = "olhc", !.maxSize = 2, !.allow = "long"],
     [Replayed EXCEPT !.maxSize = 0, !.maxFilled = 0]}
BookHistories ==
    {<<Candle(10, 11, 9, 10, TRUE), Candle(10, 14, 7, 11, FALSE), Candle(12, 13, 8, 9, TRUE)>>,
     <<Candle(10, 11, 9, 10, TRUE), Candle(11, 12, 10, 12, FALSE), Candle(8, 14, 8, 13, TRUE)>>}
BookCalls ==
    {CallAt(Grouped(Priced(Trading("entry", idA, "long", 2), NoPrice, 12), "reduce"), {1, 2}),
     CallAt(Grouped(Priced(Trading("order", idB, "short", 3), 13, NoPrice), "reduce"), {1}),
     CallAt(Grouped(Priced(Trading("order", idB, "long", 1), 9, 12), "cancel"), {1, 2}),
     CallAt(Grouped(Priced(Trading("entry", idB, "short", 1), NoPrice, 8), "cancel"), {1}),
     CallAt(Trading("order", idA, "long", 1), {1}),
     CallAt(Priced(Trading("entry", idA, "short", 1), 14, NoPrice), {3}),
     CallAt([Blank EXCEPT !.type = "cancel"], {2}),
     CallAt(Blank, {2})}

\* Market entries, closes and brackets, filled at the close of the bar or at
\* once, with limits of loss and drawdown.
CloseCases ==
    {[Replayed EXCEPT !.onClose = TRUE, !.maxLoss = 50],
     [Replayed EXCEPT !.onClose = TRUE, !.pyramiding = 2, !.slip = 12],
     [Replayed EXCEPT !.maxDrawdown = 2, !.mode = "percent", !.pyramiding = 2],
     [Replayed EXCEPT !.maxLoss = 3, !.mode = "percent"]}
CloseHistories ==
    {<<Candle(10, 11, 9, 10, TRUE), Candle(10, 13, 7, 12, FALSE), Candle(12, 13, 8, 9, TRUE),
       Candle(9, 12, 8, 11, FALSE)>>}
CloseCalls ==
    {CallAt(Trading("entry", idA, "long", 1), {1, 2, 3}),
     CallAt(Trading("entry", idB, "long", 2), {1}),
     CallAt(Trading("entry", idB, "short", 1), {2}),
     CallAt(Priced(Trading("entry", idA, "long", 1), NoPrice, 10), {1, 2}),
     CallAt(Trading("order", idB, "short", 2), {3}),
     CallAt(CloseOf(idA, 1), {2, 4}),
     CallAt([Blank EXCEPT !.type = "close_all"], {4}),
     CallAt(Bracket(idA, NoQty, 13, 8), {2, 3, 4}),
     CallAt(Bracket(NoId, 1, NoPrice, 9), {1, 3})}

OfCase(c, ofBook, ofClose) == IF c \in BookCases THEN ofBook ELSE ofClose
BatchCases == BookCases \cup CloseCases
BatchBars == [c \in BatchCases |-> OfCase(c, BookHistories, CloseHistories)]
BatchCalls == [c \in BatchCases |-> OfCase(c, BookCalls, CloseCalls)]
BatchChanges == [c \in BatchCases |->
    OfCase(c, {[c EXCEPT !.pyramiding = 1, !.maxFilled = 2]}, {[c EXCEPT !.onClose = ~@]})]
BatchLength == [c \in BatchCases |-> 3]

-----------------------------------------------------------------------------
(* All three.                                                              *)

FirstConfig == CHOOSE c \in Configs : TRUE
FirstCase == CHOOSE c \in BatchCases : TRUE
NoStudies ==
    /\ script = <<>> /\ helpers = <<>> /\ asked = <<>> /\ fed = <<>> /\ outs = <<>>
    /\ reserved = 0 /\ largest = 0

MCInit ==
    /\ Init
    /\ BatchInit
    /\ engine \in {"incremental", "batch", "indicators"}
    /\ engine # "batch" => /\ case = FirstCase
                          /\ bars = CHOOSE h \in BatchBars[case] : TRUE
    /\ engine # "incremental" => config = FirstConfig
    /\ IF engine = "indicators" THEN Ta!Init ELSE NoStudies
MCNext ==
    \/ engine = "incremental" /\ Next /\ UNCHANGED <<engine, batchVars, taVars>>
    \/ engine = "batch" /\ BatchNext /\ UNCHANGED <<engine, vars, taVars>>
    \/ engine = "indicators" /\ Ta!Next /\ UNCHANGED <<engine, vars, batchVars>>
MCSpec == MCInit /\ [][MCNext]_<<engine, vars, batchVars, taVars>>

-----------------------------------------------------------------------------
(* The properties of the indicators.                                       *)

\* Every step-by-step helper returns, bar by bar, what the batch function gives.
StepEqualsBatch == engine = "indicators" => Ta!StepEqualsBatch

\* A snapshot of the helpers is one that a restore accepts.
OwnWindowsRestore == engine = "indicators" => Ta!OwnWindowsRestore

\* The array kernels compute what each window holds.
KernelsAreExact == engine = "indicators" => Ta!KernelsAreExact

\* The batch-only indicators never look ahead.
BatchNeverLooksAhead == engine = "indicators" => Ta!BatchNeverLooksAhead

-----------------------------------------------------------------------------
(* The replay alone, for the average price of a position that an order     *)
(* reduces.                                                                *)

AverageCases == {Replayed}
AverageHistories ==
    [c \in AverageCases |->
        {<<Candle(10, 10, 10, 10, TRUE), Candle(20, 20, 20, 20, FALSE),
           Candle(30, 30, 30, 30, FALSE)>>}]
AverageCalls ==
    [c \in AverageCases |->
        {CallAt(Trading("entry", idA, "long", 1), {1, 2}),
         CallAt(Trading("order", idB, "short", 1), {3})}]
NoChanges == [c \in AverageCases |-> {}]
TwoCalls == [c \in AverageCases |-> 2]

AverageInit == Init /\ BatchInit /\ engine = "batch" /\ config = FirstConfig /\ NoStudies
AverageSpec ==
    AverageInit /\ [][BatchNext /\ UNCHANGED <<engine, vars, taVars>>]_<<engine, vars, batchVars, taVars>>
=============================================================================
