----------------------- MODULE MCIncrementalStrategy -----------------------
(* Instances of IncrementalStrategy for TLC. *)
EXTENDS IncrementalStrategy

CONSTANTS idA, idB, grp

\* strategy() as it is configured by default, but for a smaller capital.
Plain ==
    [capital |-> 100, pyramiding |-> 0, onClose |-> FALSE, allow |-> "all",
     maxSize |-> Unlimited, maxFilled |-> Unlimited, maxLoss |-> 0, maxDrawdown |-> 0, mode |-> "cash",
     margin |-> [s \in Side |-> 0], slip |-> 0, rate |-> 0, verify |-> 0,
     path |-> "priority", stopFirst |-> TRUE]

FlatBar(p, first) == [open |-> p, high |-> p, low |-> p, close |-> p, first |-> first]
MarketCall(kind, id, side, q) ==
    [kind |-> kind, id |-> id, side |-> side, qty |-> q, limit |-> NoPrice,
     stop |-> NoPrice, group |-> NoGroup, oca |-> "none"]
\* A call with a stop, a limit or both, in the OCA group grp or in none.
PriceCall(kind, id, side, q, limit, stop, oca) ==
    [kind |-> kind, id |-> id, side |-> side, qty |-> q, limit |-> limit,
     stop |-> stop, group |-> IF oca = "none" THEN NoGroup ELSE grp, oca |-> oca]

\* Market entries and orders of both sides, partial closes, costs, caps of
\* the position and the orders, also of 0, a direction that is not allowed, and margin.
LedgerConfigs ==
    {[Plain EXCEPT !.pyramiding = 2, !.slip = 1, !.rate = 1],
     [Plain EXCEPT !.pyramiding = 3, !.maxSize = 2, !.rate = 1],
     [Plain EXCEPT !.pyramiding = 2, !.allow = "long", !.margin = [s \in Side |-> 300]],
     [Plain EXCEPT !.maxSize = 0, !.maxFilled = 0]}
LedgerBars == {FlatBar(10, TRUE), FlatBar(13, FALSE)}
LedgerCalls ==
    {MarketCall("entry", idA, side, q) : side \in Side, q \in {1, 2}}
        \cup {MarketCall("order", idB, side, q) : side \in Side, q \in {1, 2}}
LedgerCloses == [id: {idA, NoId}, qty: {1, NoQty}]

\* A bar that goes nowhere, one that spans the triggers, one that gaps up.
PendingBars ==
    {[open |-> 10, high |-> 10, low |-> 10, close |-> 10, first |-> FALSE],
     [open |-> 10, high |-> 14, low |-> 7, close |-> 11, first |-> FALSE],
     [open |-> 14, high |-> 15, low |-> 13, close |-> 14, first |-> FALSE]}
PendingConfigs ==
    {[Plain EXCEPT !.pyramiding = 1, !.path = path, !.stopFirst = path # "ohlc",
                   !.verify = IF path = "olhc" THEN 2 ELSE 0] :
        path \in {"priority", "ohlc", "olhc"}}
\* Where limits are verified, the limit of the stop-limit order is beyond the bar.
PendingCalls(c) ==
    {PriceCall("entry", idA, "long", 2, NoPrice, 12, "cancel"),
     PriceCall("entry", idB, "short", 1, 13, NoPrice, "cancel"),
     PriceCall("order", idA, "long", 1, 8, NoPrice, "reduce"),
     IF c.verify = 0 THEN PriceCall("order", idB, "long", 2, 9, 12, "reduce")
     ELSE PriceCall("order", idB, "long", 2, 15, 14, "reduce"),
     [MarketCall("entry", idA, "short", 1) EXCEPT !.group = grp, !.oca = "cancel"]}
PendingExits ==
    {[id |-> idA, from |-> NoId, qty |-> NoQty, limit |-> 13, stop |-> 8],
     [id |-> idB, from |-> idA, qty |-> 1, limit |-> NoPrice, stop |-> 9]}

\* Limits that two or three bars can reach: on the loss of a day, on the
\* drawdown, on the orders filled; entries that fill at once or at the close.
RiskConfigs ==
    {[Plain EXCEPT !.pyramiding = 2, !.maxLoss = 4, !.slip = 1],
     [Plain EXCEPT !.pyramiding = 2, !.maxLoss = 5, !.mode = "percent", !.onClose = TRUE],
     [Plain EXCEPT !.pyramiding = 2, !.maxDrawdown = 3, !.maxFilled = 2, !.onClose = TRUE],
     [Plain EXCEPT !.pyramiding = 2, !.maxDrawdown = 3, !.mode = "percent", !.maxFilled = 1]}
RiskBars ==
    {[open |-> 10, high |-> 11, low |-> 9, close |-> 10, first |-> FALSE],
     [open |-> 10, high |-> 13, low |-> 6, close |-> 7, first |-> TRUE],
     [open |-> 9, high |-> 16, low |-> 9, close |-> 15, first |-> FALSE]}
RiskCalls ==
    {MarketCall("entry", idA, "long", 1), MarketCall("order", idB, "short", 2),
     PriceCall("entry", idB, "long", 1, NoPrice, 11, "none"),
     PriceCall("order", idA, "short", 1, 12, NoPrice, "none")}
RiskExits == {[id |-> idA, from |-> idA, qty |-> NoQty, limit |-> 14, stop |-> 5]}
RiskCloses == {[id |-> NoId, qty |-> 1]}

Scenario(c, ledger, pending, risk) ==
    IF c \in LedgerConfigs THEN ledger ELSE IF c \in PendingConfigs THEN pending ELSE risk
MCConfigs == LedgerConfigs \cup PendingConfigs \cup RiskConfigs
MCBars == [c \in MCConfigs |-> Scenario(c, LedgerBars, PendingBars, RiskBars)]
MCSubmissions == [c \in MCConfigs |-> Scenario(c, LedgerCalls, PendingCalls(c), RiskCalls)]
MCCloses == [c \in MCConfigs |-> Scenario(c, LedgerCloses, {}, RiskCloses)]
MCExits == [c \in MCConfigs |-> Scenario(c, {}, PendingExits, RiskExits)]
MCMaxBars == [c \in MCConfigs |-> Scenario(c, 2, 4, 3)]
MCMaxCalls == [c \in MCConfigs |-> Scenario(c, 2, 1, 2)]

\* The instances of the runs that show what the code does otherwise.
ReduceConfigs == {[Plain EXCEPT !.pyramiding = 2]}
LossConfigs == {[Plain EXCEPT !.pyramiding = 2, !.maxLoss = 4]}
ReduceBars == [c \in ReduceConfigs |->
    {[open |-> 10, high |-> 11, low |-> 10, close |-> 11, first |-> FALSE],
     [open |-> 11, high |-> 13, low |-> 11, close |-> 13, first |-> FALSE]}]
ReduceCalls == [c \in ReduceConfigs |->
    {PriceCall("entry", idA, "long", 1, NoPrice, 11, "reduce"),
     PriceCall("entry", idB, "long", 3, NoPrice, 13, "reduce")}]
LossBars == [c \in LossConfigs |->
    {[open |-> 10, high |-> 10, low |-> 10, close |-> 10, first |-> FALSE],
     [open |-> 10, high |-> 13, low |-> 6, close |-> 7, first |-> FALSE]}]
LossCalls == [c \in LossConfigs |->
    {MarketCall("entry", idA, "long", 1),
     PriceCall("entry", idB, "long", 1, NoPrice, 11, "none")}]
DayBars == [c \in LossConfigs |->
    {FlatBar(10, FALSE), FlatBar(15, FALSE), FlatBar(13, FALSE), FlatBar(11, TRUE)}]
DayCalls == [c \in LossConfigs |-> {MarketCall("entry", idA, "long", 1)}]
NothingReduce == [c \in ReduceConfigs |-> {}]
NothingLoss == [c \in LossConfigs |-> {}]
TwoReduce == [c \in ReduceConfigs |-> 2]
ThreeReduce == [c \in ReduceConfigs |-> 3]
OneLoss == [c \in LossConfigs |-> 1]
TwoLoss == [c \in LossConfigs |-> 2]
ThreeLoss == [c \in LossConfigs |-> 3]
FourLoss == [c \in LossConfigs |-> 4]
=============================================================================
