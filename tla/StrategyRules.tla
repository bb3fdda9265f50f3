--------------------------- MODULE StrategyRules ---------------------------
(***************************************************************************)
(* The rules that the batch replay and the incremental strategy share      *)
(* (strategy/orders.py, risk.py, costs.py, ledger.py): when a bar triggers *)
(* an order and at which price, which entries are admitted and for how     *)
(* much, what a fill costs and when a risk limit is hit.  c is the         *)
(* configuration of the strategy, s a side.                                *)
(*                                                                         *)
(* Prices, quantities and money are integers; commission is per contract,  *)
(* which keeps every share of it exact.                                    *)
(***************************************************************************)
EXTENDS Integers, SequencesExt

CONSTANTS
    Ids,       \* order identifiers
    Groups,    \* OCA names
    NoPrice,   \* limit or stop is None
    NoQty,     \* qty is None
    NoGroup,   \* oca_name is empty
    NoId       \* id or from_entry is empty: any lot

Side == {"long", "short"}
Unlimited == -1   \* None, for a limit that may be 0
Config ==
    [capital: Nat,                        \* _initial_capital
     pyramiding: Nat,                     \* _pyramiding
     onClose: BOOLEAN,                    \* _process_orders_on_close
     allow: Side \cup {"all", "none"},    \* _allow_entry_in
     maxSize: Nat \cup {Unlimited},       \* _max_position_size
     maxFilled: Nat \cup {Unlimited},     \* _max_intraday_filled_orders
     maxLoss: Nat, maxDrawdown: Nat,      \* 0 for None, which never hits either
     mode: {"cash", "percent"},           \* type of both
     margin: [Side -> Nat],               \* _margin_long, _margin_short
     slip: Nat, rate: Nat,                \* slippage, commission per contract
     verify: Nat,                         \* _limit_fill_verification_amount()
     path: {"priority", "ohlc", "olhc"},  \* _intrabar_path
     stopFirst: BOOLEAN]                  \* _same_bar_fill_priority
Bar == [open: Nat, high: Nat, low: Nat, close: Nat, first: BOOLEAN]

Min2(a, b) == IF a <= b THEN a ELSE b
Max2(a, b) == IF a >= b THEN a ELSE b
Size(n) == Max2(n, -n)
Sign(s) == IF s = "long" THEN 1 ELSE -1
Opposite(s) == IF s = "long" THEN "short" ELSE "long"
\* The sums of the first members of a sequence of numbers, and the sum of all.
Sums(s) == LET sum[i \in 0 .. Len(s)] == IF i = 0 THEN 0 ELSE sum[i - 1] + s[i] IN sum
SumOf(s) == Sums(s)[Len(s)]
Total(s, Value(_)) == SumOf([i \in DOMAIN s |-> Value(s[i])])
\* The members of a sequence that are not in gone, in their order.
Omitting(s, gone) ==
    LET kept[i \in 0 .. Len(s)] ==
            IF i = 0 THEN << >>
            ELSE IF s[i] \in gone THEN kept[i - 1] ELSE Append(kept[i - 1], s[i])
    IN  kept[Len(s)]

-----------------------------------------------------------------------------
(* Money and risk.                                                         *)

\* _trade_open_profit and _trade_realized_profit, of q contracts of lot l.
Profit(l, q, price) == Sign(l.side) * (price - l.price) * q

\* _max_drawdown_hit
LossHit(c, equity, top, threshold) ==
    LET drawdown == Max2(top - equity, 0)
    IN  /\ threshold > 0
        /\ IF c.mode = "cash" THEN drawdown >= threshold
           ELSE top > 0 /\ drawdown * 100 >= threshold * top

\* _intraday_filled_orders_hit
FilledHit(c, n) == c.maxFilled # Unlimited /\ n >= c.maxFilled

\* _commission_amount, for cash_per_contract.
Fee(c, q) == c.rate * q
\* _fill_price: slippage is always to the trader's disadvantage.
Slipped(c, price, s) == price + Sign(s) * c.slip

\* _margin_required and _is_exposure_reduction, for a position that becomes next.
MarginCovers(c, previous, next, price, equity) ==
    LET side == IF next > 0 THEN "long" ELSE "short"
        reduction == previous * next > 0 /\ Size(next) <= Size(previous)
    IN  \/ next = 0
        \/ reduction
        \/ Size(next) * price * c.margin[side] <= Max2(equity, 0) * 100

-----------------------------------------------------------------------------
(* Triggers.                                                               *)

\* Does bar v reach the stop or the limit of an order to buy or to sell?
StopHit(s, v, stop) ==
    stop # NoPrice /\ IF s = "long" THEN v.high >= stop ELSE v.low <= stop
LimitHit(c, s, v, limit) ==
    limit # NoPrice /\ IF s = "long" THEN v.low <= limit - c.verify
                       ELSE v.high >= limit + c.verify

\* _pending_fill_price and _exit_fill_price: a bar that opens beyond the
\* trigger fills at its open.
MutantGapIgnored(s, v, stop) == stop
StopPrice(s, v, stop) == IF s = "long" THEN Max2(stop, v.open) ELSE Min2(stop, v.open)
LimitPrice(s, v, limit) == IF s = "long" THEN Min2(limit, v.open) ELSE Max2(limit, v.open)

\* _same_bar_trigger, for a bracket that closes with an order of side s.
StopWins(c, s) ==
    IF c.path = "ohlc" THEN s = "long"
    ELSE IF c.path = "olhc" THEN s = "short"
    ELSE c.stopFirst

\* _exit_trigger
ExitPrice(c, x, s, v) ==
    IF StopHit(s, v, x.stop) /\ (StopWins(c, s) \/ ~LimitHit(c, s, v, x.limit))
    THEN StopPrice(s, v, x.stop)
    ELSE IF LimitHit(c, s, v, x.limit) THEN LimitPrice(s, v, x.limit)
    ELSE NoPrice

\* _stop_limit_trigger: the stop arms the order, after which the limit is
\* looked for on the rest of the path from open to close.
PathOf(c, v) ==
    LET highFirst == \/ c.path = "ohlc"
                     \/ /\ c.path = "priority"
                        /\ Size(v.high - v.open) < Size(v.open - v.low)
    IN  IF highFirst THEN <<v.open, v.high, v.low, v.close>>
        ELSE <<v.open, v.low, v.high, v.close>>
At(p) == [open |-> p, high |-> p, low |-> p, close |-> p]
Arming(o, path) ==
    IF o.armed THEN {1} ELSE {i \in 1 .. 4 : StopHit(o.side, At(path[i]), o.stop)}
LimitOnPath(c, o, path, from, price) ==
    IF LimitHit(c, o.side, At(price), o.limit) THEN price
    ELSE IF \E i \in from + 1 .. 4 : LimitHit(c, o.side, At(path[i]), o.limit) THEN o.limit
    ELSE NoPrice
StopLimit(c, o, path) ==
    LET arming == Arming(o, path)
        from == Min(arming)
    IN  IF arming = {} THEN [armed |-> FALSE, price |-> NoPrice]
        ELSE [armed |-> TRUE,
              price |-> LimitOnPath(c, o, path, from, IF from = 1 THEN path[1] ELSE o.stop)]

\* _pending_trigger
Trigger(c, o, v) ==
    IF o.market THEN [armed |-> FALSE, price |-> o.price]
    ELSE IF o.stop # NoPrice /\ o.limit # NoPrice THEN StopLimit(c, o, PathOf(c, v))
    ELSE [armed |-> FALSE,
          price |-> IF StopHit(o.side, v, o.stop) THEN StopPrice(o.side, v, o.stop)
                    ELSE IF LimitHit(c, o.side, v, o.limit) THEN LimitPrice(o.side, v, o.limit)
                    ELSE NoPrice]

\* An order that is looked at when its callback has ended sees the close only.
AtClose(v) == [v EXCEPT !.open = v.close, !.high = v.close, !.low = v.close]

-----------------------------------------------------------------------------
(* Admission of entries, and how much is filled or closed.                 *)

\* _entry_rejection_reason
DirectionRefused(c, s) == c.allow = "none" \/ c.allow = Opposite(s)
PyramidRefused(c, s, position, count) ==
    Sign(s) * position > 0 /\ count >= c.pyramiding

\* _entry_qty_for_max_position_size
MutantCapsTheOrder(c, s, position, q) ==
    IF c.maxSize = Unlimited THEN q ELSE Min2(q, c.maxSize)
Capped(c, s, position, q) ==
    IF c.maxSize = Unlimited THEN q
    ELSE Max2(Min2(q, c.maxSize - Max2(Sign(s) * position, 0)), 0)

\* _position_after_fill
Opposed(s, position) == Sign(s) * position < 0
PositionAfter(kind, s, q, position) ==
    IF kind = "entry" /\ Opposed(s, position) THEN Sign(s) * q
    ELSE position + Sign(s) * q

\* _requested_exit_qty and _requested_close_qty
Requested(target, q) == IF q = NoQty THEN target ELSE q
=============================================================================
