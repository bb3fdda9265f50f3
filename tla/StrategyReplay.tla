--------------------------- MODULE StrategyReplay ---------------------------
(***************************************************************************)
(* The batch strategy (strategy/module.py, orders.py, replay*.py, ledger.py *)
(* and replay_output.py).  A script calls entry, order, close, exit, cancel *)
(* and the settings, each for a set of bars at once.  Every call appends    *)
(* its commands to the list of orders and replays the whole list over all   *)
(* bars: orders are admitted, kept in a book indexed by price, filled,      *)
(* and the lots, the profit and the risk locks follow.                      *)
(*                                                                          *)
(* The orders live on from replay to replay, with what the last replay has  *)
(* written on them.  A replay is one record r that each step takes and      *)
(* returns; an order is known by its place in r.orders, which stands for    *)
(* its _seq.  Comments, reasons, lifecycle events and the columns of the    *)
(* report that repeat others are left out.                                  *)
(***************************************************************************)
EXTENDS StrategyRules

CONSTANTS
    Cases,      \* what may be configured before the first call
    \* For each case:
    Histories,  \* the bars of the chart: sequences of bars
    Calls,      \* calls the script may make
    Changes,    \* configurations that a call of the settings may switch to
    CallLimit   \* bound of the model: calls

Types == {"entry", "order", "close", "close_all", "exit", "cancel", "cancel_all"}
Command ==
    [type: Types, id: Ids \cup {NoId}, from: Ids \cup {NoId}, side: Side,
     qty: Nat \cup {NoQty}, limit: Nat \cup {NoPrice}, stop: Nat \cup {NoPrice},
     group: Groups \cup {NoGroup}, oca: {"none", "cancel", "reduce"}]

\* What the constants must be.
WellFormed ==
    /\ Cases \subseteq Config
    /\ \A c \in Cases :
          /\ Histories[c] \subseteq Seq(Bar)
          /\ \A h \in Histories[c] :
                /\ h # << >>
                /\ \A i \in DOMAIN h : /\ h[i].low <= h[i].open /\ h[i].open <= h[i].high
                                       /\ h[i].low <= h[i].close /\ h[i].close <= h[i].high
                /\ \A k \in Calls[c] : k.when \subseteq DOMAIN h
          /\ \A k \in Calls[c] :
                /\ k.command \in Command
                /\ k.command.type \in {"entry", "order"} => k.command.qty \in Nat
          /\ Changes[c] \subseteq Config
          /\ CallLimit[c] \in Nat

ASSUME ReplayAssumption == WellFormed

VARIABLES
    case,      \* the case of the model
    settings,  \* the settings
    bars,      \* the bars of the context
    replay,    \* the orders, and what the replay has made of them
    at,        \* where the replay is, or Idle between calls
    before,    \* the replay before the call, or NoReplay between calls
    made,      \* calls made
    raised     \* has a call raised that leaves a replay half done?

batchVars == <<case, settings, bars, replay, at, before, made, raised>>

NoTrade == [lot |-> 0]
NoCall == [command |-> [type |-> "cancel_all"], when |-> {}]
NoOrders == << >>

\* ReplayState.create and a new _PendingOrderBook.
NewReplay(c, orders) ==
    [c |-> c,
     orders |-> orders,
     sources |-> Len(orders),  \* those before are scheduled, later ones are new
     active |-> {},            \* _active of the book, and its indexes
     heap |-> {},              \* the four heaps of thresholds
     version |-> [k \in DOMAIN orders |-> 0],
     size |-> 0, avg |-> 0,    \* current_size, current_avg
     lots |-> << >>,           \* open_trades
     won |-> 0, lost |-> 0, fees |-> 0,
     closed |-> 0,             \* len(closed_trades)
     events |-> << >>,         \* open_trade_events, not yet written
     trail |-> << >>,          \* open_trade_events_by_bar
     out |-> << >>,            \* the series, by bar
     drawdownLocked |-> FALSE, dayLocked |-> FALSE, filledLocked |-> FilledHit(c, 0),
     locked |-> FilledHit(c, 0), \* not read before the first bar begins
     peak |-> c.capital, dayPeak |-> c.capital, filled |-> 0,
     visible |-> FALSE,        \* same_bar_visible_fill
     cash |-> 0,               \* history: money paid and received for contracts
     settled |-> 0,            \* history: commission of the closed trades
     grew |-> FALSE,           \* history: did the position grow under a lock?
     missed |-> FALSE]         \* history: was an order hit and not looked at?

-----------------------------------------------------------------------------
(* The book of pending orders.                                             *)

PendingSubmission(o) == o.market \/ o.limit # NoPrice \/ o.stop # NoPrice

\* _oca_key
InGroup(o) == o.group # NoGroup /\ o.oca # "none"
SameGroup(o, p) == InGroup(o) /\ o.group = p.group /\ o.oca = p.oca

\* _push_thresholds: what the order waits for, under a new version.
Thresholds(c, o) ==
    {t \in {[list |-> "longStops", at |-> o.stop],
            [list |-> "longLimits", at |-> o.limit]} : o.side = "long" /\ t.at # NoPrice}
    \cup
    {t \in {[list |-> "shortStops", at |-> o.stop],
            [list |-> "shortLimits", at |-> o.limit]} : o.side = "short" /\ t.at # NoPrice}
Key(c, t) ==
    CASE t.list = "longStops" -> t.at
      [] t.list = "longLimits" -> -(t.at - c.verify)
      [] t.list = "shortStops" -> -t.at
      [] t.list = "shortLimits" -> t.at + c.verify
Pushed(r, k) ==
    LET v == r.version[k] + 1
    IN  [r EXCEPT !.version[k] = v,
                  !.heap = @ \cup {[list |-> t.list, key |-> Key(r.c, t), order |-> k, version |-> v] :
                                       t \in Thresholds(r.c, r.orders[k])}]

\* reindex
Reindexed(r, k) == IF k \in r.active THEN Pushed(r, k) ELSE r

\* remove
Removed(r, k) ==
    IF k \notin r.active THEN r
    ELSE [r EXCEPT !.active = @ \ {k}, !.version[k] = @ + 1]
\* _mark_canceled and remove, of active orders
Canceled(orders, gone) ==
    [k \in DOMAIN orders |->
        IF k \in gone THEN [orders[k] EXCEPT !.canceled = TRUE] ELSE orders[k]]
Outdated(version, gone) ==
    [k \in DOMAIN version |-> IF k \in gone THEN version[k] + 1 ELSE version[k]]
CanceledAll(r, gone) ==
    [r EXCEPT !.orders = Canceled(@, gone), !.active = @ \ gone, !.version = Outdated(@, gone)]

\* add: an order with the same id and type is replaced, and an order() takes
\* the cancel group of its predecessor along.
Added(r, k) ==
    LET o == r.orders[k]
        same == {j \in r.active : r.orders[j].id = o.id /\ r.orders[j].type = o.type}
        grouped(j, p) == /\ o.type = "order" /\ r.orders[j].oca = "cancel"
                         /\ SameGroup(r.orders[j], r.orders[p])
                         /\ ~SameGroup(r.orders[j], o)
        gone == same \cup {p \in r.active : \E j \in same : grouped(j, p)}
        b == CanceledAll(r, gone)
    IN  Pushed([b EXCEPT !.active = @ \cup {k}], k)

\* validate_entry_direction
DirectionDiffers(r, o) ==
    \E j \in r.active : /\ r.orders[j].type = "entry" /\ r.orders[j].id = o.id
                        /\ r.orders[j].side # o.side

\* candidates: what the bar reaches is popped, and counts when it is current.
Reached(v, e) ==
    CASE e.list = "longStops" -> e.key <= v.high
      [] e.list = "longLimits" -> e.key <= -v.low
      [] e.list = "shortStops" -> e.key <= -v.low
      [] e.list = "shortLimits" -> e.key <= v.high
Popped(r, v) == {e \in r.heap : Reached(v, e)}
Candidates(r, v) ==
    {k \in r.active : r.orders[k].market}
        \cup {e.order : e \in {x \in Popped(r, v) :
                                  x.order \in r.active /\ r.version[x.order] = x.version}}

\* entry_admission_state: market entries for the close reserve their slots.
MarketAdmission(r, o) ==
    LET counts == {j \in r.active : /\ r.orders[j].market /\ r.orders[j].type = "entry"
                                    /\ ~(o.market /\ r.orders[j].id = o.id)}
        Reserve(a, j) ==
            LET p == r.orders[j]
            IN  IF a.size = 0 \/ Opposed(p.side, a.size)
                THEN [size |-> Sign(p.side) * p.qty, count |-> 1]
                ELSE [size |-> a.size + Sign(p.side) * p.qty, count |-> a.count + 1]
    IN  FoldLeft(Reserve, [size |-> r.size, count |-> Len(r.lots)],
                 SetToSortSeq(counts, LAMBDA x, y : x < y))

\* cancel_market_entry
MarketEntries(r, o) ==
    {j \in r.active : /\ r.orders[j].id = o.id /\ r.orders[j].market
                      /\ r.orders[j].type = "entry"}

\* apply_oca_after_fill
LessFilled(orders, siblings, q) ==
    [j \in DOMAIN orders |->
        IF j \in siblings THEN [orders[j] EXCEPT !.qty = Max2(@ - q, 0)] ELSE orders[j]]
Reduced(r, siblings, q) ==
    LET b == [r EXCEPT !.orders = LessFilled(@, siblings, q)]
    IN  CanceledAll(b, {j \in siblings : b.orders[j].qty = 0})
OcaSettled(r, k) ==
    LET o == r.orders[k]
        siblings == {j \in r.active \ {k} : SameGroup(o, r.orders[j])}
    IN  IF o.oca = "cancel" THEN CanceledAll(r, siblings)
        ELSE Reduced(r, siblings, o.qty)

-----------------------------------------------------------------------------
(* The ledger.                                                             *)

\* _open_profit, and _strategy_equity at a price.
ReplayEquity(r, price) ==
    r.c.capital + r.won + r.lost - r.fees
        + IF r.size = 0 THEN 0 ELSE r.size * (price - r.avg)

\* _target_entry_id, _target_open_qty
Target(o) ==
    CASE o.type = "exit" -> o.from [] o.type = "close" -> o.id [] OTHER -> NoId
SideOf(size) == IF size > 0 THEN "long" ELSE "short"
LotMatches(l, s, id) == l.side = s /\ (id = NoId \/ l.id = id)
TargetOpenQty(r, id) ==
    IF id = NoId THEN Size(r.size)
    ELSE Total(r.lots, LAMBDA l : IF LotMatches(l, SideOf(r.size), id) THEN l.qty ELSE 0)

\* _record_fill of the lots it closes, first in first out: what is left to close,
\* the lots that stay, the profit, both shares of the commission and the events
\* of the lots.  fee is the commission of an order of n contracts.
LotEvent(l) == [lot |-> l.lot, trade |-> IF l.qty > 0 THEN l ELSE NoTrade]
Remaining(l, q) == [l EXCEPT !.qty = @ - q, !.fee = @ - (l.fee * q) \div l.qty]
LotOffered(x, l, s, id, price, fee, n) ==
    LET taken == IF LotMatches(l, s, id) THEN Min2(l.qty, x.left) ELSE 0
        profit == Profit(l, taken, price)
        kept == Remaining(l, taken)
        share == (fee * taken) \div n
    IN  [left |-> x.left - taken,
         lots |-> IF taken = l.qty THEN x.lots ELSE Append(x.lots, kept),
         won |-> x.won + Max2(profit, 0), lost |-> x.lost + Min2(profit, 0),
         settled |-> x.settled + (l.fee * taken) \div l.qty + share,
         shares |-> x.shares + share,
         closed |-> IF taken > 0 THEN x.closed + 1 ELSE x.closed,
         events |-> IF taken > 0 THEN Append(x.events, LotEvent(kept)) ELSE x.events]
ClosingLots(r, id, q, price, fee, n) ==
    LET closing[i \in 0 .. Len(r.lots)] ==
            IF i = 0 THEN [left |-> q, lots |-> << >>, won |-> r.won, lost |-> r.lost,
                           settled |-> r.settled, shares |-> 0, closed |-> r.closed,
                           events |-> r.events]
            ELSE LotOffered(closing[i - 1], r.lots[i], SideOf(r.size), id, price, fee, n)
    IN  closing
NotedFill(r, events) == IF r.c.onClose THEN events ELSE r.events
LotsClosed(r, x) ==
    [r EXCEPT !.lots = x.lots, !.won = x.won, !.lost = x.lost, !.settled = x.settled,
              !.closed = x.closed, !.events = NotedFill(r, x.events)]
LotOpened(r, l) ==
    [r EXCEPT !.lots = Append(@, l), !.events = NotedFill(r, Append(@, LotEvent(l)))]

\* _apply_commission and _record_fill: order k makes the position next.
PaidFill(r, next, price, fee) == [r EXCEPT !.fees = @ + fee, !.cash = @ - (next - r.size) * price]
ToClose(r, next) ==
    IF r.size * (next - r.size) < 0 THEN Min2(Size(r.size), Size(next - r.size)) ELSE 0
Recorded(r, k, next, price) ==
    LET o == r.orders[k]
        n == Size(next - r.size)
        fee == Fee(r.c, n)
        s == IF next > r.size THEN "long" ELSE "short"
        q == ToClose(r, next)
        x == ClosingLots(r, IF o.fresh THEN NoId ELSE Target(o), q, price, fee, n)[Len(r.lots)]
        left == n - (q - x.left)
        covered == LotsClosed(PaidFill(r, next, price, fee), x)
        lot == [lot |-> k, id |-> o.id, side |-> s, qty |-> left, price |-> price,
                fee |-> fee - x.shares]
    IN  IF n = 0 THEN r
        ELSE IF next # 0 /\ left > 0 /\ (r.size = 0 \/ s = SideOf(next))
        THEN LotOpened(covered, lot)
        ELSE covered

\* _entry_position_after and _order_position_after
Weighted(r, q, price, next) == (Size(r.size) * r.avg + q * price) \div Size(next)
AverageAfter(r, o, q, price, next) ==
    IF next = 0 THEN 0
    ELSE IF r.size * next <= 0 THEN price
    ELSE IF Opposed(o.side, r.size) THEN r.avg
    ELSE Weighted(r, q, price, next)
\* _position_avg_from_open_trades
AverageOfLots(lots) ==
    Total(lots, LAMBDA l : l.qty * l.price) \div Total(lots, LAMBDA l : l.qty)

-----------------------------------------------------------------------------
(* Fills.                                                                  *)

\* A fill of order k that makes the position next at an average price.
Grown(r, next) == r.locked /\ (Size(next) > Size(r.size) \/ next * r.size < 0)
FilledOrder(r, k, next, avg, price) ==
    [Recorded(r, k, next, price) EXCEPT
        !.size = next, !.avg = avg, !.orders[k] = [@ EXCEPT !.active = TRUE, !.shown = price],
        !.grew = @ \/ Grown(r, next)]

\* _intraday_filled_orders_hit after a fill of an entry or order.
CountedFill(r) ==
    LET hit == FilledHit(r.c, r.filled + 1)
    IN  [r EXCEPT !.filled = @ + 1, !.filledLocked = @ \/ hit, !.locked = @ \/ hit]

Rejected(r, k) == [r EXCEPT !.orders[k].rejected = TRUE]

\* The trade of an entry or order of q contracts at bar i.
Trade(r, o, q, price) ==
    LET next == PositionAfter(o.type, o.side, q, r.size)
    IN  [next |-> next, price |-> price, avg |-> AverageAfter(r, o, q, price, next)]
Affordable(r, t, i) ==
    MarginCovers(r.c, r.size, t.next, t.price, ReplayEquity(r, bars[i].close))

\* fill_market_entry and fill_market_order
MarketFill(r, k, i) ==
    LET o == r.orders[k]
        q == IF o.type = "entry" THEN Capped(r.c, o.side, r.size, o.qty) ELSE o.qty
        t == Trade(r, o, q, Slipped(r.c, o.price, o.side))
        refused == /\ o.type = "entry"
                   /\ \/ DirectionRefused(r.c, o.side)
                      \/ PyramidRefused(r.c, o.side, r.size, Len(r.lots))
                      \/ q = 0
    IN  IF refused \/ ~Affordable(r, t, i) THEN Rejected(r, k)
        ELSE CountedFill(FilledOrder([r EXCEPT !.orders[k].qty = q], k, t.next, t.avg, t.price))

\* _prepare_pending_position and _complete_pending_fill: an order that cannot
\* be paid for stays.
MutantFilledStays(r, k, i) ==
    LET o == r.orders[k]
        q == IF o.type = "entry" THEN Capped(r.c, o.side, r.size, o.qty) ELSE o.qty
        t == Trade(r, o, q, Slipped(r.c, o.price, o.side))
    IN  IF o.type = "entry" /\ (DirectionRefused(r.c, o.side) \/ q = 0)
        THEN Removed(Rejected(r, k), k)
        ELSE IF ~Affordable(r, t, i) THEN Reindexed(r, k)
        ELSE OcaSettled(CountedFill(
                 FilledOrder([r EXCEPT !.orders[k].qty = q], k, t.next, t.avg, t.price)), k)
PendingFill(r, k, i) ==
    LET o == r.orders[k]
        q == IF o.type = "entry" THEN Capped(r.c, o.side, r.size, o.qty) ELSE o.qty
        t == Trade(r, o, q, Slipped(r.c, o.price, o.side))
    IN  IF o.type = "entry" /\ (DirectionRefused(r.c, o.side) \/ q = 0)
        THEN Removed(Rejected(r, k), k)
        ELSE IF ~Affordable(r, t, i) THEN Reindexed(r, k)
        ELSE OcaSettled(CountedFill(Removed(
                 FilledOrder([r EXCEPT !.orders[k].qty = q], k, t.next, t.avg, t.price), k)), k)

\* _fill_pending_candidate.  Before the commands of a bar only orders carried
\* from earlier bars fill ("carried"), after them only its own ("own"), unless
\* all do; an order that waits for the close sees the close only.
Seen(r, o, i) == IF r.c.onClose /\ o.submit = i THEN AtClose(bars[i]) ELSE bars[i]
Due(o, i, phase) == phase = "all" \/ (o.submit < i) = (phase = "carried")
MutantForgetsLocked(r, k, i, phase) ==
    LET o == r.orders[k]
        t == Trigger(r.c, o, Seen(r, o, i))
        armed == [r EXCEPT !.orders[k].armed = @ \/ t.armed]
    IN  IF k \notin r.active \/ r.locked THEN r
        ELSE IF ~Due(o, i, phase) THEN Reindexed(r, k)
        ELSE IF t.price = NoPrice THEN Reindexed(armed, k)
        ELSE PendingFill([armed EXCEPT !.orders[k].time = i, !.orders[k].price = t.price], k, i)
CandidateTried(r, k, i, phase) ==
    LET o == r.orders[k]
        t == Trigger(r.c, o, Seen(r, o, i))
        armed == [r EXCEPT !.orders[k].armed = @ \/ t.armed]
    IN  IF k \notin r.active THEN r
        ELSE IF r.locked \/ ~Due(o, i, phase) THEN Reindexed(r, k)
        ELSE IF t.price = NoPrice THEN Reindexed(armed, k)
        ELSE PendingFill([armed EXCEPT !.orders[k].time = i, !.orders[k].price = t.price], k, i)

\* fill_pending_orders.  History: an order the bar triggers is a candidate.
Missed(r, found, i) ==
    \E k \in r.active \ found :
        Trigger(r.c, r.orders[k], Seen(r, r.orders[k], i)).price # NoPrice
ScanBook(r, found, i, phase) ==
    LET scan[k \in 0 .. Len(r.orders)] ==
            IF k = 0 THEN [r EXCEPT !.heap = @ \ Popped(r, bars[i]),
                                    !.missed = @ \/ Missed(r, found, i)]
            ELSE IF k \in found THEN CandidateTried(scan[k - 1], k, i, phase)
            ELSE scan[k - 1]
    IN  scan
ScannedBook(r, i, phase) ==
    IF r.active = {} \/ r.locked THEN r
    ELSE ScanBook(r, Candidates(r, bars[i]), i, phase)[Len(r.orders)]

\* fill_close_order, of a close, an exit or a close_all.
CloseQty(r, o) ==
    LET target == TargetOpenQty(r, Target(o))
    IN  CASE o.type = "close_all" -> Size(r.size)
          [] o.type = "close" -> Min2(Min2(target, Size(r.size)), Requested(target, o.qty))
          [] o.type = "exit" -> Min2(target, Requested(target, o.qty))
CoveredLots(r, k, next, price) ==
    LET b == Recorded(r, k, next, price)
    IN  [b EXCEPT !.size = next, !.avg = IF next = 0 THEN 0 ELSE AverageOfLots(b.lots),
                  !.orders[k] = [@ EXCEPT !.active = TRUE, !.shown = price],
                  !.grew = @ \/ Grown(r, next)]
CloseFill(r, k) ==
    LET o == r.orders[k]
        q == CloseQty(r, o)
        s == Opposite(SideOf(r.size))
    IN  IF r.size = 0 \/ q = 0 THEN r
        ELSE [CoveredLots(r, k, r.size + Sign(s) * q, Slipped(r.c, o.price, s))
                EXCEPT !.visible = @ \/ (o.type = "exit" /\ r.c.onClose /\ ~o.fresh)]

-----------------------------------------------------------------------------
(* Commands.                                                               *)

\* What a call appends to the list of orders for bar i.
OrderOfCommand(c, s, i) ==
    [type |-> s.type, id |-> s.id, from |-> s.from, side |-> s.side,
     want |-> s.qty,          \* _original_qty
     qty |-> s.qty, limit |-> s.limit, stop |-> s.stop, group |-> s.group, oca |-> s.oca,
     market |-> s.type = "entry" /\ c.onClose
                  /\ s.limit = NoPrice /\ s.stop = NoPrice, \* _market_submission
     submit |-> i,            \* _submit_time
     time |-> i,              \* time: where it has filled
     price |-> bars[i].close, \* _base_price: the close, or what it was triggered at
     shown |-> bars[i].close, \* price: what is reported, where it has filled
     fresh |-> FALSE,         \* _fifo_close, _process_on_close_new_exit
     risk |-> FALSE,          \* _risk_liquidation
     active |-> FALSE,        \* _active: has it filled, or canceled something?
     canceled |-> FALSE, rejected |-> FALSE,
     armed |-> FALSE]         \* _stop_limit_activated

\* collect_source_orders and prepare_source_orders: the last replay's traces
\* are wiped off, but for the price at which it triggered the order.
MutantKeepsReduced(o) ==
    [o EXCEPT !.active = FALSE, !.armed = FALSE, !.canceled = FALSE, !.rejected = FALSE,
              !.time = o.submit, !.shown = o.price]
Prepared(o) ==
    IF o.type \in {"entry", "order"}
    THEN [o EXCEPT !.active = FALSE, !.armed = FALSE, !.canceled = FALSE, !.rejected = FALSE,
                   !.time = o.submit, !.shown = o.price, !.qty = o.want]
    ELSE [o EXCEPT !.active = FALSE]
Sources(orders) ==
    LET own[k \in 0 .. Len(orders)] ==
            IF k = 0 THEN << >>
            ELSE IF orders[k].risk THEN own[k - 1]
            ELSE Append(own[k - 1], Prepared(orders[k]))
    IN  own[Len(orders)]

\* dispatch_order, of the types in turn.
EntryDispatched(r, k, i) ==
    LET o == r.orders[k]
        a == MarketAdmission(r, o)
        crowded == PyramidRefused(r.c, o.side, a.size, a.count)
    IN  IF r.locked THEN Rejected(r, k)
        ELSE IF ~PendingSubmission(o) THEN MarketFill(r, k, i)
        ELSE IF DirectionRefused(r.c, o.side) THEN Rejected(r, k)
        ELSE IF crowded /\ o.market THEN Rejected(r, k)
        ELSE IF crowded THEN Rejected(CanceledAll(r, MarketEntries(r, o)), k)
        ELSE Added(r, k)
OrderDispatched(r, k, i) ==
    IF r.locked THEN Rejected(r, k)
    ELSE IF PendingSubmission(r.orders[k]) THEN Added(r, k)
    ELSE MarketFill(r, k, i)
CancelDispatched(r, k) ==
    LET o == r.orders[k]
        gone == {j \in r.active : o.type = "cancel_all" \/ r.orders[j].id = o.id}
    IN  [CanceledAll(r, gone) EXCEPT !.orders[k].active = @ \/ gone # {}]
Dispatched(r, k, i) ==
    LET type == r.orders[k].type
    IN  CASE type = "entry" -> EntryDispatched(r, k, i)
          [] type = "order" -> OrderDispatched(r, k, i)
          [] type \in {"close", "close_all", "exit"} -> CloseFill(r, k)
          [] type \in {"cancel", "cancel_all"} -> CancelDispatched(r, k)

\* materialize_close and materialize_exit: call m, if it sees a position of some
\* size at bar i, makes a command of it.
NewExit(c, m, i) == c.onClose /\ (i = 1 \/ i - 1 \notin m.when)
ExitView(c, m, i) ==
    [bars[i] EXCEPT !.open = IF NewExit(c, m, i) THEN bars[i].close
                             ELSE IF c.onClose THEN bars[i - 1].close
                             ELSE @]
MaterialPrice(c, m, i, size) ==
    IF m.command.type = "close" THEN bars[i].close
    ELSE ExitPrice(c, m.command, Opposite(SideOf(size)), ExitView(c, m, i))
Material(c, m, i, size) ==
    [OrderOfCommand(c, m.command, i) EXCEPT
        !.price = MaterialPrice(c, m, i, size), !.shown = MaterialPrice(c, m, i, size),
        !.fresh = m.command.type = "exit" /\ NewExit(c, m, i)]
Materializes(c, m, i, size) ==
    /\ i \in m.when /\ size # 0 /\ m.command.qty # 0
    /\ MaterialPrice(c, m, i, size) # NoPrice
WithOrder(r, o) == [r EXCEPT !.orders = Append(@, o), !.version = Append(@, 0)]

\* The commands of bar i that have been scheduled; they are dispatched in the
\* order of the calls.
Schedule(r, i) == {k \in 1 .. r.sources : r.orders[k].submit = i}

-----------------------------------------------------------------------------
(* Bars.                                                                   *)

\* start_bar_risk
Started(r, i) ==
    LET day == IF ~bars[i].first THEN r
               ELSE [r EXCEPT !.dayLocked = FALSE, !.filledLocked = FilledHit(r.c, 0), !.filled = 0,
                              !.dayPeak = IF i = 1 THEN r.c.capital ELSE r.out[i - 1].equity]
    IN  [day EXCEPT !.locked = day.drawdownLocked \/ day.dayLocked \/ day.filledLocked]

\* write; lots is history.
Written(r, i) ==
    LET seen == [size |-> r.size, avg |-> r.avg, equity |-> ReplayEquity(r, bars[i].close),
                 closed |-> r.closed, open |-> Len(r.lots), lots |-> r.lots]
        events == IF i \in DOMAIN r.trail THEN r.trail[i] \o r.events ELSE r.events
    IN  [r EXCEPT !.out = Append(SubSeq(@, 1, i - 1), seen),
                  !.trail = Append(SubSeq(@, 1, i - 1), events),
                  !.events = << >>]

\* liquidate_bar_risk and _force_close_for_risk
LiquidationPrice(r, i) == IF r.size > 0 THEN bars[i].low ELSE bars[i].high
ForcedPrice(r, i) == Slipped(r.c, LiquidationPrice(r, i), Opposite(SideOf(r.size)))
RiskLiquidates(r, i, opened) ==
    LET price == IF r.c.onClose /\ opened = 0 THEN bars[i].close ELSE LiquidationPrice(r, i)
    IN  r.size # 0 /\ LossHit(r.c, ReplayEquity(r, price), r.dayPeak, r.c.maxLoss)
ForceClose(r, i) ==
    [OrderOfCommand(r.c, [type |-> "close_all", id |-> NoId, from |-> NoId, side |-> "long",
                   qty |-> Size(r.size), limit |-> NoPrice, stop |-> NoPrice,
                   group |-> NoGroup, oca |-> "none"], i) EXCEPT
        !.active = TRUE, !.risk = TRUE, !.shown = ForcedPrice(r, i)]
Liquidated(r, i, opened) ==
    LET b == [WithOrder(r, ForceClose(r, i)) EXCEPT
                 !.dayLocked = TRUE, !.locked = TRUE, !.visible = TRUE]
        price == ForcedPrice(r, i)
    IN  IF ~RiskLiquidates(r, i, opened) THEN r
        ELSE [Recorded(b, Len(b.orders), 0, price) EXCEPT !.size = 0, !.avg = 0]

\* finish_bar_risk
Finished(r, i) ==
    LET equity == ReplayEquity(r, bars[i].close)
        top == Max2(r.peak, equity)
        dayTop == Max2(r.dayPeak, equity)
        drawdown == r.drawdownLocked \/ LossHit(r.c, equity, top, r.c.maxDrawdown)
        day == r.dayLocked \/ LossHit(r.c, equity, dayTop, r.c.maxLoss)
    IN  [r EXCEPT !.peak = top, !.dayPeak = dayTop,
                  !.drawdownLocked = drawdown, !.dayLocked = day,
                  !.locked = drawdown \/ day \/ r.filledLocked]

-----------------------------------------------------------------------------
(* A replay (replay_strategy_orders), in the steps of each bar.            *)

Idle == [bar |-> 0, phase |-> "idle", todo |-> {}, opened |-> 0, call |-> NoCall]
NoReplay == [orders |-> << >>]
AtBar(i, k) == [bar |-> i, phase |-> "open", todo |-> {}, opened |-> 0, call |-> k]
Running(phase) == at.phase = phase /\ UNCHANGED <<case, bars, made>>

\* Call k replays the list of orders from the first bar, under configuration c.
Replays(c, orders, k) ==
    /\ replay' = NewReplay(c, Sources(orders))
    /\ at' = AtBar(1, k)
    /\ before' = replay
    /\ settings' = c

\* start_bar: with close processing the orders of earlier bars are looked at
\* before the commands.
Open ==
    /\ Running("open")
    /\ replay' = [IF settings.onClose
                  THEN Written(ScannedBook(Started(replay, at.bar), at.bar, "carried"), at.bar)
                  ELSE Started(replay, at.bar) EXCEPT !.visible = FALSE]
    /\ at' = [at EXCEPT !.phase = "commands", !.todo = Schedule(replay, at.bar),
                        !.opened = replay'.size]
    /\ UNCHANGED <<settings, before, raised>>

\* dispatch_order, of the next command of the bar.
Clash(k) == replay.orders[k].type = "entry" /\ DirectionDiffers(replay, replay.orders[k])
Dispatch ==
    /\ Running("commands")
    /\ at.todo # {} /\ ~Clash(Min(at.todo))
    /\ replay' = Dispatched(replay, Min(at.todo), at.bar)
    /\ at' = [at EXCEPT !.todo = @ \ {Min(@)}]
    /\ UNCHANGED <<settings, before, raised>>

\* An entry in another direction than one of the same id, and a change of the
\* settings, are staged on a copy that is dropped when the replay raises.
Staged ==
    \/ before.c # settings
    \/ /\ at.call.command.type = "entry"
       /\ \E o \in ToSet(before.orders) :
             /\ o.type = "entry" /\ o.id = at.call.command.id
             /\ o.side # at.call.command.side
Raise ==
    /\ Running("commands")
    /\ at.todo # {} /\ Clash(Min(at.todo))
    /\ IF Staged THEN replay' = before /\ settings' = before.c /\ UNCHANGED raised
       ELSE raised' = TRUE /\ UNCHANGED <<replay, settings>>
    /\ at' = Idle
    /\ before' = NoReplay

\* materialize_close and materialize_exit.
Materialize ==
    LET k == at.call
        size == IF settings.onClose THEN at.opened ELSE replay.size
    IN  /\ Running("commands")
        /\ at.todo = {}
        /\ IF k.command.type \in {"close", "exit"} /\ Materializes(settings, k, at.bar, size)
           THEN /\ replay' = WithOrder(replay, Material(settings, k, at.bar, size))
                /\ at' = [at EXCEPT !.phase = "made", !.todo = {Len(replay.orders) + 1}]
           ELSE /\ at' = [at EXCEPT !.phase = "fills"]
                /\ UNCHANGED replay
        /\ UNCHANGED <<settings, before, raised>>
DispatchMade ==
    /\ Running("made")
    /\ replay' = CloseFill(replay, Min(at.todo))
    /\ at' = [at EXCEPT !.phase = "fills", !.todo = {}]
    /\ UNCHANGED <<settings, before, raised>>

\* fill_pending_orders, after the commands of the bar.
FillBar ==
    /\ Running("fills")
    /\ replay' = ScannedBook(replay, at.bar, IF settings.onClose THEN "own" ELSE "all")
    /\ at' = [at EXCEPT !.phase = "close"]
    /\ UNCHANGED <<settings, before, raised>>

\* finish_bar, and the next bar.
FinishedBar(r, i) ==
    Finished(IF ~r.c.onClose \/ r.visible THEN Written(r, i) ELSE r, i)
Finish ==
    /\ Running("close")
    /\ replay' = FinishedBar(Liquidated(replay, at.bar, at.opened), at.bar)
    /\ IF at.bar < Len(bars)
       THEN at' = AtBar(at.bar + 1, at.call) /\ UNCHANGED before
       ELSE at' = Idle /\ before' = NoReplay
    /\ UNCHANGED <<settings, raised>>

-----------------------------------------------------------------------------
(* Calls of the script.                                                    *)

\* What entry_when, order_when, cancel, cancel_all and close_all append: an
\* order for each bar.
Appended(c, orders, k) ==
    LET upTo[i \in 0 .. Len(bars)] ==
            IF i = 0 THEN orders
            ELSE IF i \in k.when THEN Append(upTo[i - 1], OrderOfCommand(c, k.command, i))
            ELSE upTo[i - 1]
    IN  upTo[Len(bars)]

Between ==
    /\ at = Idle /\ ~raised
    /\ UNCHANGED <<case, bars, raised>>
Counting == made < CallLimit[case] /\ made' = made + 1

SubmitCommands(k) ==
    /\ Between /\ Counting
    /\ k.command.type \notin {"close", "exit"}
    /\ Replays(settings, Appended(settings, replay.orders, k), k)

\* close_when and exit
Close(k) ==
    /\ Between /\ Counting
    /\ k.command.type \in {"close", "exit"}
    /\ k.command.type = "exit" => k.command.stop # NoPrice \/ k.command.limit # NoPrice
    /\ Replays(settings, replay.orders, k)

\* _update_strategy_settings, once orders have been made.
Configure(c) ==
    /\ Between /\ Counting
    /\ c # settings
    /\ Replays(c, replay.orders, NoCall)

\* Any call whose condition holds for no bar; after the last of the model's calls.
Again ==
    /\ Between /\ made = CallLimit[case]
    /\ made' = made + 1
    /\ Replays(settings, replay.orders, NoCall)

BatchInit ==
    /\ case \in Cases
    /\ settings = case
    /\ bars \in Histories[case]
    /\ replay = NewReplay(case, NoOrders)
    /\ at = AtBar(1, NoCall)
    /\ before = NewReplay(case, NoOrders)
    /\ made = 0
    /\ raised = FALSE

BatchNext ==
    \/ Open \/ Dispatch \/ Raise \/ Materialize \/ DispatchMade \/ FillBar \/ Finish
    \/ \E k \in Calls[case] : SubmitCommands(k) \/ Close(k)
    \/ \E c \in Changes[case] : Configure(c)
    \/ Again

BatchSpec == BatchInit /\ [][BatchNext]_batchVars

-----------------------------------------------------------------------------
(* strategy.opentrades by bar (ledger.py, for close processing): the events *)
(* of the lots are played into an index of the open ones.                   *)

LotIds(events) ==
    LET Note(ids, e) == IF e.trade = NoTrade \/ e.lot \in ToSet(ids) THEN ids
                        ELSE Append(ids, e.lot)
    IN  FoldLeft(Note, << >>, events)

LowBit(n) ==
    LET odd[m \in Nat] == IF m % 2 = 1 THEN 1 ELSE 2 * odd[m \div 2]
    IN  odd[n]
\* _ActiveTradeIndex: a tree of counts over the places of the lots.
NewIndex(ids) == [ids |-> ids, tree |-> [p \in DOMAIN ids |-> 0], trades |-> << >>, active |-> {}]
\* _add
Counts(tree, place, delta) ==
    LET up[p \in Nat] == IF p \in DOMAIN tree THEN {p} \cup up[p + LowBit(p)] ELSE {}
        touched == up[place]
    IN  [p \in DOMAIN tree |-> IF p \in touched THEN tree[p] + delta ELSE tree[p]]
Place(x, lot) == CHOOSE p \in DOMAIN x.ids : x.ids[p] = lot
\* upsert and remove; the trades are kept by lot.
Played(x, e) ==
    LET p == Place(x, e.lot)
        kept == [q \in DOMAIN x.ids |-> IF q = p THEN e.trade
                                        ELSE IF q \in x.active THEN x.trades[q] ELSE NoTrade]
    IN  IF e.trade # NoTrade
        THEN [x EXCEPT !.trades = kept, !.active = @ \cup {p},
                       !.tree = IF p \in x.active THEN @ ELSE Counts(@, p, 1)]
        ELSE [x EXCEPT !.active = @ \ {p},
                       !.tree = IF p \in x.active THEN Counts(@, p, -1) ELSE @]
\* _position_for_rank: steps of falling powers of two down the tree.
MutantRankOffByOne(x, rank) ==
    LET steps == SelectSeq(<<8, 4, 2, 1>>, LAMBDA s : s <= Len(x.ids))
        Step(a, s) == IF a.place + s \in DOMAIN x.tree /\ x.tree[a.place + s] < a.target
                      THEN [place |-> a.place + s, target |-> a.target - x.tree[a.place + s]]
                      ELSE a
    IN  FoldLeft(Step, [place |-> 0, target |-> rank], steps).place + 1
PlaceOfRank(x, rank) ==
    LET steps == SelectSeq(<<8, 4, 2, 1>>, LAMBDA s : s <= Len(x.ids))
        Step(a, s) == IF a.place + s \in DOMAIN x.tree /\ x.tree[a.place + s] < a.target
                      THEN [place |-> a.place + s, target |-> a.target - x.tree[a.place + s]]
                      ELSE a
    IN  FoldLeft(Step, [place |-> 0, target |-> rank + 1], steps).place + 1
\* trade_at, of an index from the first or, if negative, from the last.
TradeAt(x, n) ==
    LET count == Cardinality(x.active)
        rank == IF n < 0 THEN count + n ELSE n
    IN  IF rank \in 0 .. count - 1 THEN x.trades[PlaceOfRank(x, rank)] ELSE NoTrade
\* _trades_by_bar
IndexAt(r, i) ==
    FoldLeft(Played, NewIndex(LotIds(FlattenSeq(r.trail))), FlattenSeq(SubSeq(r.trail, 1, i)))

-----------------------------------------------------------------------------
(* Properties.                                                             *)

Done(o) == {s \in {"active", "canceled", "rejected"} : o[s]}

\* Shapes of the state, with what a replay must leave: an order that has come
\* to at most one end, lots that are not empty and of the side of the position.
BatchTypeOK ==
    /\ case \in Cases /\ settings \in Config /\ bars \in Histories[case]
    /\ made \in 0 .. CallLimit[case] + 1 /\ raised \in BOOLEAN
    /\ at.bar \in 0 .. Len(bars) /\ at.todo \subseteq DOMAIN replay.orders
    /\ \A k \in DOMAIN replay.orders :
          LET o == replay.orders[k]
          IN  /\ o.type \in Types /\ o.submit \in DOMAIN bars /\ o.time \in o.submit .. Len(bars)
              /\ Cardinality(Done(o)) <= 1
              /\ o.type \in {"entry", "order"} => o.qty \in Nat /\ o.qty <= o.want
    /\ replay.active \subseteq {k \in DOMAIN replay.orders : Done(replay.orders[k]) = {}}
    /\ \A l \in ToSet(replay.lots) : l.side = SideOf(replay.size) /\ l.qty > 0 /\ l.fee >= 0
    /\ at = Idle /\ ~raised => Len(replay.out) = Len(bars)

\* What a replay reports, and what it leaves on the orders.
ReplayReport(r) ==
    [series |-> [i \in DOMAIN r.out |->
                    <<r.out[i].size, r.out[i].avg, r.out[i].equity, r.out[i].closed, r.out[i].open>>],
     profit |-> <<r.won, r.lost, r.fees>>, locked |-> r.locked,
     orders |-> [k \in DOMAIN SelectSeq(r.orders, LAMBDA o : ~o.risk) |->
                    [SelectSeq(r.orders, LAMBDA o : ~o.risk)[k] EXCEPT !.shown = NoPrice]]]
\* The prices it reports, and those that it would report if the orders that it
\* has not filled showed where they were triggered.
Prices(r) ==
    LET own == SelectSeq(r.orders, LAMBDA o : ~o.risk) IN [k \in DOMAIN own |-> own[k].shown]
TriggerPrices(r) ==
    LET own == SelectSeq(r.orders, LAMBDA o : ~o.risk)
    IN  [k \in DOMAIN own |->
            IF own[k].type \in {"entry", "order"} /\ ~own[k].active THEN own[k].price
            ELSE own[k].shown]

\* Replaying is repeatable, but for one thing: a call that adds nothing, over
\* orders with everything on them that the replays of earlier calls have written,
\* gives the same account, the same fate of every order and the same prices of
\* what has filled; an order that has not filled shows, from the second replay
\* on, the price at which it was triggered in vain, not that of its submission.
ReplayRepeats ==
    [][at # Idle /\ at' = Idle /\ made > CallLimit[case] =>
          /\ ReplayReport(replay') = ReplayReport(before)
          /\ Prices(replay') = TriggerPrices(before)]_batchVars

\* The book's heaps lose no order: whenever the pending orders are looked at,
\* each one that the bar triggers is among those that are, however often it has
\* been popped, kept back, reduced or armed before.
NoOrderMissed == ~replay.missed

\* Double entry, for a position and its lots that are kept apart: the position
\* is the sum of the lots; the profit booked by lots is the money that went out
\* and came in; the commission charged by order is carried by open and closed
\* trades.
BatchBooksBalance ==
    /\ replay.size = Total(replay.lots, LAMBDA l : Sign(l.side) * l.qty)
    /\ replay.won + replay.lost
         = replay.cash + Total(replay.lots, LAMBDA l : Sign(l.side) * l.qty * l.price)
    /\ replay.fees = replay.settled + Total(replay.lots, LAMBDA l : l.fee)

\* Under a risk lock nothing makes the position larger or turns it, and at most
\* max_intraday_filled_orders orders fill in a session, several in one scan
\* included.
RiskHolds ==
    /\ ~replay.grew
    /\ settings.maxFilled # Unlimited => replay.filled <= settings.maxFilled

\* The replay's own account, all of it.
BatchAccountHolds == BatchTypeOK /\ BatchBooksBalance /\ RiskHolds /\ NoOrderMissed

\* strategy.opentrades by bar shows, for every bar and index, the lot that was
\* open when the series of that bar were written.
OpenTradesByBar ==
    settings.onClose /\ at = Idle /\ ~raised =>
        \A i \in DOMAIN bars :
            LET x == IndexAt(replay, i)
                lots == replay.out[i].lots
            IN  /\ Cardinality(x.active) = Len(lots)
                /\ \A j \in DOMAIN lots : TradeAt(x, j - 1) = lots[j]
                                          /\ TradeAt(x, j - 1 - Len(lots)) = lots[j]

\* docs/api/strategy.md:114: batch partial closures recompute the weighted
\* average of remaining lots rather than carrying the old position average.
AverageOfRemainingLots == replay.size # 0 => replay.avg = AverageOfLots(replay.lots)
=============================================================================
