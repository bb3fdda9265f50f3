------------------------ MODULE IncrementalStrategy ------------------------
(***************************************************************************)
(* ctx.strategy of one incremental session (incremental/strategy.py): the  *)
(* script submits, cancels, closes and exits while a bar's callback runs;  *)
(* pending orders fill when a bar begins and when the bar of their         *)
(* submission ends; risk rules lock the account or liquidate it.           *)
(*                                                                         *)
(* The hard part is that every read of the position or the equity may      *)
(* liquidate (_sync_risk_liquidation): a liquidation happens in the middle *)
(* of a fill, of a scan of the pending orders, or of a report.  The books  *)
(* are one record that each operation takes and returns, and Sync stands   *)
(* wherever the code reads.                                                *)
(*                                                                         *)
(* What is only reported (order logs, comments, reasons, profit columns of *)
(* the trades) is left out.                                                *)
(***************************************************************************)
EXTENDS StrategyRules

CONSTANTS
    Configs,       \* what init() may configure, see StrategyRules
    \* For each configuration:
    Bars,          \* bars that may arrive
    Submissions,   \* calls of entry() and order() the script may make
    Closes,        \* calls of close() the script may make
    Exits,         \* calls of exit() the script may make
    MaxBars,       \* bound of the model: bars
    MaxCalls       \* bound of the model: calls in one callback

Submission ==
    [kind: {"entry", "order"}, id: Ids, side: Side, qty: Nat \ {0},
     limit: Nat \cup {NoPrice}, stop: Nat \cup {NoPrice},
     group: Groups \cup {NoGroup}, oca: {"none", "cancel", "reduce"}]

ASSUME ConstantsAssumption ==
    /\ Configs \subseteq Config
    /\ Bars \in [Configs -> SUBSET Bar]
    /\ \A c \in Configs : \A v \in Bars[c] :
          v.low <= v.open /\ v.low <= v.close /\ v.open <= v.high /\ v.close <= v.high
    /\ Submissions \in [Configs -> SUBSET Submission]
    /\ Closes \in [Configs -> SUBSET [id: Ids \cup {NoId}, qty: Nat \cup {NoQty}]]
    /\ Exits \in [Configs -> SUBSET [id: Ids, from: Ids \cup {NoId}, qty: Nat \cup {NoQty},
                                     limit: Nat \cup {NoPrice}, stop: Nat \cup {NoPrice}]]
    /\ MaxBars \in [Configs -> Nat] /\ MaxCalls \in [Configs -> Nat]

VARIABLES
    config,   \* the settings
    bar,      \* _context.current_bar
    now,      \* its time: how many bars have begun
    running,  \* is the callback of the bar running?
    calls,    \* calls the callback has made
    book      \* the books of the account

vars == <<config, bar, now, running, calls, book>>

NewBook(capital) ==
    [pending |-> << >>,      \* _pending_orders
     exits |-> << >>,        \* _pending_exit_orders
     lots |-> << >>,         \* _open_trades
     won |-> 0, lost |-> 0,  \* _grossprofit, _grossloss
     fees |-> 0,             \* _commission
     peak |-> capital,       \* _peak_equity
     dayPeak |-> capital,    \* _intraday_peak_equity
     filled |-> 0,           \* _intraday_filled_orders
     drawdownLocked |-> FALSE, dayLocked |-> FALSE, filledLocked |-> FALSE,
     locked |-> FALSE,       \* _risk_locked
     scanning |-> FALSE,     \* begin_bar or end_bar iterates _pending_orders
     cash |-> 0,             \* history: money paid and received for contracts
     settled |-> 0,          \* history: commission of the closed trades
     fills |-> << >>]        \* history: fills of the current operation

-----------------------------------------------------------------------------
(* Position and equity.                                                    *)

Position(b) == Total(b.lots, LAMBDA l : Sign(l.side) * l.qty)

\* equity, marked at a price.
Equity(b, price) ==
    config.capital + b.won + b.lost - b.fees
        + Total(b.lots, LAMBDA l : Profit(l, l.qty, price))

\* _sync_risk_locked
LockSynced(b) ==
    [b EXCEPT !.locked = b.drawdownLocked \/ b.dayLocked \/ b.filledLocked]

-----------------------------------------------------------------------------
(* Closing lots, first in first out.                                       *)

Matches(l, id) == id = NoId \/ l.id = id
TargetQty(b, id) == Total(b.lots, LAMBDA l : IF Matches(l, id) THEN l.qty ELSE 0)

\* _close_lots, without the read of the position at its end: r is what the
\* lots before l leave to close, keep and book.  The commission fee of an order
\* of total contracts is shared out among what it closes.
LotTried(r, l, id, price, fee, total) ==
    LET taken == IF Matches(l, id) THEN Min2(l.qty, r.left) ELSE 0
        entryFee == (l.fee * taken) \div l.qty
        profit == Profit(l, taken, price)
        kept == [l EXCEPT !.qty = @ - taken, !.fee = @ - entryFee]
    IN  [left |-> r.left - taken,
         lots |-> IF taken = l.qty THEN r.lots ELSE Append(r.lots, kept),
         won |-> r.won + Max2(profit, 0), lost |-> r.lost + Min2(profit, 0),
         settled |-> r.settled + entryFee + (fee * taken) \div total]
Closing(b, id, q, price, fee, total) ==
    LET closing[i \in 0 .. Len(b.lots)] ==
            IF i = 0 THEN [left |-> q, lots |-> << >>, won |-> b.won, lost |-> b.lost,
                           settled |-> b.settled]
            ELSE LotTried(closing[i - 1], b.lots[i], id, price, fee, total)
    IN  closing
Closed(b, id, q, price, fee, total) ==
    LET r == Closing(b, id, q, price, fee, total)[Len(b.lots)]
    IN  [b EXCEPT !.lots = r.lots, !.won = r.won, !.lost = r.lost, !.settled = r.settled]

\* The side that closes the position, and an order of q contracts that does:
\* close(), exit fills and the liquidation.
ClosingSide(b) == IF Position(b) > 0 THEN "short" ELSE "long"
Sold(b, id, q, price) ==
    LET s == ClosingSide(b)
        p == Slipped(config, price, s)
    IN  Closed([b EXCEPT !.fees = @ + Fee(config, q), !.cash = @ - Sign(s) * q * p],
               id, q, p, Fee(config, q), q)

-----------------------------------------------------------------------------
(* _sync_risk_liquidation, which every read of the position or equity runs. *)

\* The worst price of the bar for the position.
RiskPrice(b, v) == IF Position(b) > 0 THEN v.low ELSE v.high
MustLiquidate(b, v) ==
    /\ Position(b) # 0
    /\ LossHit(config, Equity(b, RiskPrice(b, v)), b.dayPeak, config.maxLoss)

\* _cancel_pending of every order: a running scan still holds the list, where
\* the orders are flagged.
AllCanceled(b) ==
    [b EXCEPT !.pending =
        IF b.scanning THEN [i \in DOMAIN @ |-> [@[i] EXCEPT !.canceled = TRUE]]
        ELSE << >>]

MutantSyncAtClose(b, v) ==
    IF Position(b) # 0 /\ LossHit(config, Equity(b, v.close), b.dayPeak, config.maxLoss)
    THEN LockSynced(Sold([AllCanceled(b) EXCEPT !.dayLocked = TRUE, !.exits = << >>],
                         NoId, Size(Position(b)), RiskPrice(b, v)))
    ELSE b
Sync(b, v) ==
    IF MustLiquidate(b, v)
    THEN LockSynced(Sold([AllCanceled(b) EXCEPT !.dayLocked = TRUE, !.exits = << >>],
                         NoId, Size(Position(b)), RiskPrice(b, v)))
    ELSE b

-----------------------------------------------------------------------------
(* Admission of entries and orders.                                        *)

\* _margin_allows_position; b is the book after the reads of position and equity.
MarginAllows(b, v, next, price) ==
    MarginCovers(config, Position(b), next, price, Equity(b, v.close))

-----------------------------------------------------------------------------
(* Fills of entries and orders.                                            *)

\* _apply_oca_after_fill; self is where the filled order stands in pending, or 0.
OcaApplied(b, o, self) ==
    LET sibling(i) == /\ i # self /\ ~b.pending[i].canceled
                      /\ o.group # NoGroup /\ o.oca # "none"
                      /\ b.pending[i].group = o.group /\ b.pending[i].oca = o.oca
        left(i) == IF o.oca = "cancel" THEN b.pending[i].qty
                   ELSE Max2(b.pending[i].qty - o.qty, 0)
    IN  [b EXCEPT !.pending = [i \in DOMAIN @ |->
            IF sibling(i)
            THEN [@[i] EXCEPT !.qty = left(i),
                              !.canceled = o.oca = "cancel" \/ left(i) = 0]
            ELSE @[i]]]

\* The fill is counted, and may lock the account.
MutantLockNotSynced(b) ==
    [b EXCEPT !.filled = @ + 1, !.filledLocked = @ \/ FilledHit(config, b.filled + 1)]
Counted(b) ==
    IF FilledHit(config, b.filled + 1)
    THEN LockSynced([b EXCEPT !.filled = @ + 1, !.filledLocked = TRUE])
    ELSE [b EXCEPT !.filled = @ + 1]

\* How many contracts an entry or order of o trades, closes and opens.
MutantReversalForgetsTheOld(o, position) ==
    LET closing == IF Opposed(o.side, position) THEN Size(position) ELSE 0
    IN  [traded |-> o.qty, closed |-> closing, opened |-> o.qty]
Contracts(o, position) ==
    LET opposed == Opposed(o.side, position)
    IN  IF o.kind = "entry"
        THEN [traded |-> Size(PositionAfter("entry", o.side, o.qty, position) - position),
              closed |-> IF opposed THEN Size(position) ELSE 0,
              opened |-> o.qty]
        ELSE LET closing == IF opposed THEN Min2(Size(position), o.qty) ELSE 0
             IN  [traded |-> o.qty, closed |-> closing, opened |-> o.qty - closing]

\* _fill_entry_order: the order is paid, closes n.closed contracts and opens
\* n.opened, applies its OCA group and is counted.
Paid(b, o, n, price) ==
    [b EXCEPT !.fees = @ + Fee(config, n.traded), !.cash = @ - Sign(o.side) * n.traded * price]
Covered(b, n, v, price) ==
    IF n.closed = 0 THEN b
    ELSE Sync(Closed(b, NoId, n.closed, price, Fee(config, n.traded), n.traded), v)
Opened(b, o, n, next, price) ==
    LET fee == Fee(config, n.traded)
        lot == [id |-> o.id, side |-> IF next > 0 THEN "long" ELSE "short",
                qty |-> n.opened, price |-> price,
                fee |-> Max2(fee - (fee * n.closed) \div n.traded, 0)]
    IN  IF n.opened > 0 /\ next # 0 THEN [b EXCEPT !.lots = Append(@, lot)] ELSE b
\* History: what the fill was.
Noted(b, fill) == [b EXCEPT !.fills = Append(@, [fill EXCEPT !.after = Position(b)])]
Settled(b, o, self) ==
    Counted(IF o.kind = "order" /\ ~o.late THEN b ELSE OcaApplied(b, o, self))
Executed(b, o, v, price, self) ==
    LET position == Position(b)
        n == Contracts(o, position)
        p == Slipped(config, price, o.side)
        fill == [kind |-> o.kind, market |-> ~(o.limit # NoPrice \/ o.stop # NoPrice),
                 both |-> o.limit # NoPrice /\ o.stop # NoPrice,
                 qty |-> o.qty, left |-> o.left, price |-> price,
                 before |-> position, after |-> position, locked |-> b.locked,
                 canceled |-> self # 0 /\ b.pending[self].canceled]
        opened == Opened(Covered(Paid(b, o, n, p), n, v, p), o, n,
                         PositionAfter(o.kind, o.side, o.qty, position), p)
    IN  Settled(Sync(Noted(opened, fill), v), o, self)
Filled(b, o, v, price, self) == Executed(Sync(b, v), o, v, price, self)

\* What _try_fill_pending_order returns: was the order disposed of?
Outcome(done, b, o) == [done |-> done, book |-> b, order |-> o]

\* An order whose trigger was hit at a price, in the book b that was read.
Triggered(b, o, v, price, self) ==
    LET position == Position(b)
        q == IF o.kind = "entry" THEN Capped(config, o.side, position, o.want) ELSE o.qty
        sized == [o EXCEPT !.left = o.qty, !.qty = q]
        next == PositionAfter(o.kind, o.side, q, position)
    IN  IF o.kind = "entry" /\ (DirectionRefused(config, o.side) \/ q = 0)
        THEN Outcome(TRUE, b, o)
        ELSE IF ~MarginAllows(b, v, next, Slipped(config, price, o.side))
        THEN Outcome(FALSE, b, sized)
        ELSE Outcome(TRUE, Filled(b, sized, v, price, self), sized)

\* _try_fill_pending_order, of an order that sees the bar v as seen.
MutantFillsWhenLocked(b, o, v, seen, self) ==
    LET trigger == Trigger(config, o, seen)
        armed == [o EXCEPT !.armed = @ \/ trigger.armed]
    IN  IF o.canceled THEN Outcome(TRUE, b, o)
        ELSE IF trigger.price = NoPrice THEN Outcome(FALSE, b, armed)
        ELSE Triggered(Sync(b, v), armed, v, trigger.price, self)
TryFill(b, o, v, seen, self) ==
    LET trigger == Trigger(config, o, seen)
        armed == [o EXCEPT !.armed = @ \/ trigger.armed]
    IN  IF o.canceled THEN Outcome(TRUE, b, o)
        ELSE IF b.locked THEN Outcome(FALSE, b, o)
        ELSE IF trigger.price = NoPrice THEN Outcome(FALSE, b, armed)
        ELSE Triggered(Sync(b, v), armed, v, trigger.price, self)

-----------------------------------------------------------------------------
(* The scans of begin_bar and end_bar.                                     *)

\* The orders at the places due are tried in turn.  What is not disposed of
\* stays, with the flags that later fills set on it.
Tried(scan, i, r) ==
    IF r.done THEN [scan EXCEPT !.book = r.book]
    ELSE [book |-> [r.book EXCEPT !.pending[i].armed = r.order.armed,
                                  !.pending[i].qty = r.order.qty],
          kept |-> Append(scan.kept, i)]
Rest(scan) ==
    [scan.book EXCEPT !.scanning = FALSE,
                      !.pending = [i \in DOMAIN scan.kept |-> @[scan.kept[i]]]]
Try(scan, i, due, v, seen) ==
    IF i \in due
    THEN Tried(scan, i, TryFill(scan.book, scan.book.pending[i], v, seen, i))
    ELSE [scan EXCEPT !.kept = Append(@, i)]
Scan(b, due, v, seen) ==
    LET scan[i \in 0 .. Len(b.pending)] ==
            IF i = 0 THEN [book |-> [b EXCEPT !.scanning = TRUE], kept |-> << >>]
            ELSE Try(scan[i - 1], i, due, v, seen)
    IN  scan
Scanned(b, due, v, seen) == Rest(Scan(b, due, v, seen)[Len(b.pending)])

\* _try_fill_pending_exit_order
ExitFill(b, sold, q, target, price) ==
    [kind |-> "exit", market |-> FALSE, both |-> FALSE, qty |-> q, left |-> target, price |-> price,
     before |-> Position(b), after |-> Position(sold), locked |-> FALSE, canceled |-> FALSE]
ExitAt(b, x, v, price) ==
    LET target == TargetQty(b, x.from)
        q == Min2(Min2(target, Size(Position(b))), Requested(target, x.qty))
        sold == Sold(b, x.from, q, price)
    IN  IF Position(b) = 0 \/ price = NoPrice \/ q = 0 THEN Outcome(FALSE, b, x)
        ELSE Outcome(TRUE,
                     Sync([sold EXCEPT !.fills =
                             Append(@, ExitFill(b, sold, q, target, price))], v), x)
TryExit(b, x, v) ==
    LET read == Sync(b, v)
    IN  IF b.lots = << >> THEN Outcome(FALSE, b, x)
        ELSE ExitAt(read, x, v, ExitPrice(config, x, ClosingSide(read), v))

\* The exits that did not fill stay, whatever a liquidation dropped meanwhile.
ExitTried(scan, x, r) ==
    [book |-> r.book, kept |-> IF r.done THEN scan.kept ELSE Append(scan.kept, x)]
ExitsKept(scan) == [scan.book EXCEPT !.exits = scan.kept]
ExitScan(b, v) ==
    LET scan[i \in 0 .. Len(b.exits)] ==
            IF i = 0 THEN [book |-> b, kept |-> << >>]
            ELSE ExitTried(scan[i - 1], b.exits[i], TryExit(scan[i - 1].book, b.exits[i], v))
    IN  scan
ExitsScanned(b, v) == ExitsKept(ExitScan(b, v)[Len(b.exits)])

-----------------------------------------------------------------------------
(* Bars.                                                                   *)

\* The first bar of a session takes the day's locks and counters back.
PeakReset(b, v) == LockSynced([b EXCEPT !.dayPeak = Equity(b, v.close)])
NewDay(b, v) ==
    PeakReset(Sync([b EXCEPT !.dayLocked = FALSE, !.filled = 0,
                              !.filledLocked = FilledHit(config, 0)], v), v)

Fresh == [book EXCEPT !.fills = << >>]

BeginBar(v) ==
    LET day == IF v.first THEN NewDay(Fresh, v) ELSE Fresh
    IN  /\ ~running
        /\ now < MaxBars[config]
        /\ bar' = v
        /\ now' = now + 1
        /\ running' = TRUE
        /\ calls' = 0
        /\ book' = ExitsScanned(Scanned(day, DOMAIN day.pending, v, v), v)
        /\ UNCHANGED config

\* The peaks and locks of a bar that ends with equity.
PeaksRaised(b, equity) ==
    LET top == Max2(b.peak, equity)
        dayTop == Max2(b.dayPeak, equity)
    IN  LockSynced(
          [b EXCEPT !.peak = top, !.dayPeak = dayTop,
                    !.drawdownLocked = @ \/ LossHit(config, equity, top, config.maxDrawdown),
                    !.dayLocked = @ \/ LossHit(config, equity, dayTop, config.maxLoss)])
Evening(b) == PeaksRaised(b, Equity(b, bar.close))
EndBar ==
    LET own == {i \in DOMAIN book.pending : book.pending[i].time = now}
    IN  /\ running
        /\ running' = FALSE
        /\ book' = Evening(Sync(Scanned(Fresh, own, bar, AtClose(bar)), bar))
        /\ UNCHANGED <<config, bar, now, calls>>

\* A result is made of the session: snapshot_result, or the end of seed and
\* on_bar_closed.
Report ==
    /\ ~running
    /\ now > 0
    /\ book' = Sync(Fresh, bar)
    /\ UNCHANGED <<config, bar, now, running, calls>>

-----------------------------------------------------------------------------
(* Calls of the script.                                                    *)

Call(b) ==
    /\ running
    /\ calls < MaxCalls[config]
    /\ calls' = calls + 1
    /\ book' = b
    /\ UNCHANGED <<config, bar, now, running>>

\* The order that entry() or order() makes of its arguments.
OrderOf(s) ==
    [kind |-> s.kind, id |-> s.id, side |-> s.side, qty |-> s.qty,
     want |-> s.qty,      \* _requested_fill_qty
     left |-> s.qty,      \* history: qty when its trigger was hit
     limit |-> s.limit, stop |-> s.stop, group |-> s.group, oca |-> s.oca,
     market |-> s.kind = "entry" /\ config.onClose
                  /\ s.limit = NoPrice /\ s.stop = NoPrice, \* _market_submission
     late |-> FALSE,      \* _pending_submission
     canceled |-> FALSE,  \* _canceled
     armed |-> FALSE,     \* _stop_limit_activated
     price |-> bar.close, \* _base_price
     time |-> now]        \* _submit_time

IsLater(o) == o.limit # NoPrice \/ o.stop # NoPrice \/ o.market

\* _validate_pending_entry_direction: entry() raises.
DirectionChanged(s) ==
    /\ s.kind = "entry"
    /\ \E i \in DOMAIN book.pending :
         LET p == book.pending[i]
         IN  p.kind = "entry" /\ p.id = s.id /\ p.side # s.side

\* _pending_market_admission_state: entries for the close take their slots now.
Admission(b, o) ==
    LET counts(p) == p.market /\ p.kind = "entry" /\ ~(o.market /\ p.id = o.id)
        Reserve(a, p) ==
            IF ~counts(p) THEN a
            ELSE IF a.size = 0 \/ Opposed(p.side, a.size)
            THEN [size |-> Sign(p.side) * p.qty, count |-> 1]
            ELSE [size |-> a.size + Sign(p.side) * p.qty, count |-> a.count + 1]
    IN  FoldLeft(Reserve, [size |-> Position(b), count |-> Len(b.lots)], b.pending)

\* _cancel_pending
Without(b, gone) == [b EXCEPT !.pending = Omitting(@, gone)]

\* An order with a limit or a stop, or an entry that fills at the close.
Later(b, o) ==
    LET a == Admission(b, o)
        crowded == PyramidRefused(config, o.side, a.size, a.count)
        group(p) == <<p.group, p.oca>>
        groups == {group(p) : p \in {q \in ToSet(b.pending) :
                      /\ o.kind = "order" /\ q.kind = "order" /\ q.id = o.id
                      /\ q.group # NoGroup /\ q.oca = "cancel" /\ group(q) # group(o)}}
        own == {p \in ToSet(b.pending) : p.kind = o.kind /\ p.id = o.id}
        rest == Without(b, own \cup {p \in ToSet(b.pending) : group(p) \in groups})
        late == [o EXCEPT !.late = TRUE]
        r == TryFill(rest, late, bar, AtClose(bar), 0)
    IN  IF o.kind = "entry" /\ (DirectionRefused(config, o.side) \/ crowded)
        THEN IF ~DirectionRefused(config, o.side) /\ ~o.market THEN Without(b, {p \in own : p.market}) ELSE b
        ELSE IF o.kind = "entry" THEN [rest EXCEPT !.pending = Append(@, late)]
        ELSE IF r.done THEN r.book
        ELSE [r.book EXCEPT !.pending = Append(@, r.order)]

\* A market order.
Immediate(b, o) ==
    LET position == Position(b)
        refused == DirectionRefused(config, o.side) \/ PyramidRefused(config, o.side, position, Len(b.lots))
        q == IF o.kind = "entry" THEN Capped(config, o.side, position, o.qty) ELSE o.qty
        next == PositionAfter(o.kind, o.side, q, position)
    IN  IF o.kind = "entry" /\ (refused \/ q = 0) THEN b
        ELSE IF ~MarginAllows(b, bar, next, Slipped(config, o.price, o.side)) THEN b
        ELSE Filled(b, [o EXCEPT !.qty = q, !.left = q], bar, o.price, 0)

\* entry() and order()
Submit(s) ==
    LET b == Sync(Fresh, bar)
        o == OrderOf(s)
    IN  /\ ~DirectionChanged(s)
        /\ Call(IF b.locked THEN b ELSE IF IsLater(o) THEN Later(b, o) ELSE Immediate(b, o))
SubmitRaises(s) ==
    /\ DirectionChanged(s)
    /\ Call(Fresh)

\* close(id, qty) and close_all(), of which close(NoId, NoQty) is the same.
CloseCall(id, q) ==
    LET target == TargetQty(book, id)
        b == Sync(Fresh, bar)
        fill == Min2(Min2(target, Size(Position(b))), Requested(target, q))
    IN  Call(IF book.lots = << >> THEN Fresh
             ELSE IF fill = 0 THEN b
             ELSE Sync(Sold(b, id, fill, bar.close), bar))

\* exit(): upsert, then a first look at the bar of the call.
Exit(x) ==
    LET same(y) == y.id = x.id /\ y.from = x.from
        known == \E i \in DOMAIN book.exits : same(book.exits[i])
        upserted == [Fresh EXCEPT !.exits =
                       IF known THEN [i \in DOMAIN @ |-> IF same(@[i]) THEN x ELSE @[i]]
                       ELSE Append(@, x)]
        r == TryExit(upserted, x, bar)
    IN  /\ x.stop # NoPrice \/ x.limit # NoPrice
        /\ Call(IF r.done
                THEN [r.book EXCEPT !.exits = Omitting(@, {y \in ToSet(@) : same(y)})]
                ELSE r.book)

\* cancel(id) and cancel_all(); when something is canceled the log reads the
\* position.
CancelOf(gone) ==
    LET b == Without(Fresh, gone)
    IN  Call(IF b.pending = book.pending THEN b ELSE Sync(b, bar))
Cancel(id) == CancelOf({p \in ToSet(book.pending) : p.id = id})
CancelAll == CancelOf(ToSet(book.pending))

\* The script reads position_size, equity, netprofit or openprofit.
Read == Call(Sync(Fresh, bar))

-----------------------------------------------------------------------------
NoBar == [open |-> 0, high |-> 0, low |-> 0, close |-> 0, first |-> FALSE]

Init ==
    /\ config \in Configs
    /\ bar = NoBar
    /\ now = 0
    /\ running = FALSE
    /\ calls = 0
    /\ book = NewBook(config.capital)

Next ==
    \/ \E v \in Bars[config] : BeginBar(v)
    \/ EndBar
    \/ Report
    \/ \E s \in Submissions[config] : Submit(s) \/ SubmitRaises(s)
    \/ \E c \in Closes[config] : CloseCall(c.id, c.qty)
    \/ \E x \in Exits[config] : Exit(x)
    \/ \E id \in Ids : Cancel(id)
    \/ CancelAll
    \/ Read

Spec == Init /\ [][Next]_vars

-----------------------------------------------------------------------------
(* Properties.                                                             *)

Order ==
    [kind: {"entry", "order"}, id: Ids, side: Side, qty: Nat, want: Nat, left: Nat,
     limit: Nat \cup {NoPrice}, stop: Nat \cup {NoPrice},
     group: Groups \cup {NoGroup}, oca: {"none", "cancel", "reduce"},
     market: BOOLEAN, late: BOOLEAN, canceled: BOOLEAN, armed: BOOLEAN,
     price: Nat, time: Nat]
Fill ==
    [kind: {"entry", "order", "exit"}, market: BOOLEAN, both: BOOLEAN, qty: Nat \ {0}, left: Nat, price: Nat,
     before: Int, after: Int, locked: BOOLEAN, canceled: BOOLEAN]

\* Shapes of the state, with what the account itself must be: lots of one side
\* only (positions are netted) and none that is empty; gains and losses of
\* their own sign; an account that is locked for a reason.
TypeOK ==
    /\ config \in Configs /\ bar \in Bars[config] \cup {NoBar}
    /\ now \in 0 .. MaxBars[config]
    /\ running \in BOOLEAN /\ calls \in 0 .. MaxCalls[config]
    /\ book.pending \in Seq(Order) /\ book.exits \in Seq(Exits[config])
    /\ book.lots \in Seq([id: Ids, side: Side, qty: Nat \ {0}, price: Int, fee: Nat])
    /\ \A l, m \in ToSet(book.lots) : l.side = m.side
    /\ book.won \in Nat /\ -book.lost \in Nat /\ book.fees \in Nat
    /\ book.peak \in Nat /\ book.dayPeak \in Int /\ book.filled \in Nat
    /\ book.locked = (book.drawdownLocked \/ book.dayLocked \/ book.filledLocked)
    /\ ~book.scanning
    /\ book.fills \in Seq(Fill)

\* Double entry: through reversals, partial and FIFO closes, caps, brackets and
\* liquidations, the profit booked lot by lot is the money that went out and
\* came in for the contracts traded, and the commission charged order by order
\* is the commission carried by the open and closed trades.
BooksBalance ==
    /\ book.won + book.lost
         = book.cash + Total(book.lots, LAMBDA l : Sign(l.side) * l.qty * l.price)
    /\ book.fees = book.settled + Total(book.lots, LAMBDA l : l.fee)

\* No entry takes the position past max_position_size, whether it fills at
\* once, reverses, or was pending while other entries filled before it; and at
\* most max_intraday_filled_orders entries and orders fill in a session, several
\* in one bar included, when the limit locks the account.  (A limit of 0 is looked
\* at when a session begins: until a bar says so, one order goes through.)
MayFill(c) == Max2(c.maxFilled, 1)
RiskLimitsHold ==
    /\ config.maxSize # Unlimited =>
          \A f \in ToSet(book.fills) : f.kind = "entry" => Size(f.after) <= config.maxSize
    /\ config.maxFilled # Unlimited =>
          /\ book.filled <= MayFill(config)
          /\ book.filled = MayFill(config) => book.locked

\* Every order with a limit or a stop and every bracket fills at a price its
\* bar has traded at; one with both, whose limit is reached after its stop, at
\* its limit, which is as far from such a price as limits are verified by.  (A
\* market entry for the close that a lock has kept back fills at its own old
\* close when the lock is lifted.)  And an order that
\* cancel() or a filled OCA sibling took back never fills, though it may stay in
\* the list of pending orders for a while.  (A liquidation in the middle of its
\* own fill is LockedNothingFills.)
FillsAreDue ==
    \A f \in ToSet(book.fills) :
        /\ ~f.market /\ ~f.both => bar.low <= f.price /\ f.price <= bar.high
        /\ f.both => bar.low - config.verify <= f.price /\ f.price <= bar.high + config.verify
        /\ f.canceled => f.locked

\* While the account is locked, and until a new session, no operation makes the
\* position larger or turns it: closes and exits may only reduce it.
LockedNeverGrows ==
    [][book.locked /\ (now' = now \/ ~bar'.first) =>
          /\ Size(Position(book')) <= Size(Position(book))
          /\ Position(book') * Position(book) >= 0]_vars

\* After a call that looks at the position, the script never holds a position
\* that has lost more than max_intraday_loss at the worst price of the bar, and
\* a liquidation in a callback leaves nothing that could trade later.
LossLimitEnforced ==
    [][calls' > calls =>
          /\ ~(CancelAll \/ \E id \in Ids : Cancel(id))
                /\ ~(\E s \in Submissions[config] : SubmitRaises(s))
             => ~MustLiquidate(book', bar)
          /\ running /\ ~book.dayLocked /\ book'.dayLocked =>
                /\ book'.lots = << >>
                /\ book'.pending = << >>
                /\ book'.exits = << >>]_vars

\* docs/api/strategy.md:60: in a reduce group, a filled order reduces sibling
\* pending quantities by the filled quantity.
OcaReduces == \A f \in ToSet(book.fills) : f.kind # "exit" => f.qty <= f.left

\* docs/api/strategy.md:332: once locked, future submissions and pending fills
\* are blocked.
LockedNothingFills == \A f \in ToSet(book.fills) : ~f.locked

\* docs/api/strategy.md:339: max_intraday_loss resets at session.isfirstbar. A
\* liquidation before any fill of that bar is for a loss since the last close.
LossLimitResets ==
    [][now' > now /\ bar'.first /\ now > 0 /\ book.pending = << >> /\ book.exits = << >>
          /\ book.lots # << >> /\ book'.lots = << >>
        => LossHit(config, Equity(book, RiskPrice(book, bar')), Equity(book, bar.close),
                   config.maxLoss)]_vars
=============================================================================
