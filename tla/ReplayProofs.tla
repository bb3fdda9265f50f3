---------------------------- MODULE ReplayProofs ----------------------------
(***************************************************************************)
(* The account of the batch replay is right for every configuration, chart, *)
(* script and number of calls: its double entry, its limits, the one end of *)
(* every order, and that no order a bar triggers is missed.                *)
(***************************************************************************)
EXTENDS StrategyReplay, RulesProofs, FiniteSetTheorems

-----------------------------------------------------------------------------
(* The inductive invariant.                                                *)

Lot == [lot: Nat, id: Ids \cup {NoId}, side: Side, qty: Nat \ {0}, price: Int, fee: Nat]
Fields ==
    {"c", "orders", "sources", "active", "heap", "version", "size", "avg", "lots", "won", "lost",
     "fees", "closed", "events", "trail", "out", "drawdownLocked", "dayLocked", "filledLocked",
     "locked", "peak", "dayPeak", "filled", "visible", "cash", "settled", "grew", "missed"}
OrderFields ==
    {"type", "id", "from", "side", "want", "qty", "limit", "stop", "group", "oca", "market",
     "submit", "time", "price", "shown", "fresh", "risk", "active", "canceled", "rejected", "armed"}
IsReplay(r) == DOMAIN r = Fields /\ r = [f \in DOMAIN r |-> r[f]]
IsOrder(o) == DOMAIN o = OrderFields /\ o = [f \in DOMAIN o |-> o[f]]
IsSeries(s) == Len(s) \in Nat /\ DOMAIN s = 1 .. Len(s) /\ s = [i \in DOMAIN s |-> s[i]]

IsTrade(o) == o.type \in {"entry", "order"}
Undecided(o) == ~o.active /\ ~o.canceled /\ ~o.rejected
SoundOrder(o) ==
    /\ IsOrder(o)
    /\ o.type \in Types /\ o.id \in Ids \cup {NoId} /\ o.side \in Side
    /\ o.limit \in Nat \cup {NoPrice} /\ o.stop \in Nat \cup {NoPrice}
    /\ o.price \in Int /\ o.qty \in Nat \cup {NoQty}
    /\ o.submit \in DOMAIN bars /\ o.time \in o.submit .. Len(bars)
    /\ IsTrade(o) => o.want \in Nat /\ o.qty \in Nat /\ o.qty <= o.want
    /\ ~IsTrade(o) => ~o.canceled /\ ~o.rejected
    /\ ~(o.active /\ o.canceled) /\ ~(o.active /\ o.rejected) /\ ~(o.canceled /\ o.rejected)

Balanced(r, size) ==
    /\ size \in Int /\ r.lots \in Seq(Lot) /\ r.won \in Int /\ r.lost \in Int
    /\ r.fees \in Int /\ r.cash \in Int /\ r.settled \in Int
    /\ size = Held(r.lots) /\ OfSide(r.lots, SideOf(size))
    /\ r.won + r.lost = r.cash + Cost(r.lots)
    /\ r.fees = r.settled + OpenFees(r.lots)
Locks(r) ==
    /\ r.filled \in Nat
    /\ r.filledLocked => r.locked
    /\ r.c.maxFilled # Unlimited => /\ r.filled <= r.c.maxFilled
                                    /\ ~r.filledLocked => r.filled < r.c.maxFilled
    /\ ~r.grew
Orders(r, i) ==
    /\ IsSeries(r.orders) /\ \A k \in 1 .. Len(r.orders) : SoundOrder(r.orders[k])
    /\ r.sources \in 0 .. Len(r.orders)
    /\ IsSeries(r.version) /\ Len(r.version) = Len(r.orders)
    /\ \A k \in r.active : /\ k \in 1 .. Len(r.orders)
                           /\ IsTrade(r.orders[k]) /\ Undecided(r.orders[k])
                           /\ r.orders[k].submit <= i
Entry(r, k, t) == [list |-> t.list, key |-> Key(r.c, t), order |-> k, version |-> r.version[k]]
Indexed(r, k) == \A t \in Thresholds(r.c, r.orders[k]) : Entry(r, k, t) \in r.heap
Heap(r, S) == \A k \in r.active \ S : Indexed(r, k)
Sound(r, i, S) ==
    /\ IsReplay(r) /\ r.c \in Config /\ Balanced(r, r.size) /\ Locks(r) /\ Orders(r, i) /\ Heap(r, S)
    /\ ~r.missed /\ IsSeries(r.out)

Whole(r) == Sound(r, Len(bars), {}) /\ Len(r.out) = Len(bars)
Fresh(r, k) == k \in 1 .. Len(r.orders) /\ k \notin r.active /\ Undecided(r.orders[k])
Midway ==
    /\ at = [bar |-> at.bar, phase |-> at.phase, todo |-> at.todo, opened |-> at.opened, call |-> at.call]
    /\ at.bar \in DOMAIN bars
    /\ at.phase \in {"open", "commands", "made", "fills", "close"}
    /\ at.call \in Calls[case] \cup {NoCall}
    /\ Sound(replay, at.bar, {})
    /\ replay.sources = 0 \/ Whole(before)
    /\ Len(replay.out) = IF at.phase # "open" /\ settings.onClose THEN at.bar ELSE at.bar - 1
    /\ \A k \in 1 .. replay.sources :
          replay.orders[k].submit > at.bar \/ (at.phase = "open" /\ replay.orders[k].submit = at.bar)
            => Fresh(replay, k)
    /\ at.phase \in {"open", "fills", "close"} => at.todo = {}
    /\ at.phase = "commands" => at.todo \subseteq Schedule(replay, at.bar)
    /\ at.phase = "made" => /\ at.todo = {Len(replay.orders)}
                            /\ replay.sources < Len(replay.orders)
                            /\ replay.orders[Len(replay.orders)].type \in {"close", "exit"}
    /\ \A k \in at.todo : Fresh(replay, k)
ReplayInv ==
    /\ case \in Cases /\ bars \in Histories[case]
    /\ made \in 0 .. CallLimit[case] + 1 /\ raised \in BOOLEAN
    /\ replay.c = settings
    /\ \/ at = Idle /\ ~raised /\ Whole(replay)
       \/ at = Idle /\ raised /\ Sound(replay, Len(bars), {})
       \/ at # Idle /\ ~raised /\ Midway

-----------------------------------------------------------------------------
(* Lots of the replay.                                                     *)

QtysOf(s, side, id) == [i \in DOMAIN s |-> IF LotMatches(s[i], side, id) THEN s[i].qty ELSE 0]
Owned(s, side, id) == SumOf(QtysOf(s, side, id))

LEMMA LotsAreLots == AreLots(Lot)
BY DEF AreLots, Lot

LEMMA LotValues ==
    ASSUME NEW l \in Lot
    PROVE  /\ l.side \in Side /\ l.qty \in Nat \ {0} /\ l.price \in Int /\ l.fee \in Nat
           /\ Sign(l.side) * l.qty \in Int
           /\ Sign(l.side) * l.qty * l.price \in Int
           /\ \A side, id : (IF LotMatches(l, side, id) THEN l.qty ELSE 0) \in 0 .. l.qty
<1>1. l.qty \in Nat
  BY DEF Lot
<1>2. ASSUME NEW side, NEW id  PROVE (IF LotMatches(l, side, id) THEN l.qty ELSE 0) \in 0 .. l.qty
  BY <1>1
<1> QED  BY <1>1, <1>2, LotsAreLots, LotNumbers

LEMMA LotSequences ==
    ASSUME NEW s \in Seq(Lot)
    PROVE  /\ SizesOf(s) \in Seq(Int) /\ Len(SizesOf(s)) = Len(s)
           /\ CostsOf(s) \in Seq(Int) /\ Len(CostsOf(s)) = Len(s)
           /\ FeesOf(s) \in Seq(Int) /\ Len(FeesOf(s)) = Len(s)
           /\ \A side, id : /\ QtysOf(s, side, id) \in Seq(Int)
                            /\ Len(QtysOf(s, side, id)) = Len(s)
<1>1. DOMAIN s = 1 .. Len(s) /\ Len(s) \in Nat /\ \A i \in 1 .. Len(s) : s[i] \in Lot
  OBVIOUS
<1>2. ASSUME NEW side, NEW id
      PROVE  QtysOf(s, side, id) \in Seq(Int) /\ Len(QtysOf(s, side, id)) = Len(s)
  <2>1. \A i \in 1 .. Len(s) : (IF LotMatches(s[i], side, id) THEN s[i].qty ELSE 0) \in Int
    BY <1>1, LotValues
  <2> QED  BY <1>1, <2>1 DEF QtysOf
<1> QED  BY <1>2, LotsAreLots, SequencesOfLots

LEMMA LotSums ==
    ASSUME NEW s \in Seq(Lot)
    PROVE  Held(s) \in Int /\ Cost(s) \in Int /\ OpenFees(s) \in Int
BY LotsAreLots, SumsOfLots

LEMMA LotAppended ==
    ASSUME NEW s \in Seq(Lot), NEW l \in Lot
    PROVE  /\ Append(s, l) \in Seq(Lot)
           /\ Held(Append(s, l)) = Held(s) + Sign(l.side) * l.qty
           /\ Cost(Append(s, l)) = Cost(s) + Sign(l.side) * l.qty * l.price
           /\ OpenFees(Append(s, l)) = OpenFees(s) + l.fee
BY LotsAreLots, SumsOfAppend

\* Lots of one side: the position is the number of contracts with their sign,
\* no identifier owns more than all, and some are held if there is a lot.
LEMMA SidedSums ==
    ASSUME NEW s \in Seq(Lot), NEW side \in Side, OfSide(s, side), NEW id
    PROVE  /\ Owned(s, side, id) \in Nat
           /\ Owned(s, side, id) <= Owned(s, side, NoId)
           /\ Held(s) = Sign(side) * Owned(s, side, NoId)
           /\ s # << >> => Owned(s, side, NoId) > 0
<1> DEFINE N == Len(s)
           A == Sums(QtysOf(s, side, id))
           B == Sums(QtysOf(s, side, NoId))
           C == Sums(SizesOf(s))
           S == {i \in 0 .. N : /\ A[i] \in Nat /\ B[i] \in Nat /\ A[i] <= B[i]
                                /\ C[i] = Sign(side) * B[i]
                                /\ i > 0 => B[i] > 0}
<1>1. N \in Nat /\ DOMAIN s = 1 .. N /\ \A i \in 1 .. N : s[i] \in Lot
  OBVIOUS
<1>2. A[0] = 0 /\ B[0] = 0 /\ C[0] = 0
  BY SumsType, LotSequences
<1>3. 0 \in S
  BY <1>1, <1>2, SideSign
<1>4. ASSUME NEW i \in 1 .. N, i - 1 \in S  PROVE i \in S
  <2>1. s[i] \in Lot /\ s[i].side = side
    BY <1>1 DEF OfSide
  <2> DEFINE a == QtysOf(s, side, id)[i]
             q == s[i].qty
  <2>2. q \in Nat \ {0}
    BY <2>1, LotValues
  <2>3. QtysOf(s, side, NoId)[i] = q
    BY <1>1, <2>1 DEF QtysOf, LotMatches
  <2>4. a \in 0 .. q
    BY <1>1, <2>2 DEF QtysOf
  <2>5. SizesOf(s)[i] = Sign(side) * q
    BY <1>1, <2>1 DEF SizesOf
  <2>6. A[i] = A[i - 1] + a
    BY LotSequences, SumsType
  <2>7. B[i] = B[i - 1] + q
    BY <2>3, LotSequences, SumsType
  <2>8. C[i] = C[i - 1] + Sign(side) * q
    BY <2>5, LotSequences, SumsType
  <2>9. /\ A[i - 1] \in Nat /\ B[i - 1] \in Nat /\ A[i - 1] <= B[i - 1]
        /\ C[i - 1] = Sign(side) * B[i - 1]
    BY <1>4
  <2> HIDE DEF A, B, C, a, q
  <2>10. Sign(side) * (B[i - 1] + q) = Sign(side) * B[i - 1] + Sign(side) * q
    BY <2>2, <2>9, SideSign
  <2>11. i \in 0 .. N
    OBVIOUS
  <2>12. /\ A[i] \in Nat /\ B[i] \in Nat /\ A[i] <= B[i] /\ B[i] > 0
    BY <2>2, <2>4, <2>6, <2>7, <2>9
  <2> QED  BY <2>7, <2>8, <2>9, <2>10, <2>11, <2>12
<1>5. \A i \in 0 .. N : i \in S
  <2> HIDE DEF S
  <2> QED  BY <1>1, <1>3, <1>4, AllPlaces
<1>6. N \in S
  BY <1>1, <1>5
<1>7. s # << >> => N > 0
  BY <1>1
<1>8. Owned(s, side, id) = A[N] /\ Owned(s, side, NoId) = B[N] /\ Held(s) = C[N]
  BY LotSequences DEF Owned, Held, SumOf
<1> HIDE DEF A, B, C, N
<1> QED  BY <1>6, <1>7, <1>8

-----------------------------------------------------------------------------
(* Closing lots.  What each lot gives is taken from what is left to close; *)
(* the profit, the cost of the open lots and the shares of the commission  *)
(* change by what this much is worth.                                      *)

Tally(x) ==
    /\ x.left \in Nat /\ x.lots \in Seq(Lot) /\ x.won \in Int /\ x.lost \in Int
    /\ x.settled \in Int /\ x.shares \in Int
Worth(x) == (x.won + x.lost) - Cost(x.lots)
Charged(x) == x.settled + OpenFees(x.lots)

IsFee(fee, rate, n) == fee = rate * n

\* C, where a closing over the lots of r starts and how it goes on from lot to lot.
Unfolds(C, r, id, q, price, fee, total) ==
    /\ C[0] = [left |-> q, lots |-> << >>, won |-> r.won, lost |-> r.lost,
               settled |-> r.settled, shares |-> 0, closed |-> r.closed, events |-> r.events]
    /\ \A i \in 1 .. Len(r.lots) :
          C[i] = LotOffered(C[i - 1], r.lots[i], SideOf(r.size), id, price, fee, total)

LEMMA ClosingUnfold ==
    ASSUME NEW r, Len(r.lots) \in Nat, NEW id, NEW q, NEW price, NEW fee, NEW total
    PROVE  Unfolds(ClosingLots(r, id, q, price, fee, total), r, id, q, price, fee, total)
<1> DEFINE N == Len(r.lots)
           start == [left |-> q, lots |-> << >>, won |-> r.won, lost |-> r.lost,
                     settled |-> r.settled, shares |-> 0, closed |-> r.closed,
                          events |-> r.events]
           Step(x, i) == LotOffered(x, r.lots[i], SideOf(r.size), id, price, fee, total)
           Is(f, n) == f = [i \in 0 .. n |-> IF i = 0 THEN start ELSE Step(f[i - 1], i)]
           S == {n \in 0 .. N : \E f : Is(f, n)}
           C == ClosingLots(r, id, q, price, fee, total)
<1>0. N \in Nat
  OBVIOUS
<1>1. C = CHOOSE f : Is(f, N)
  BY DEF ClosingLots
<1> HIDE DEF C, start, Step, N
<1>2. 0 \in S
  <2> DEFINE g == [i \in 0 .. 0 |-> start]
  <2>1. g = [i \in 0 .. 0 |-> IF i = 0 THEN start ELSE Step(g[i - 1], i)]
    OBVIOUS
  <2>2. \E f : Is(f, 0)
    BY <2>1
  <2> QED  BY <1>0, <2>2
<1>3. ASSUME NEW n \in 1 .. N, n - 1 \in S  PROVE n \in S
  <2>1. PICK f : Is(f, n - 1)
    BY <1>3
  <2> DEFINE g == [i \in 0 .. n |-> IF i = n THEN Step(f[n - 1], n) ELSE f[i]]
  <2>2. ASSUME NEW i \in 0 .. n  PROVE g[i] = IF i = 0 THEN start ELSE Step(g[i - 1], i)
    <3>1. CASE i = n
      BY <1>0, <3>1
    <3>2. CASE i # n
      <4>1. i \in 0 .. n - 1 /\ (i # 0 => i - 1 \in 0 .. n /\ i - 1 # n)
        BY <1>0, <3>2
      <4>2. f[i] = IF i = 0 THEN start ELSE Step(f[i - 1], i)
        BY <2>1, <4>1
      <4> QED  BY <3>2, <4>1, <4>2
    <3> QED  BY <3>1, <3>2
  <2>3. g = [i \in 0 .. n |-> IF i = 0 THEN start ELSE Step(g[i - 1], i)]
    BY <2>2
  <2>4. \E h : Is(h, n)
    BY <2>3
  <2> QED  BY <1>0, <2>4
<1>4. N \in S
  <2> HIDE DEF S
  <2>1. \A i \in 0 .. N : i \in S
    BY <1>0, <1>2, <1>3, AllPlaces
  <2> QED  BY <1>0, <2>1
<1>5. Is(C, N)
  BY <1>1, <1>4
<1>6. C[0] = start /\ \A i \in 1 .. N : C[i] = Step(C[i - 1], i)
  BY <1>0, <1>5
<1> QED  BY <1>6 DEF C, start, Step, N, Unfolds

\* What trying lot l makes of tally r.
LotGives(n, r, l, s, id, price, rate) ==
    LET sg == Sign(l.side)
        own == IF LotMatches(l, s, id) THEN l.qty ELSE 0
        d == r.left - n.left
    IN  /\ Tally(n) /\ OfSide(n.lots, l.side)
        /\ d \in 0 .. l.qty
        /\ n.left = Max2(r.left - own, 0)
        /\ Held(n.lots) = Held(r.lots) + sg * l.qty - sg * d
        /\ Worth(n) = Worth(r) - (sg * l.qty) * l.price + sg * (price * d)
        /\ Charged(n) = Charged(r) + l.fee + rate * d
        /\ n.shares = r.shares + rate * d

LEMMA LotTriedIs ==
    ASSUME NEW r, Tally(r), NEW l \in Lot, OfSide(r.lots, l.side), NEW s, NEW id,
           NEW price \in Int, NEW rate \in Nat, NEW total \in Nat \ {0},
           NEW fee, IsFee(fee, rate, total)
    PROVE  LotGives(LotOffered(r, l, s, id, price, fee, total), r, l, s, id, price, rate)
<1> DEFINE n == LotOffered(r, l, s, id, price, fee, total)
           sg == Sign(l.side)
           own == IF LotMatches(l, s, id) THEN l.qty ELSE 0
           t == IF LotMatches(l, s, id) THEN Min2(l.qty, r.left) ELSE 0
           entryFee == (l.fee * t) \div l.qty
           profit == Profit(l, t, price)
           kept == Remaining(l, t)
           share == (fee * t) \div total
<1>1. /\ l.side \in Side /\ l.qty \in Nat \ {0} /\ l.price \in Int /\ l.fee \in Nat
      /\ sg \in {1, -1} /\ sg \in Int
  BY LotValues, SideSign
<1>2. /\ r.left \in Nat /\ r.lots \in Seq(Lot) /\ r.won \in Int /\ r.lost \in Int
      /\ r.settled \in Int /\ r.shares \in Int
  BY DEF Tally
<1>3. t \in 0 .. l.qty /\ t <= r.left /\ r.left - t = Max2(r.left - own, 0)
  BY <1>1, <1>2 DEF Min2, Max2
<1>4. /\ n.left = r.left - t
      /\ n.lots = IF t = l.qty THEN r.lots ELSE Append(r.lots, kept)
      /\ n.won = r.won + Max2(profit, 0) /\ n.lost = r.lost + Min2(profit, 0)
      /\ n.settled = r.settled + entryFee + share /\ n.shares = r.shares + share
  BY DEF LotOffered
<1>5. profit = (sg * (price - l.price)) * t
  BY DEF Profit
<1> HIDE DEF n, own, t, profit
<1>6. share = rate * t
  BY <1>3, ShareExact DEF IsFee
<1>7. entryFee \in 0 .. l.fee /\ (t = l.qty => entryFee = l.fee)
  BY <1>1, <1>3, ShareBound
<1> HIDE DEF entryFee, share, sg
<1>8. rate * t \in Nat /\ profit \in Int /\ price * t \in Int
  BY <1>1, <1>3, <1>5
<1>9. profit - (sg * (l.qty - t)) * l.price = sg * (price * t) - (sg * l.qty) * l.price
  BY <1>1, <1>3, <1>5, Traded
<1>10. /\ Max2(profit, 0) \in Nat /\ Min2(profit, 0) \in Int /\ Min2(profit, 0) <= 0
       /\ Max2(profit, 0) + Min2(profit, 0) = profit
  BY <1>8 DEF Max2, Min2
<1>11. t # l.qty => kept \in Lot /\ kept.side = l.side /\ kept.qty = l.qty - t
                      /\ kept.price = l.price /\ kept.fee = l.fee - entryFee
  <2> SUFFICES ASSUME t # l.qty
               PROVE  kept \in Lot /\ kept.side = l.side /\ kept.qty = l.qty - t
                        /\ kept.price = l.price /\ kept.fee = l.fee - entryFee
    OBVIOUS
  <2>1. l.qty - t \in Nat \ {0} /\ l.fee - entryFee \in Nat
    BY <1>1, <1>3, <1>7
  <2>2. kept = [l EXCEPT !.qty = l.qty - t, !.fee = l.fee - entryFee]
    BY DEF Remaining, entryFee
  <2> HIDE DEF kept
  <2> DEFINE q == l.qty - t
             f == l.fee - entryFee
  <2>3. kept = [l EXCEPT !.qty = q, !.fee = f] /\ q \in Nat \ {0} /\ f \in Nat
    BY <2>1, <2>2
  <2> HIDE DEF q, f
  <2>4. kept \in Lot /\ kept.side = l.side /\ kept.qty = q /\ kept.price = l.price /\ kept.fee = f
    BY <2>3 DEF Lot
  <2> QED  BY <2>4 DEF q, f
<1> HIDE DEF kept
<1>12. n.lots \in Seq(Lot) /\ OfSide(n.lots, l.side)
  BY <1>2, <1>4, <1>11 DEF OfSide
<1>13. Tally(n)
  <2>1. n.left \in Nat /\ n.won \in Int /\ n.lost \in Int /\ n.settled \in Int /\ n.shares \in Int
    <3>1. n.left \in Nat
      BY <1>1, <1>2, <1>3, <1>4
    <3>2. n.won \in Int /\ n.lost \in Int
      <4>1. n.won = r.won + Max2(profit, 0) /\ n.lost = r.lost + Min2(profit, 0)
        BY <1>4
      <4> QED  BY <1>2, <1>10, <4>1
    <3>3. n.settled \in Int
      <4>1. n.settled = r.settled + entryFee + share
        BY <1>4
      <4> QED  BY <1>1, <1>2, <1>6, <1>7, <1>8, <4>1
    <3>4. n.shares \in Int
      <4>1. n.shares = r.shares + share
        BY <1>4
      <4> QED  BY <1>2, <1>6, <1>8, <4>1
    <3> QED  BY <3>1, <3>2, <3>3, <3>4
  <2> QED  BY <2>1, <1>12 DEF Tally
<1>14. /\ Held(r.lots) \in Int /\ Cost(r.lots) \in Int /\ OpenFees(r.lots) \in Int
  BY <1>2, LotSums
<1>15. /\ Held(n.lots) = Held(r.lots) + sg * (l.qty - t)
       /\ Cost(n.lots) = Cost(r.lots) + (sg * (l.qty - t)) * l.price
       /\ OpenFees(n.lots) = OpenFees(r.lots) + (l.fee - entryFee)
  <2>1. CASE t = l.qty
    BY <1>1, <1>4, <1>7, <1>14, <2>1
  <2>2. CASE t # l.qty
    <3>1. n.lots = Append(r.lots, kept)
      BY <1>4, <2>2
    <3>2. /\ Held(n.lots) = Held(r.lots) + Sign(kept.side) * kept.qty
          /\ Cost(n.lots) = Cost(r.lots) + Sign(kept.side) * kept.qty * kept.price
          /\ OpenFees(n.lots) = OpenFees(r.lots) + kept.fee
      BY <1>2, <1>11, <2>2, <3>1, LotAppended
    <3> QED  BY <1>11, <2>2, <3>2 DEF sg
  <2> QED  BY <2>1, <2>2
<1>16. sg * (l.qty - t) = sg * l.qty - sg * t
  BY <1>1, <1>3
<1>17. r.left - n.left = t
  BY <1>2, <1>3, <1>4
<1>18. /\ sg * l.qty \in Int /\ sg * t \in Int /\ (sg * l.qty) * l.price \in Int /\ sg * (price * t) \in Int
       /\ (sg * (l.qty - t)) * l.price \in Int
  BY <1>1, <1>3, <1>8
<1>19. n.won + n.lost = r.won + r.lost + profit
  BY <1>2, <1>4, <1>8, <1>10
<1>20. (n.won + n.lost) - Cost(n.lots)
         = (r.won + r.lost) - Cost(r.lots) - (sg * l.qty) * l.price + sg * (price * t)
  <2> DEFINE x == (sg * (l.qty - t)) * l.price
             y == (sg * l.qty) * l.price
             z == sg * (price * t)
  <2>1. x \in Int /\ y \in Int /\ z \in Int /\ profit - x = z - y
    BY <1>9, <1>18
  <2>2. Cost(n.lots) = Cost(r.lots) + x
    BY <1>15
  <2> HIDE DEF x, y, z
  <2>3. (n.won + n.lost) - Cost(n.lots) = (r.won + r.lost) - Cost(r.lots) - y + z
    <3>1. n.won \in Int /\ n.lost \in Int /\ Cost(n.lots) \in Int
      BY <1>12, <1>13, LotSums DEF Tally
    <3> DEFINE a == n.won + n.lost
               k == Cost(n.lots)
               w == r.won + r.lost
               c == Cost(r.lots)
    <3>2. a = w + profit /\ k = c + x /\ w \in Int /\ c \in Int
      BY <1>2, <1>14, <1>19, <2>2
    <3> HIDE DEF a, k, w, c
    <3>3. a - k = w - c - y + z
      <4>1. a - k = w + profit - c - x
        BY <1>8, <2>1, <3>2
      <4> QED  BY <1>8, <2>1, <3>2, <4>1
    <3> QED  BY <3>3 DEF a, k, w, c
  <2> QED  BY <2>3 DEF y, z
<1>21. n.settled + OpenFees(n.lots) = r.settled + OpenFees(r.lots) + l.fee + rate * t
  <2>1. entryFee \in Int /\ share \in Int
    BY <1>1, <1>6, <1>7, <1>8
  <2>2. n.settled = r.settled + entryFee + share
    BY <1>4
  <2>3. OpenFees(n.lots) = OpenFees(r.lots) + (l.fee - entryFee)
    BY <1>15
  <2> QED  BY <1>1, <1>2, <1>6, <1>14, <2>1, <2>2, <2>3
<1>22. Held(n.lots) = Held(r.lots) + sg * l.qty - sg * t
  BY <1>14, <1>15, <1>16, <1>18
<1>23. n.left = Max2(r.left - own, 0) /\ t \in 0 .. l.qty
  BY <1>3, <1>4
<1>24. Worth(n) = Worth(r) - (sg * l.qty) * l.price + sg * (price * t)
  BY <1>20 DEF Worth
<1>25. Charged(n) = Charged(r) + l.fee + rate * t
  BY <1>21 DEF Charged
<1>26. n.shares = r.shares + rate * t
  BY <1>4, <1>6
<1> QED  BY <1>12, <1>13, <1>17, <1>22, <1>23, <1>24, <1>25, <1>26 DEF n, sg, own, LotGives

LEMMA ClosingIs ==
    ASSUME NEW b, b.lots \in Seq(Lot), b.won \in Int, b.lost \in Int,
           b.settled \in Int, NEW side \in Side, SideOf(b.size) = side, OfSide(b.lots, side), NEW id,
           NEW q \in Nat, q <= Owned(b.lots, side, id),
           NEW price \in Int, NEW rate \in Nat, NEW total \in Nat \ {0},
           NEW fee, IsFee(fee, rate, total)
    PROVE  LET r == ClosingLots(b, id, q, price, fee, total)[Len(b.lots)]
           IN  /\ Tally(r) /\ r.left = 0 /\ OfSide(r.lots, side)
               /\ Held(r.lots) = Held(b.lots) - Sign(side) * q
               /\ Worth(r) = Worth(b) + Sign(side) * (price * q)
               /\ Charged(r) = Charged(b) + rate * q
               /\ r.shares = rate * q
<1> DEFINE N == Len(b.lots)
           C == ClosingLots(b, id, q, price, fee, total)
           A == Sums(QtysOf(b.lots, side, id))
           P == Sums(SizesOf(b.lots))
           K == Sums(CostsOf(b.lots))
           F == Sums(FeesOf(b.lots))
           sg == Sign(side)
           w == b.won + b.lost
           In(i) == /\ Tally(C[i]) /\ OfSide(C[i].lots, side)
                    /\ C[i].left <= q /\ C[i].left = Max2(q - A[i], 0)
           Out(i) == /\ Held(C[i].lots) = P[i] - sg * (q - C[i].left)
                     /\ Worth(C[i]) = (w - K[i]) + sg * (price * (q - C[i].left))
                     /\ Charged(C[i]) = (b.settled + F[i]) + rate * (q - C[i].left)
                     /\ C[i].shares = rate * (q - C[i].left)
           S == {i \in 0 .. N : In(i) /\ Out(i)}
<1>1. N \in Nat /\ DOMAIN b.lots = 1 .. N /\ \A i \in 1 .. N : b.lots[i] \in Lot
  OBVIOUS
<1>2. /\ C[0] = [left |-> q, lots |-> << >>, won |-> b.won, lost |-> b.lost,
                 settled |-> b.settled, shares |-> 0, closed |-> b.closed,
                 events |-> b.events]
      /\ \A i \in 1 .. N : C[i] = LotOffered(C[i - 1], b.lots[i], side, id, price, fee, total)
  <2>1. Len(b.lots) \in Nat
    BY <1>1
  <2> HIDE DEF A, P, K, F, sg, w, In, Out, S, C, N
  <2>2. Unfolds(ClosingLots(b, id, q, price, fee, total), b, id, q, price, fee, total)
    BY ONLY <2>1, ClosingUnfold
  <2>3. SideOf(b.size) = side
    OBVIOUS
  <2> QED  BY <2>2, <2>3, Zenon DEF C, N, Unfolds
<1>3. /\ A[0] = 0 /\ P[0] = 0 /\ K[0] = 0 /\ F[0] = 0
      /\ \A i \in 0 .. N : A[i] \in Int /\ P[i] \in Int /\ K[i] \in Int /\ F[i] \in Int
  BY LotSequences, SumsType
<1>4. sg \in {1, -1} /\ sg \in Int /\ w \in Int
  BY SideSign
<1> HIDE DEF C
<1>5. 0 \in S
  <2>1. /\ C[0].left = q /\ C[0].lots = << >> /\ C[0].won = b.won /\ C[0].lost = b.lost
        /\ C[0].settled = b.settled /\ C[0].shares = 0
    BY <1>2
  <2>2. Tally(C[0])
    BY <2>1 DEF Tally
  <2>3. OfSide(C[0].lots, side)
    BY <2>1 DEF OfSide
  <2>4. In(0)
    BY <1>3, <2>1, <2>2, <2>3 DEF Max2
  <2>5. Out(0)
    <3>1. q - C[0].left = 0 /\ sg * 0 = 0 /\ price * 0 = 0 /\ rate * 0 = 0
      BY <1>4, <2>1
    <3>2. Held(C[0].lots) = 0 /\ Worth(C[0]) = w - 0 /\ Charged(C[0]) = b.settled + 0
           /\ C[0].shares = 0
      BY <2>1, SumsOfNone DEF Worth, Charged
    <3> HIDE DEF P, K, F, sg, w
    <3> QED  BY <1>3, <1>4, <3>1, <3>2
  <2> QED  BY <1>1, <2>4, <2>5
<1>6. ASSUME NEW i \in 1 .. N, i - 1 \in S  PROVE i \in S
  <2> DEFINE l == b.lots[i]
             r == C[i - 1]
             n == C[i]
             own == IF LotMatches(l, side, id) THEN l.qty ELSE 0
             u == q - r.left
             d == r.left - n.left
  <2>1. l \in Lot /\ l.side = side
    BY <1>1 DEF OfSide
  <2>2. /\ Tally(r) /\ OfSide(r.lots, side) /\ r.left <= q
        /\ r.left = Max2(q - A[i - 1], 0)
        /\ Held(r.lots) = P[i - 1] - sg * u
        /\ Worth(r) = (w - K[i - 1]) + sg * (price * u)
        /\ Charged(r) = (b.settled + F[i - 1]) + rate * u
        /\ r.shares = rate * u
    BY <1>6
  <2>3. n = LotOffered(r, l, side, id, price, fee, total)
    BY <1>2
  <2>4. /\ Tally(n) /\ OfSide(n.lots, side)
        /\ d \in 0 .. l.qty
        /\ n.left = Max2(r.left - own, 0)
        /\ Held(n.lots) = Held(r.lots) + sg * l.qty - sg * d
        /\ Worth(n) = Worth(r) - (sg * l.qty) * l.price + sg * (price * d)
        /\ Charged(n) = Charged(r) + l.fee + rate * d
        /\ n.shares = r.shares + rate * d
    <3>1. OfSide(r.lots, l.side)
      BY <2>1, <2>2
    <3>2. LotGives(n, r, l, side, id, price, rate)
      <4>1. Tally(r) /\ l \in Lot
        BY <2>1, <2>2
      <4> HIDE DEF r, l, n
      <4>2. LotGives(LotOffered(r, l, side, id, price, fee, total), r, l, side, id, price, rate)
        BY <3>1, <4>1, LotTriedIs
      <4> QED  BY <2>3, <4>2
    <3> HIDE DEF r, l, n
    <3> QED  BY <2>1, <3>2 DEF LotGives
  <2>5. /\ own \in Int /\ own >= 0 /\ sg * l.qty \in Int /\ (sg * l.qty) * l.price \in Int /\ l.fee \in Int
        /\ l.qty \in Nat
    <3>1. own \in 0 .. l.qty
      <4> HIDE DEF l
      <4>1. \A s, x : (IF LotMatches(l, s, x) THEN l.qty ELSE 0) \in 0 .. l.qty
        BY <2>1, LotValues
      <4> QED  BY <4>1
    <3>2. sg * l.qty \in Int /\ (sg * l.qty) * l.price \in Int /\ l.fee \in Int /\ l.qty \in Nat
      <4> HIDE DEF l
      <4>1. /\ Sign(l.side) * l.qty \in Int /\ Sign(l.side) * l.qty * l.price \in Int
            /\ l.fee \in Nat /\ l.qty \in Nat
        BY <2>1, LotValues
      <4>2. Sign(l.side) = sg
        BY <2>1
      <4> HIDE DEF sg
      <4> QED  BY <4>1, <4>2
    <3> HIDE DEF own, l, sg
    <3> QED  BY <3>1, <3>2
  <2>6. /\ A[i] = A[i - 1] + own /\ P[i] = P[i - 1] + sg * l.qty
        /\ K[i] = K[i - 1] + (sg * l.qty) * l.price /\ F[i] = F[i - 1] + l.fee
    <3>1. /\ QtysOf(b.lots, side, id)[i] = own /\ SizesOf(b.lots)[i] = sg * l.qty
          /\ CostsOf(b.lots)[i] = (sg * l.qty) * l.price /\ FeesOf(b.lots)[i] = l.fee
      <4>1. i \in DOMAIN b.lots
        BY <1>1
      <4>2. QtysOf(b.lots, side, id)[i] = own
        BY <4>1 DEF QtysOf
      <4>3. SizesOf(b.lots)[i] = sg * l.qty
        BY <4>1, <2>1 DEF SizesOf
      <4>4. CostsOf(b.lots)[i] = (sg * l.qty) * l.price
        BY <4>1, <2>1 DEF CostsOf
      <4>5. FeesOf(b.lots)[i] = l.fee
        BY <4>1 DEF FeesOf
      <4> QED  BY <4>2, <4>3, <4>4, <4>5
    <3> HIDE DEF own, l, sg
    <3>2. /\ A[i] = A[i - 1] + QtysOf(b.lots, side, id)[i] /\ P[i] = P[i - 1] + SizesOf(b.lots)[i]
          /\ K[i] = K[i - 1] + CostsOf(b.lots)[i] /\ F[i] = F[i - 1] + FeesOf(b.lots)[i]
      <4>1. /\ QtysOf(b.lots, side, id) \in Seq(Int) /\ Len(QtysOf(b.lots, side, id)) = N
            /\ SizesOf(b.lots) \in Seq(Int) /\ Len(SizesOf(b.lots)) = N
            /\ CostsOf(b.lots) \in Seq(Int) /\ Len(CostsOf(b.lots)) = N
            /\ FeesOf(b.lots) \in Seq(Int) /\ Len(FeesOf(b.lots)) = N
        BY LotSequences, SMTT(30)
      <4> HIDE DEF N
      <4>2. A[i] = A[i - 1] + QtysOf(b.lots, side, id)[i]
        BY <4>1, SumsType
      <4>3. P[i] = P[i - 1] + SizesOf(b.lots)[i]
        BY <4>1, SumsType
      <4>4. K[i] = K[i - 1] + CostsOf(b.lots)[i]
        BY <4>1, SumsType
      <4>5. F[i] = F[i - 1] + FeesOf(b.lots)[i]
        BY <4>1, SumsType
      <4> QED  BY <4>2, <4>3, <4>4, <4>5
    <3> QED  BY <3>1, <3>2
  <2>7. /\ A[i - 1] \in Int /\ P[i - 1] \in Int /\ K[i - 1] \in Int /\ F[i - 1] \in Int
        /\ r.left \in Nat /\ n.left \in Nat /\ i \in 0 .. N
    <3>1. i - 1 \in 0 .. N /\ i \in 0 .. N
      BY <1>1
    <3> QED  BY <1>3, <2>2, <2>4, <3>1 DEF Tally
  <2> HIDE DEF A, P, K, F, sg, w, n, r, l, own
  <2>8. u \in Int /\ d \in Int /\ q - n.left = u + d
    <3> DEFINE x == r.left
               y == n.left
    <3>1. x \in Nat /\ y \in Nat
      BY <2>7
    <3> HIDE DEF x, y
    <3>2. q - x \in Int /\ x - y \in Int /\ q - y = (q - x) + (x - y)
      BY <3>1
    <3> QED  BY <3>2 DEF x, y
  <2> HIDE DEF u, d
  <2>9. /\ sg * (u + d) = sg * u + sg * d /\ sg * u \in Int /\ sg * d \in Int
        /\ price * (u + d) = price * u + price * d /\ price * u \in Int /\ price * d \in Int
        /\ rate * (u + d) = rate * u + rate * d /\ rate * u \in Int /\ rate * d \in Int
    BY <1>4, <2>8
  <2>10. /\ sg * (price * (u + d)) = sg * (price * u) + sg * (price * d)
         /\ sg * (price * u) \in Int /\ sg * (price * d) \in Int
    BY <1>4, <2>8, <2>9
  <2>11. n.left <= q /\ n.left = Max2(q - A[i], 0)
    <3>1. /\ r.left = Max2(q - A[i - 1], 0) /\ n.left = Max2(r.left - own, 0)
          /\ A[i] = A[i - 1] + own
      BY <2>2, <2>4, <2>6
    <3>2. own \in Int /\ own >= 0 /\ A[i - 1] \in Int /\ r.left \in Nat /\ n.left \in Nat /\ r.left <= q
      BY <2>2, <2>5, <2>7
    <3> QED  BY <3>1, <3>2 DEF Max2
  <2>12. Held(n.lots) = P[i] - sg * (u + d)
    <3> DEFINE k == sg * l.qty
               x == sg * u
               y == sg * d
    <3>1. k \in Int /\ x \in Int /\ y \in Int
      BY <2>5, <2>9
    <3>2. Held(n.lots) = Held(r.lots) + k - y /\ Held(r.lots) = P[i - 1] - x /\ P[i] = P[i - 1] + k
      BY <2>2, <2>4, <2>6
    <3>3. sg * (u + d) = x + y
      BY <2>9
    <3> HIDE DEF k, x, y
    <3> QED  BY <2>7, <3>1, <3>2, <3>3
  <2>13. Worth(n) = (w - K[i]) + sg * (price * (u + d))
    <3> DEFINE k == (sg * l.qty) * l.price
               x == sg * (price * u)
               y == sg * (price * d)
    <3>1. k \in Int /\ x \in Int /\ y \in Int
      BY <2>5, <2>10
    <3>2. Worth(n) = Worth(r) - k + y /\ Worth(r) = (w - K[i - 1]) + x /\ K[i] = K[i - 1] + k
      BY <2>2, <2>4, <2>6
    <3>3. sg * (price * (u + d)) = x + y
      BY <2>10
    <3> HIDE DEF k, x, y
    <3> QED  BY <1>4, <2>7, <3>1, <3>2, <3>3, SMTT(30)
  <2>14. Charged(n) = (b.settled + F[i]) + rate * (u + d)
    <3> DEFINE x == rate * u
               y == rate * d
               g == F[i - 1]
               k == l.fee
               z == b.settled
    <3>1. x \in Int /\ y \in Int /\ g \in Int /\ k \in Int /\ z \in Int
      BY <2>5, <2>7, <2>9
    <3>2. Charged(n) = Charged(r) + k + y /\ Charged(r) = (z + g) + x /\ F[i] = g + k
      BY <2>2, <2>4, <2>6
    <3>3. rate * (u + d) = x + y
      BY <2>9
    <3>4. Charged(n) = (z + (g + k)) + (x + y)
      <4> HIDE DEF x, y, g, k, z
      <4> QED  BY <3>1, <3>2
    <3>5. Charged(n) = (z + F[i]) + rate * (u + d)
      <4> HIDE DEF x, y, g, k, z
      <4> QED  BY <3>2, <3>3, <3>4
    <3> QED  BY <3>5 DEF z
  <2>16. n.shares = rate * (u + d)
    BY <2>2, <2>4, <2>9
  <2>15. In(i) /\ Out(i)
    BY <2>4, <2>8, <2>11, <2>12, <2>13, <2>14, <2>16 DEF n
  <2> QED  BY <2>7, <2>15
<1>7. \A i \in 0 .. N : i \in S
  <2> HIDE DEF S
  <2> QED  BY <1>1, <1>5, <1>6, AllPlaces
<1>8. In(N) /\ Out(N)
  BY <1>1, <1>7
<1>9. /\ A[N] = Owned(b.lots, side, id) /\ P[N] = Held(b.lots) /\ K[N] = Cost(b.lots)
      /\ F[N] = OpenFees(b.lots)
  BY LotSequences DEF Owned, Held, Cost, OpenFees, SumOf
<1>10. C[N].left = 0
  BY <1>1, <1>3, <1>8, <1>9 DEF Max2
<1>11. q - C[N].left = q
  BY <1>10
<1>12. /\ Held(C[N].lots) = Held(b.lots) - sg * q
       /\ Worth(C[N]) = Worth(b) + sg * (price * q)
       /\ Charged(C[N]) = Charged(b) + rate * q
       /\ C[N].shares = rate * q
  <2> HIDE DEF A, P, K, F, sg
  <2> QED  BY <1>8, <1>9, <1>11 DEF Worth, Charged
<1> QED  BY <1>8, <1>10, <1>12 DEF C, N, sg

-----------------------------------------------------------------------------
(* What an order does to the account.                                      *)

SameMoney(r, d) ==
    /\ d.lots = r.lots /\ d.won = r.won /\ d.lost = r.lost /\ d.fees = r.fees
    /\ d.cash = r.cash /\ d.settled = r.settled
SameBook(r, d) ==
    /\ d.orders = r.orders /\ d.sources = r.sources /\ d.active = r.active
    /\ d.heap = r.heap /\ d.version = r.version
SameLocks(r, d) ==
    /\ d.filled = r.filled /\ d.filledLocked = r.filledLocked /\ d.locked = r.locked
    /\ d.grew = r.grew
SameRest(r, d) == d.c = r.c /\ d.out = r.out /\ d.missed = r.missed

LEMMA LotsClosedIs ==
    ASSUME NEW r, IsReplay(r), NEW x
    PROVE  LET d == LotsClosed(r, x)
           IN  /\ IsReplay(d) /\ SameBook(r, d) /\ SameLocks(r, d) /\ SameRest(r, d)
               /\ d.size = r.size /\ d.fees = r.fees /\ d.cash = r.cash
               /\ d.lots = x.lots /\ d.won = x.won /\ d.lost = x.lost /\ d.settled = x.settled
BY DEF LotsClosed, IsReplay, Fields, SameBook, SameLocks, SameRest

LEMMA LotOpenedIs ==
    ASSUME NEW r, IsReplay(r), NEW l
    PROVE  LET d == LotOpened(r, l)
           IN  /\ IsReplay(d) /\ SameBook(r, d) /\ SameLocks(r, d) /\ SameRest(r, d)
               /\ d.size = r.size /\ d.fees = r.fees /\ d.cash = r.cash /\ d.won = r.won
               /\ d.lost = r.lost /\ d.settled = r.settled /\ d.lots = Append(r.lots, l)
BY DEF LotOpened, IsReplay, Fields, SameBook, SameLocks, SameRest

LEMMA PaidIs ==
    ASSUME NEW r, IsReplay(r), NEW next, NEW price, NEW fee
    PROVE  LET d == PaidFill(r, next, price, fee)
           IN  /\ IsReplay(d) /\ SameBook(r, d) /\ SameLocks(r, d) /\ SameRest(r, d)
               /\ d.size = r.size /\ d.lots = r.lots /\ d.won = r.won /\ d.lost = r.lost
               /\ d.settled = r.settled /\ d.fees = r.fees + fee
               /\ d.cash = r.cash - (next - r.size) * price
BY DEF PaidFill, IsReplay, Fields, SameBook, SameLocks, SameRest

LEMMA SideOfIs ==
    ASSUME NEW n \in Int
    PROVE  /\ SideOf(n) \in Side /\ Size(n) \in Nat
           /\ n # 0 => n = Sign(SideOf(n)) * Size(n)
           /\ Size(n) = 0 <=> n = 0
BY DEF SideOf, Side, Size, Sign, Max2

\* An order of n contracts closes q of the position it finds, as much of it as
\* it can, and opens what is left of it on its own side.
LEMMA ToCloseIs ==
    ASSUME NEW r, r.size \in Int, NEW next \in Int, next # r.size
    PROVE  LET n == Size(next - r.size)
               s == IF next > r.size THEN "long" ELSE "short"
               side == SideOf(r.size)
               q == ToClose(r, next)
           IN  /\ s \in Side /\ n \in Nat \ {0} /\ q \in 0 .. n /\ q <= Size(r.size)
               /\ next - r.size = Sign(s) * (n - q) - Sign(side) * q
               /\ r.size = Sign(side) * q \/ side = SideOf(next)
               /\ n - q > 0 => /\ next # 0 /\ s = SideOf(next)
                               /\ r.size = 0 \/ s = SideOf(next)
<1> DEFINE n == Size(next - r.size)
           s == IF next > r.size THEN "long" ELSE "short"
           side == SideOf(r.size)
           q == ToClose(r, next)
<1>1. PICK p \in Int : p = r.size
  OBVIOUS
<1>2. PICK d \in Int : d = next - p
  BY <1>1
<1>3. d # 0 /\ next = p + d /\ n = Size(d)
  BY <1>1, <1>2
<1>4. p * d < 0 <=> (p > 0 /\ d < 0) \/ (p < 0 /\ d > 0)
  <2>1. CASE p = 0
    BY <2>1
  <2>2. CASE p > 0
    BY <2>2
  <2>3. CASE p < 0
    BY <2>3
  <2> QED  BY <2>1, <2>2, <2>3
<1>5. q = IF p * d < 0 THEN Min2(Size(p), Size(d)) ELSE 0
  BY <1>1, <1>2 DEF ToClose
<1>6. s = (IF d > 0 THEN "long" ELSE "short") /\ side = (IF p > 0 THEN "long" ELSE "short")
  BY <1>1, <1>3 DEF SideOf
<1>7. Size(d) = (IF d > 0 THEN d ELSE -d) /\ Size(p) = (IF p > 0 THEN p ELSE -p)
  BY DEF Size, Max2
<1>8. SideOf(next) = IF p + d > 0 THEN "long" ELSE "short"
  BY <1>3 DEF SideOf
<1>9. Sign(s) = (IF d > 0 THEN 1 ELSE -1) /\ Sign(side) = (IF p > 0 THEN 1 ELSE -1)
  BY <1>6 DEF Sign
<1> HIDE DEF n, s, side, q
<1>10. q = IF p > 0 /\ d < 0 THEN (IF p <= -d THEN p ELSE -d)
           ELSE IF p < 0 /\ d > 0 THEN (IF -p <= d THEN -p ELSE d) ELSE 0
  BY <1>4, <1>5, <1>7 DEF Min2
<1>11. s \in Side /\ n \in Nat \ {0} /\ q \in 0 .. n /\ q <= Size(p)
  BY <1>3, <1>6, <1>7, <1>10 DEF Side
<1>12. d = Sign(s) * (n - q) - Sign(side) * q
  <2>1. CASE d > 0 /\ p > 0
    BY <2>1, <1>3, <1>7, <1>9, <1>10
  <2>2. CASE d > 0 /\ p <= 0
    <3>1. n = d /\ Sign(s) = 1 /\ Sign(side) = -1
      BY <2>2, <1>3, <1>7, <1>9
    <3> QED  BY <3>1, <1>10, <1>11
  <2>3. CASE d < 0 /\ p > 0
    <3>1. n = -d /\ Sign(s) = -1 /\ Sign(side) = 1
      BY <2>3, <1>3, <1>7, <1>9
    <3> QED  BY <3>1, <1>10, <1>11
  <2>4. CASE d < 0 /\ p <= 0
    <3>1. n = -d /\ Sign(s) = -1 /\ Sign(side) = -1 /\ q = 0
      BY <2>4, <1>3, <1>7, <1>9, <1>10
    <3> QED  BY <3>1
  <2> QED  BY <1>3, <2>1, <2>2, <2>3, <2>4
<1>13. p = Sign(side) * q \/ side = SideOf(next)
  BY <1>3, <1>6, <1>8, <1>9, <1>10
<1>14. n - q > 0 => /\ next # 0 /\ s = SideOf(next)
                    /\ p = 0 \/ s = SideOf(next)
  BY <1>3, <1>6, <1>7, <1>8, <1>10
<1> QED  BY <1>1, <1>2, <1>11, <1>12, <1>13, <1>14 DEF n, s, side, q

\* Nothing is held exactly when there are no lots; what an identifier owns is
\* no more than the position.
LEMMA Holding ==
    ASSUME NEW s \in Seq(Lot), NEW side \in Side, OfSide(s, side), NEW id
    PROVE  /\ Held(s) = 0 => s = << >>
           /\ Owned(s, side, id) \in Nat /\ Owned(s, side, id) <= Size(Held(s))
           /\ Owned(s, side, NoId) = Size(Held(s))
<1> DEFINE all == Owned(s, side, NoId)
           own == Owned(s, side, id)
           h == Held(s)
<1>1. /\ own \in Nat /\ own <= all /\ h = Sign(side) * all /\ (s # << >> => all > 0)
  BY SidedSums
<1>2. all \in Nat
  BY SidedSums
<1> HIDE DEF all, own, h
<1>3. Size(h) = all
  BY <1>1, <1>2, SideSign DEF Size, Max2
<1>4. h = 0 => all = 0
  BY <1>1, <1>2, SideSign
<1> QED  BY <1>1, <1>2, <1>3, <1>4 DEF all, own, h

LEMMA NoneOfSide == ASSUME NEW s, s = << >>, NEW side  PROVE OfSide(s, side)
BY DEF OfSide

\* A fill keeps the books: what it makes of the position is what the lots hold,
\* the profit is the money that moved, the commission is shared out.
LEMMA RecordedIs ==
    ASSUME NEW r, IsReplay(r), r.c \in Config, Balanced(r, r.size), NEW k \in Nat,
           r.orders[k].id \in Ids \cup {NoId}, NEW next \in Int, NEW price \in Int,
           ToClose(r, next) <= Owned(r.lots, SideOf(r.size),
                                     IF r.orders[k].fresh THEN NoId ELSE Target(r.orders[k]))
    PROVE  LET d == Recorded(r, k, next, price)
           IN  /\ IsReplay(d) /\ SameBook(r, d) /\ SameLocks(r, d) /\ SameRest(r, d)
               /\ d.size = r.size /\ Balanced(d, next)
<1> DEFINE o == r.orders[k]
           id == IF o.fresh THEN NoId ELSE Target(o)
           n == Size(next - r.size)
           rate == r.c.rate
           fee == Fee(r.c, n)
           s == IF next > r.size THEN "long" ELSE "short"
           side == SideOf(r.size)
           q == ToClose(r, next)
           x == ClosingLots(r, id, q, price, fee, n)[Len(r.lots)]
           left == n - (q - x.left)
           paid == PaidFill(r, next, price, fee)
           covered == LotsClosed(paid, x)
           lot == [lot |-> k, id |-> o.id, side |-> s, qty |-> left, price |-> price,
                   fee |-> fee - x.shares]
           d == Recorded(r, k, next, price)
<1>1. /\ r.size \in Int /\ r.lots \in Seq(Lot) /\ r.won \in Int /\ r.lost \in Int
      /\ r.fees \in Int /\ r.cash \in Int /\ r.settled \in Int
      /\ r.size = Held(r.lots) /\ OfSide(r.lots, side)
      /\ r.won + r.lost = r.cash + Cost(r.lots) /\ r.fees = r.settled + OpenFees(r.lots)
  BY DEF Balanced
<1>2. d = IF n = 0 THEN r
          ELSE IF next # 0 /\ left > 0 /\ (r.size = 0 \/ s = SideOf(next))
          THEN LotOpened(covered, lot) ELSE covered
  BY DEF Recorded
<1>3. CASE next = r.size
  <2>2. n = 0
    BY <1>1, <1>3 DEF Size, Max2
  <2> QED  BY <1>2, <1>3, <2>2 DEF SameBook, SameLocks, SameRest
<1>4. CASE next # r.size
  <2>2. /\ s \in Side /\ n \in Nat \ {0} /\ q \in 0 .. n /\ q <= Size(r.size)
        /\ next - r.size = Sign(s) * (n - q) - Sign(side) * q
        /\ r.size = Sign(side) * q \/ side = SideOf(next)
        /\ n - q > 0 => next # 0 /\ s = SideOf(next) /\ (r.size = 0 \/ s = SideOf(next))
    BY <1>1, <1>4, ToCloseIs
  <2>3. rate \in Nat /\ IsFee(fee, rate, n) /\ side \in Side
    BY <1>1, ConfigIs, SideOfIs DEF IsFee, Fee
  <2>4. /\ Tally(x) /\ x.left = 0 /\ OfSide(x.lots, side)
        /\ Held(x.lots) = Held(r.lots) - Sign(side) * q
        /\ Worth(x) = Worth(r) + Sign(side) * (price * q)
        /\ Charged(x) = Charged(r) + rate * q
        /\ x.shares = rate * q
    <3> HIDE DEF q, n, fee, rate, side, x
    <3>1. q \in Nat /\ q <= Owned(r.lots, side, id)
      BY <2>2 DEF q, side
    <3>2. SideOf(r.size) = side
      BY DEF side
    <3>3. OfSide(r.lots, side) /\ price \in Int /\ n \in Nat \ {0}
      BY <1>1, <2>2
    <3>4. x = ClosingLots(r, id, q, price, fee, n)[Len(r.lots)]
      BY DEF x
    <3> HIDE DEF id
    <3>5. r.lots \in Seq(Lot) /\ r.won \in Int /\ r.lost \in Int /\ r.settled \in Int
      BY <1>1
    <3> QED  BY ONLY <2>3, <3>1, <3>2, <3>3, <3>4, <3>5, ClosingIs
  <2>5. /\ IsReplay(paid) /\ SameBook(r, paid) /\ SameLocks(r, paid) /\ SameRest(r, paid)
        /\ paid.size = r.size /\ paid.lots = r.lots /\ paid.won = r.won /\ paid.lost = r.lost
        /\ paid.settled = r.settled /\ paid.fees = r.fees + fee
        /\ paid.cash = r.cash - (next - r.size) * price
    <3> HIDE DEF fee
    <3> QED  BY PaidIs
  <2> HIDE DEF paid
  <2>6. /\ IsReplay(covered) /\ SameBook(paid, covered) /\ SameLocks(paid, covered)
        /\ SameRest(paid, covered)
        /\ covered.size = paid.size /\ covered.fees = paid.fees /\ covered.cash = paid.cash
        /\ covered.lots = x.lots /\ covered.won = x.won /\ covered.lost = x.lost
        /\ covered.settled = x.settled
    <3> HIDE DEF x
    <3> QED  BY <2>5, LotsClosedIs
  <2> HIDE DEF covered
  <2>7. /\ SameBook(r, covered) /\ SameLocks(r, covered) /\ SameRest(r, covered)
        /\ covered.size = r.size
    BY <2>5, <2>6 DEF SameBook, SameLocks, SameRest
  <2>8. left = n - q /\ left \in Nat
    <3> HIDE DEF x, q, n
    <3> QED  BY <2>2, <2>4
  <2>9. PICK sd \in {1, -1} : sd = Sign(side)
    BY <2>3, SideSign
  <2>10. PICK ss \in {1, -1} : ss = Sign(s)
    BY <2>2, SideSign
  <2> HIDE DEF n, q, x, side, s, fee, rate, d, left
  <2>11. x.lots = << >> \/ side = SideOf(next)
    <3>1. SUFFICES ASSUME r.size = Sign(side) * q  PROVE x.lots = << >>
      BY <2>2
    <3>2. Held(x.lots) = 0
      BY <1>1, <2>2, <2>4, <2>9, <3>1
    <3> QED  BY <2>3, <2>4, <3>2, Holding DEF Tally
  <2>12. OfSide(x.lots, SideOf(next))
    BY <2>4, <2>11, NoneOfSide
  <2>13. PICK pq \in Int : pq = price * q
    BY <2>2
  <2>14. PICK pl \in Int : pl = left * price
    BY <2>8
  <2>15. PICK sq \in Int : sq = sd * pq
    BY <2>13
  <2>16. PICK sl \in Int : sl = ss * pl
    BY <2>14
  <2>17. PICK hq \in Int : hq = sd * q
    BY <2>2
  <2>18. PICK hl \in Int : hl = ss * left
    BY <2>8
  <2>19. next - r.size = hl - hq
    BY <2>2, <2>8, <2>9, <2>10, <2>17, <2>18
  <2>20. (next - r.size) * price = sl - sq
    <3>1. (ss * left - sd * q) * price = ss * (left * price) - sd * (price * q)
      <4>1. q \in Int /\ left \in Int
        BY <2>2, <2>8
      <4> QED  BY <4>1
    <3> QED  BY <3>1, <2>13, <2>14, <2>15, <2>16, <2>17, <2>18, <2>19
  <2>21. /\ x.won \in Int /\ x.lost \in Int /\ x.lots \in Seq(Lot) /\ x.settled \in Int
         /\ Held(x.lots) \in Int /\ Cost(x.lots) \in Int /\ OpenFees(x.lots) \in Int
    BY <2>4, LotSums DEF Tally
  <2>22. Held(x.lots) = r.size - hq
    BY <1>1, <2>4, <2>9, <2>17
  <2>23. x.won + x.lost = (r.cash + Cost(x.lots)) + sq
    <3>1. (x.won + x.lost) - Cost(x.lots) = ((r.won + r.lost) - Cost(r.lots)) + sq
      BY <2>4, <2>9, <2>13, <2>15 DEF Worth
    <3>2. /\ Cost(r.lots) \in Int /\ r.won \in Int /\ r.lost \in Int /\ r.cash \in Int
          /\ r.won + r.lost = r.cash + Cost(r.lots)
      BY <1>1, LotSums
    <3>3. x.won \in Int /\ x.lost \in Int /\ Cost(x.lots) \in Int
      BY <2>21
    <3> QED  BY ONLY <3>1, <3>2, <3>3, sq \in Int
  <2>24. PICK rq \in Nat : rq = rate * q
    BY <2>2, <2>3
  <2>25. PICK rl \in Nat : rl = rate * left
    BY <2>3, <2>8
  <2>26. fee = rl + rq
    <3>1. n = left + q
      BY <2>2, <2>8
    <3>2. rate * (left + q) = rate * left + rate * q
      BY <2>2, <2>3, <2>8
    <3> QED  BY <2>3, <2>24, <2>25, <3>1, <3>2 DEF IsFee
  <2>27. x.settled + OpenFees(x.lots) = r.fees + rq
    <3>1. OpenFees(r.lots) \in Int
      BY <1>1, LotSums
    <3>2. x.settled + OpenFees(x.lots) = (r.settled + OpenFees(r.lots)) + rate * q
      BY <2>4 DEF Charged
    <3> QED  BY <1>1, <2>21, <2>24, <3>1, <3>2
  <2>28. CASE left > 0
    <3>1. d = LotOpened(covered, lot)
      BY <1>2, <2>2, <2>8, <2>28
    <3>2. lot = [lot |-> k, id |-> o.id, side |-> s, qty |-> left, price |-> price, fee |-> rl]
      <4>1. fee - x.shares = rl
        BY <2>4, <2>24, <2>25, <2>26
      <4> QED  BY <4>1
    <3>3. lot \in Lot
      BY <2>2, <2>8, <2>28, <3>2 DEF Lot
    <3>4. lot.side = s /\ lot.qty = left /\ lot.price = price /\ lot.fee = rl
      BY <3>2
    <3> HIDE DEF lot
    <3>5. /\ IsReplay(d) /\ SameBook(covered, d) /\ SameLocks(covered, d) /\ SameRest(covered, d)
          /\ d.size = covered.size /\ d.fees = covered.fees /\ d.cash = covered.cash
          /\ d.won = covered.won /\ d.lost = covered.lost /\ d.settled = covered.settled
          /\ d.lots = Append(covered.lots, lot)
      BY <2>6, <3>1, LotOpenedIs
    <3>6. /\ d.lots \in Seq(Lot) /\ Held(d.lots) = Held(x.lots) + hl
          /\ Cost(d.lots) = Cost(x.lots) + sl
          /\ OpenFees(d.lots) = OpenFees(x.lots) + rl
      <4>1. d.lots = Append(x.lots, lot)
        BY <2>6, <3>5
      <4>2. /\ d.lots \in Seq(Lot) /\ Held(d.lots) = Held(x.lots) + Sign(s) * left
            /\ Cost(d.lots) = Cost(x.lots) + Sign(s) * left * price
            /\ OpenFees(d.lots) = OpenFees(x.lots) + rl
        BY <2>21, <3>3, <3>4, <4>1, LotAppended
      <4>3. Sign(s) * left * price = sl
        BY <2>8, <2>10, <2>14, <2>16
      <4> QED  BY <2>10, <2>18, <4>2, <4>3
    <3>7. OfSide(d.lots, SideOf(next))
      <4>1. d.lots = Append(x.lots, lot) /\ lot.side = SideOf(next)
        BY <2>2, <2>6, <2>8, <2>28, <3>4, <3>5
      <4> HIDE DEF d
      <4>2. /\ Len(d.lots) = Len(x.lots) + 1 /\ Len(x.lots) \in Nat
            /\ \A i \in 1 .. Len(x.lots) : d.lots[i] = x.lots[i]
            /\ d.lots[Len(x.lots) + 1] = lot
        BY <2>21, <3>3, <4>1
      <4>3. \A i \in 1 .. Len(x.lots) : x.lots[i].side = SideOf(next)
        BY <2>12 DEF OfSide
      <4>4. \A i \in 1 .. Len(x.lots) + 1 : i \in 1 .. Len(x.lots) \/ i = Len(x.lots) + 1
        BY <4>2
      <4>5. SUFFICES \A i \in 1 .. Len(d.lots) : d.lots[i].side = SideOf(next)
        BY DEF OfSide
      <4> QED  BY ONLY <4>1, <4>2, <4>3, <4>4
    <3>8. next = Held(d.lots)
      <4>1. /\ r.size \in Int /\ next \in Int /\ hl \in Int /\ hq \in Int
            /\ Held(x.lots) = r.size - hq /\ next - r.size = hl - hq
            /\ Held(d.lots) = Held(x.lots) + hl /\ Held(x.lots) \in Int
        BY <1>1, <2>19, <2>21, <2>22, <3>6
      <4>2. next = (r.size - hq) + hl
        BY ONLY <4>1
      <4> QED  BY <4>1, <4>2
    <3>9. d.won + d.lost = d.cash + Cost(d.lots)
      <4>1. d.won = x.won /\ d.lost = x.lost /\ d.cash = r.cash - (sl - sq)
        BY <2>5, <2>6, <2>20, <3>5
      <4>2. /\ r.cash \in Int /\ Cost(x.lots) \in Int /\ sl \in Int /\ sq \in Int
            /\ x.won + x.lost = (r.cash + Cost(x.lots)) + sq
            /\ Cost(d.lots) = Cost(x.lots) + sl
        BY <1>1, <2>21, <2>23, <3>6
      <4> QED  BY ONLY <4>1, <4>2
    <3>10. d.fees = d.settled + OpenFees(d.lots)
      <4>1. /\ d.fees = r.fees + fee /\ d.settled = x.settled
            /\ OpenFees(d.lots) = OpenFees(x.lots) + rl
        BY <2>5, <2>6, <3>5, <3>6
      <4>2. /\ r.fees \in Int /\ x.settled \in Int /\ OpenFees(x.lots) \in Int
            /\ rl \in Int /\ rq \in Int /\ fee = rl + rq
            /\ x.settled + OpenFees(x.lots) = r.fees + rq
        BY <1>1, <2>21, <2>26, <2>27
      <4> QED  BY ONLY <4>1, <4>2
    <3>11. d.won \in Int /\ d.lost \in Int /\ d.fees \in Int /\ d.cash \in Int /\ d.settled \in Int
      <4>1. /\ d.won = x.won /\ d.lost = x.lost /\ d.settled = x.settled
            /\ d.fees = r.fees + fee /\ d.cash = r.cash - (sl - sq)
        BY <2>5, <2>6, <2>20, <3>5
      <4>2. fee \in Int
        BY <2>26
      <4>3. r.fees \in Int /\ r.cash \in Int
        BY <1>1
      <4> QED  BY <2>21, <4>1, <4>2, <4>3
    <3>12. SameBook(r, d) /\ SameLocks(r, d) /\ SameRest(r, d) /\ d.size = r.size
      BY <2>7, <3>5 DEF SameBook, SameLocks, SameRest
    <3>13. Balanced(d, next)
      BY <3>6, <3>7, <3>8, <3>9, <3>10, <3>11 DEF Balanced
    <3> QED  BY <3>5, <3>12, <3>13 DEF d
  <2>29. CASE left = 0
    <3>1. d = covered
      BY <1>2, <2>2, <2>29
    <3>2. d.lots = x.lots /\ d.won = x.won /\ d.lost = x.lost /\ d.settled = x.settled
      BY <2>6, <3>1
    <3>3. sl = 0 /\ rl = 0 /\ hl = 0
      BY <2>3, <2>10, <2>14, <2>25, <2>29, <2>16, <2>18
    <3>4. d.fees = r.fees + fee /\ d.cash = r.cash - (sl - sq)
      BY <2>5, <2>6, <2>20, <3>1
    <3>5. next = Held(d.lots)
      BY <1>1, <2>22, <2>19, <3>2, <3>3
    <3>6. d.won + d.lost = d.cash + Cost(d.lots)
      BY <1>1, <2>21, <2>23, <3>2, <3>3, <3>4
    <3>7. d.fees = d.settled + OpenFees(d.lots)
      BY <1>1, <2>21, <2>26, <2>27, <3>2, <3>3, <3>4
    <3>8. d.won \in Int /\ d.lost \in Int /\ d.fees \in Int /\ d.cash \in Int /\ d.settled \in Int
      BY <1>1, <2>21, <2>26, <3>2, <3>4, SMTT(30)
    <3>9. Balanced(d, next)
      BY <2>12, <2>21, <3>2, <3>5, <3>6, <3>7, <3>8 DEF Balanced
    <3> QED  BY <2>6, <2>7, <3>1, <3>9 DEF d
  <2> QED  BY <2>8, <2>28, <2>29 DEF d
<1> QED  BY <1>1, <1>3, <1>4

-----------------------------------------------------------------------------
(* Series: the orders, their versions and what a replay reports by bar.    *)

LEMMA SeriesIsSeq ==
    ASSUME NEW s, IsSeries(s)
    PROVE  /\ Len(s) \in Nat /\ DOMAIN s = 1 .. Len(s)
           /\ s \in Seq({s[i] : i \in 1 .. Len(s)})
<1>1. Len(s) \in Nat /\ DOMAIN s = 1 .. Len(s) /\ s = [i \in 1 .. Len(s) |-> s[i]]
  BY DEF IsSeries
<1>2. s \in [1 .. Len(s) -> {s[i] : i \in 1 .. Len(s)}]
  BY ONLY <1>1
<1> QED  BY <1>1, <1>2

LEMMA SeqIsSeries == ASSUME NEW S, NEW s \in Seq(S)  PROVE IsSeries(s)
BY DEF IsSeries

LEMMA FunctionIsSeries ==
    ASSUME NEW n \in Nat, NEW f, f = [i \in 1 .. n |-> f[i]]
    PROVE  IsSeries(f) /\ Len(f) = n
<1>1. f \in [1 .. n -> {f[i] : i \in 1 .. n}]
  BY ONLY f = [i \in 1 .. n |-> f[i]]
<1>2. f \in Seq({f[i] : i \in 1 .. n})
  BY <1>1
<1> QED  BY <1>1, <1>2, SeqIsSeries

LEMMA SeriesPut ==
    ASSUME NEW s, IsSeries(s), NEW k \in 1 .. Len(s), NEW x
    PROVE  LET t == [s EXCEPT ![k] = x]
           IN  /\ IsSeries(t) /\ Len(t) = Len(s) /\ t[k] = x
               /\ \A j \in 1 .. Len(s) : j # k => t[j] = s[j]
<1> DEFINE t == [s EXCEPT ![k] = x]
<1>1. Len(s) \in Nat /\ DOMAIN s = 1 .. Len(s)
  BY DEF IsSeries
<1>2. DOMAIN t = 1 .. Len(s) /\ t = [j \in 1 .. Len(s) |-> IF j = k THEN x ELSE s[j]]
  BY <1>1
<1>3. t = [j \in 1 .. Len(s) |-> t[j]]
  BY ONLY <1>2
<1> QED  BY <1>1, <1>2, <1>3, FunctionIsSeries

LEMMA SeriesAppend ==
    ASSUME NEW s, IsSeries(s), NEW x
    PROVE  LET t == Append(s, x)
           IN  /\ IsSeries(t) /\ Len(t) = Len(s) + 1 /\ t[Len(s) + 1] = x
               /\ \A j \in 1 .. Len(s) : t[j] = s[j]
<1> DEFINE R == {s[i] : i \in 1 .. Len(s)} \cup {x}
<1>1. s \in Seq(R)
  <2>1. Len(s) \in Nat /\ DOMAIN s = 1 .. Len(s) /\ s = [i \in 1 .. Len(s) |-> s[i]]
    BY DEF IsSeries
  <2>2. s \in [1 .. Len(s) -> R]
    BY ONLY <2>1 DEF R
  <2> QED  BY <2>1, <2>2
<1>2. x \in R
  OBVIOUS
<1> HIDE DEF R
<1>3. /\ Append(s, x) \in Seq(R) /\ Len(Append(s, x)) = Len(s) + 1
      /\ Append(s, x)[Len(s) + 1] = x /\ \A j \in 1 .. Len(s) : Append(s, x)[j] = s[j]
  BY ONLY <1>1, <1>2
<1> QED  BY <1>3, SeqIsSeries

LEMMA SeriesCut ==
    ASSUME NEW s, IsSeries(s), NEW n \in Nat, n <= Len(s)
    PROVE  IsSeries(SubSeq(s, 1, n)) /\ Len(SubSeq(s, 1, n)) = n
<1> DEFINE R == {s[i] : i \in 1 .. Len(s)}
<1>1. s \in Seq(R)
  BY SeriesIsSeq
<1> HIDE DEF R
<1>2. SubSeq(s, 1, n) \in Seq(R) /\ Len(SubSeq(s, 1, n)) = n
  BY ONLY <1>1, n \in Nat, n <= Len(s), SubSeqProperties
<1> QED  BY <1>2, SeqIsSeries

-----------------------------------------------------------------------------
(* Orders.                                                                 *)

SameTerms(o, p) ==
    /\ p.type = o.type /\ p.side = o.side /\ p.limit = o.limit /\ p.stop = o.stop
    /\ p.submit = o.submit

LEMMA TermsAreSame == ASSUME NEW o, NEW p, NEW q
                      PROVE  /\ SameTerms(o, o)
                             /\ SameTerms(o, p) /\ SameTerms(p, q) => SameTerms(o, q)
BY DEF SameTerms

\* The marks an order comes to: filled, canceled or rejected.
LEMMA Ended ==
    ASSUME NEW o, SoundOrder(o), Undecided(o)
    PROVE  /\ LET p == [o EXCEPT !.active = TRUE] IN SoundOrder(p) /\ SameTerms(o, p)
           /\ \A x : LET p == [o EXCEPT !.active = TRUE, !.shown = x]
                     IN  SoundOrder(p) /\ SameTerms(o, p)
           /\ IsTrade(o) => LET p == [o EXCEPT !.canceled = TRUE] IN SoundOrder(p) /\ SameTerms(o, p)
           /\ IsTrade(o) => LET p == [o EXCEPT !.rejected = TRUE] IN SoundOrder(p) /\ SameTerms(o, p)
<1>1. LET p == [o EXCEPT !.active = TRUE] IN SoundOrder(p) /\ SameTerms(o, p)
  BY DEF SoundOrder, Undecided, IsTrade, IsOrder, OrderFields, SameTerms
<1>2. ASSUME IsTrade(o)
      PROVE  LET p == [o EXCEPT !.canceled = TRUE] IN SoundOrder(p) /\ SameTerms(o, p)
  BY <1>2 DEF SoundOrder, Undecided, IsTrade, IsOrder, OrderFields, SameTerms
<1>3. ASSUME IsTrade(o)
      PROVE  LET p == [o EXCEPT !.rejected = TRUE] IN SoundOrder(p) /\ SameTerms(o, p)
  BY <1>3 DEF SoundOrder, Undecided, IsTrade, IsOrder, OrderFields, SameTerms
<1>4. ASSUME NEW x
      PROVE  LET p == [o EXCEPT !.active = TRUE, !.shown = x] IN SoundOrder(p) /\ SameTerms(o, p)
  BY DEF SoundOrder, Undecided, IsTrade, IsOrder, OrderFields, SameTerms
<1> QED  BY <1>1, <1>2, <1>3, <1>4

\* What a scan writes on an order that has not ended.
LEMMA Marked ==
    ASSUME NEW o, SoundOrder(o), Undecided(o)
    PROVE  /\ \A q \in Nat : q <= o.qty /\ o.qty \in Nat =>
                 LET p == [o EXCEPT !.qty = q] IN SoundOrder(p) /\ SameTerms(o, p) /\ Undecided(p)
           /\ \A b : LET p == [o EXCEPT !.armed = b]
                     IN SoundOrder(p) /\ SameTerms(o, p) /\ Undecided(p)
           /\ \A t \in o.submit .. Len(bars), price \in Int :
                 LET p == [o EXCEPT !.time = t, !.price = price]
                 IN  SoundOrder(p) /\ SameTerms(o, p) /\ Undecided(p) /\ p.qty = o.qty
<1>1. ASSUME NEW q \in Nat, q <= o.qty, o.qty \in Nat
      PROVE  LET p == [o EXCEPT !.qty = q] IN SoundOrder(p) /\ SameTerms(o, p) /\ Undecided(p)
  BY <1>1 DEF SoundOrder, Undecided, IsTrade, IsOrder, OrderFields, SameTerms
<1>2. ASSUME NEW b
      PROVE  LET p == [o EXCEPT !.armed = b] IN SoundOrder(p) /\ SameTerms(o, p) /\ Undecided(p)
  BY DEF SoundOrder, Undecided, IsTrade, IsOrder, OrderFields, SameTerms
<1>3. ASSUME NEW t \in o.submit .. Len(bars), NEW price \in Int
      PROVE  LET p == [o EXCEPT !.time = t, !.price = price]
             IN  SoundOrder(p) /\ SameTerms(o, p) /\ Undecided(p) /\ p.qty = o.qty
  BY DEF SoundOrder, Undecided, IsTrade, IsOrder, OrderFields, SameTerms
<1> QED  BY <1>1, <1>2, <1>3

-----------------------------------------------------------------------------
(* The book.                                                               *)

\* d has the orders of r, with other marks on them.
Follows(r, d) ==
    /\ IsSeries(d.orders) /\ Len(d.orders) = Len(r.orders)
    /\ \A k \in 1 .. Len(r.orders) : /\ SoundOrder(d.orders[k])
                                     /\ SameTerms(r.orders[k], d.orders[k])
\* What a step of the replay leaves alone, own orders apart.
Kept(r, d, own) ==
    /\ d.c = r.c /\ d.sources = r.sources /\ Len(r.orders) <= Len(d.orders)
    /\ d.active \subseteq r.active \cup own
    /\ \A k \in 1 .. Len(r.orders) :
          /\ d.orders[k].submit = r.orders[k].submit /\ d.orders[k].type = r.orders[k].type
          /\ k \notin r.active \cup own => d.orders[k] = r.orders[k]

LEMMA KeptItself == ASSUME NEW r, Len(r.orders) \in Nat, NEW own  PROVE Kept(r, r, own)
BY DEF Kept

LEMMA KeptOn ==
    ASSUME NEW r, NEW d, NEW e, NEW own, Len(r.orders) \in Nat, Len(d.orders) \in Nat,
           Len(e.orders) \in Nat, Kept(r, d, own), Kept(d, e, own)
    PROVE  Kept(r, e, own)
BY DEF Kept

LEMMA KeptMore ==
    ASSUME NEW r, NEW d, NEW own, NEW more, Kept(r, d, own), own \subseteq more
    PROVE  Kept(r, d, more)
BY DEF Kept

LEMMA FreshKept ==
    ASSUME NEW r, NEW d, NEW own, Len(r.orders) \in Nat, Len(d.orders) \in Nat, Kept(r, d, own),
           NEW k, Fresh(r, k), k \notin own
    PROVE  Fresh(d, k) /\ d.orders[k] = r.orders[k]
BY DEF Kept, Fresh

LEMMA SameThresholds ==
    ASSUME NEW c, NEW o, NEW p, SameTerms(o, p)
    PROVE  Thresholds(c, p) = Thresholds(c, o)
BY DEF SameTerms, Thresholds

\* A step that marks orders and takes some off the book keeps the rest of it.
LEMMA BookKept ==
    ASSUME NEW r, NEW d, NEW i, NEW S, NEW T, Orders(r, i), Heap(r, S), S \subseteq T,
           Follows(r, d),
           d.c = r.c, d.sources = r.sources, IsSeries(d.version), Len(d.version) = Len(r.version),
           d.active \subseteq r.active, r.heap \subseteq d.heap,
           \A k \in d.active : Undecided(d.orders[k]) /\ (k \notin T => d.version[k] = r.version[k])
    PROVE  Orders(d, i) /\ Heap(d, T)
<1>1. Len(r.orders) \in Nat
  BY DEF Orders, IsSeries
<1>2. Orders(d, i)
  <2>1. \A k \in d.active : /\ k \in 1 .. Len(d.orders) /\ IsTrade(d.orders[k])
                            /\ Undecided(d.orders[k]) /\ d.orders[k].submit <= i
    <3> SUFFICES ASSUME NEW k \in d.active
                 PROVE  /\ k \in 1 .. Len(d.orders) /\ IsTrade(d.orders[k])
                        /\ Undecided(d.orders[k]) /\ d.orders[k].submit <= i
      OBVIOUS
    <3>1. /\ k \in 1 .. Len(r.orders) /\ IsTrade(r.orders[k]) /\ r.orders[k].submit <= i
      BY DEF Orders
    <3>2. SameTerms(r.orders[k], d.orders[k]) /\ Len(d.orders) = Len(r.orders)
      BY <3>1 DEF Follows
    <3> QED  BY <3>1, <3>2 DEF SameTerms, IsTrade
  <2>2. /\ IsSeries(d.orders) /\ \A k \in 1 .. Len(d.orders) : SoundOrder(d.orders[k])
        /\ Len(d.orders) = Len(r.orders)
    BY DEF Follows
  <2>3. r.sources \in 0 .. Len(r.orders) /\ Len(r.version) = Len(r.orders)
    BY DEF Orders
  <2> QED  BY <2>1, <2>2, <2>3 DEF Orders
<1>3. Heap(d, T)
  <2> SUFFICES ASSUME NEW k \in d.active \ T, NEW t \in Thresholds(d.c, d.orders[k])
               PROVE  Entry(d, k, t) \in d.heap
    BY DEF Heap, Indexed
  <2>1. k \in r.active \ S /\ k \in 1 .. Len(r.orders)
    BY DEF Orders
  <2>2. t \in Thresholds(r.c, r.orders[k])
    BY <2>1, SameThresholds DEF Follows
  <2>3. Entry(r, k, t) \in r.heap
    BY <2>1, <2>2 DEF Heap, Indexed
  <2>4. Entry(d, k, t) = Entry(r, k, t)
    BY DEF Entry
  <2> QED  BY <2>3, <2>4
<1> QED  BY <1>2, <1>3

LEMMA SoundOn ==
    ASSUME NEW r, NEW i, NEW S, Sound(r, i, S), NEW d, IsReplay(d), NEW j, NEW T,
           SameMoney(r, d), d.size = r.size, SameLocks(r, d), SameRest(r, d),
           Orders(d, j), Heap(d, T)
    PROVE  Sound(d, j, T)
<1>1. Balanced(d, d.size)
  BY DEF Sound, Balanced, SameMoney
<1>2. Locks(d)
  BY DEF Sound, Locks, SameLocks, SameRest
<1> QED  BY <1>1, <1>2 DEF Sound, SameRest

LEMMA SoundIs ==
    ASSUME NEW r, NEW i, NEW S, Sound(r, i, S)
    PROVE  /\ IsReplay(r) /\ r.c \in Config /\ Orders(r, i) /\ Heap(r, S)
           /\ Len(r.orders) \in Nat /\ IsSeries(r.orders) /\ IsSeries(r.version)
           /\ Len(r.version) = Len(r.orders) /\ r.size \in Int /\ r.lots \in Seq(Lot)
           /\ r.size = Held(r.lots) /\ OfSide(r.lots, SideOf(r.size))
           /\ \A k \in 1 .. Len(r.orders) : SoundOrder(r.orders[k])
           /\ \A k \in r.active : /\ k \in 1 .. Len(r.orders) /\ IsTrade(r.orders[k])
                                  /\ Undecided(r.orders[k]) /\ r.orders[k].submit <= i
BY DEF Sound, Orders, IsSeries, Balanced

LEMMA SoundMore ==
    ASSUME NEW r, NEW i, NEW S, Sound(r, i, S), NEW T, S \subseteq T
    PROVE  Sound(r, i, T)
BY DEF Sound, Heap

LEMMA SoundLater ==
    ASSUME NEW r, NEW i \in Nat, NEW j \in Nat, i <= j, NEW S, Sound(r, i, S)
    PROVE  Sound(r, j, S)
<1>1. Orders(r, i)
  BY DEF Sound
<1>2. Orders(r, j)
  <2>1. \A k \in r.active : r.orders[k].submit \in Nat
    BY <1>1 DEF Orders, SoundOrder
  <2>2. \A k \in r.active : r.orders[k].submit <= j
    BY <1>1, <2>1 DEF Orders
  <2> QED  BY <1>1, <2>2 DEF Orders
<1> QED  BY <1>2 DEF Sound

\* An order is replaced by one with the same terms.
Put(r, k, o) == [r EXCEPT !.orders = [r.orders EXCEPT ![k] = o]]

LEMMA PutIs ==
    ASSUME NEW r, NEW i, NEW S, Sound(r, i, S), NEW k \in 1 .. Len(r.orders),
           NEW o, SoundOrder(o), SameTerms(r.orders[k], o), k \in r.active => Undecided(o)
    PROVE  LET d == Put(r, k, o)
           IN  /\ Sound(d, i, S) /\ d.active = r.active /\ d.out = r.out /\ d.orders[k] = o
               /\ Len(d.orders) = Len(r.orders) /\ d.size = r.size /\ d.lots = r.lots
               /\ SameLocks(r, d) /\ Kept(r, d, {k}) /\ (k \in r.active => Kept(r, d, {}))
<1> DEFINE d == Put(r, k, o)
           t == [r.orders EXCEPT ![k] = o]
<1>1. /\ IsReplay(r) /\ Orders(r, i) /\ Heap(r, S) /\ IsSeries(r.orders) /\ IsSeries(r.version)
      /\ Len(r.orders) \in Nat /\ \A j \in 1 .. Len(r.orders) : SoundOrder(r.orders[j])
  BY SoundIs
<1>2. /\ IsSeries(t) /\ Len(t) = Len(r.orders) /\ t[k] = o
      /\ \A j \in 1 .. Len(r.orders) : j # k => t[j] = r.orders[j]
  <2>1. IsSeries(r.orders) /\ k \in 1 .. Len(r.orders)
    BY <1>1
  <2> QED  BY ONLY <2>1, SeriesPut DEF t
<1> HIDE DEF t
<1>3. /\ IsReplay(d) /\ d.orders = t /\ d.sources = r.sources /\ d.active = r.active
      /\ d.heap = r.heap /\ d.version = r.version /\ d.size = r.size
      /\ SameMoney(r, d) /\ SameLocks(r, d) /\ SameRest(r, d)
  BY <1>1 DEF Put, IsReplay, Fields, SameMoney, SameLocks, SameRest, t
<1> HIDE DEF d
<1>4. Follows(r, d)
  BY <1>1, <1>2, <1>3, TermsAreSame DEF Follows
<1>5. \A j \in d.active : Undecided(d.orders[j])
  BY <1>1, <1>2, <1>3 DEF Orders
<1>6. Orders(d, i) /\ Heap(d, S)
  BY <1>1, <1>3, <1>4, <1>5, BookKept DEF SameRest
<1>7. Sound(d, i, S)
  BY <1>3, <1>6, SoundOn
<1>8. Kept(r, d, {k}) /\ (k \in r.active => Kept(r, d, {}))
  BY <1>1, <1>2, <1>3, <1>4 DEF Kept, SameRest, Follows, SameTerms
<1> QED  BY <1>2, <1>3, <1>7, <1>8 DEF SameMoney, SameRest, d

LEMMA PutOnBook ==
    ASSUME NEW r, NEW i, NEW S, Sound(r, i, S), NEW k, k \in r.active,
           NEW o, SoundOrder(o), SameTerms(r.orders[k], o), Undecided(o)
    PROVE  LET d == Put(r, k, o)
           IN  /\ Sound(d, i, S) /\ d.active = r.active /\ d.out = r.out /\ d.orders[k] = o
               /\ Len(d.orders) = Len(r.orders) /\ SameLocks(r, d) /\ Kept(r, d, {})
<1>1. k \in 1 .. Len(r.orders)
  BY SoundIs
<1>2. k \in r.active => Undecided(o)
  OBVIOUS
<1>3. Sound(r, i, S) /\ SoundOrder(o) /\ SameTerms(r.orders[k], o)
  OBVIOUS
<1>4. LET d == Put(r, k, o)
      IN  /\ Sound(d, i, S) /\ d.active = r.active /\ d.out = r.out /\ d.orders[k] = o
          /\ Len(d.orders) = Len(r.orders) /\ SameLocks(r, d) /\ Kept(r, d, {k})
  BY ONLY <1>1, <1>2, <1>3, PutIs
<1> DEFINE d == Put(r, k, o)
<1>5. d = Put(r, k, o)
  OBVIOUS
<1> HIDE DEF d
<1>6. k \in r.active => Kept(r, d, {})
  BY <1>1, <1>2, <1>5, PutIs
<1> QED  BY <1>4, <1>6 DEF d

\* Orders are taken off the book, canceled.
LEMMA CanceledAllIs ==
    ASSUME NEW r, NEW i, NEW S, Sound(r, i, S), NEW gone, gone \subseteq r.active
    PROVE  LET d == CanceledAll(r, gone)
           IN  /\ Sound(d, i, S) /\ d.active = r.active \ gone /\ d.out = r.out
               /\ Len(d.orders) = Len(r.orders) /\ d.size = r.size /\ d.lots = r.lots
               /\ SameLocks(r, d) /\ Kept(r, d, {})
<1> DEFINE d == CanceledAll(r, gone)
           t == Canceled(r.orders, gone)
           v == Outdated(r.version, gone)
<1>1. /\ IsReplay(r) /\ Orders(r, i) /\ Heap(r, S) /\ IsSeries(r.orders) /\ IsSeries(r.version)
      /\ Len(r.orders) \in Nat /\ Len(r.version) = Len(r.orders)
      /\ \A k \in 1 .. Len(r.orders) : SoundOrder(r.orders[k])
      /\ \A k \in r.active : /\ k \in 1 .. Len(r.orders) /\ IsTrade(r.orders[k])
                             /\ Undecided(r.orders[k])
  BY SoundIs
<1>2. DOMAIN r.orders = 1 .. Len(r.orders) /\ DOMAIN r.version = 1 .. Len(r.orders)
  BY <1>1 DEF IsSeries
<1>3. /\ IsSeries(t) /\ Len(t) = Len(r.orders)
      /\ \A k \in 1 .. Len(r.orders) :
            t[k] = IF k \in gone THEN [r.orders[k] EXCEPT !.canceled = TRUE] ELSE r.orders[k]
  <2>1. t = [k \in 1 .. Len(r.orders) |->
               IF k \in gone THEN [r.orders[k] EXCEPT !.canceled = TRUE] ELSE r.orders[k]]
    BY <1>2 DEF Canceled
  <2> HIDE DEF t
  <2>2. t = [k \in 1 .. Len(r.orders) |-> t[k]]
    BY ONLY <2>1
  <2> QED  BY <1>1, <2>1, <2>2, FunctionIsSeries
<1>4. /\ IsSeries(v) /\ Len(v) = Len(r.orders)
      /\ \A k \in 1 .. Len(r.orders) : k \notin gone => v[k] = r.version[k]
  <2>1. v = [k \in 1 .. Len(r.orders) |-> IF k \in gone THEN r.version[k] + 1 ELSE r.version[k]]
    BY <1>2 DEF Outdated
  <2> HIDE DEF v
  <2>2. v = [k \in 1 .. Len(r.orders) |-> v[k]]
    BY ONLY <2>1
  <2> QED  BY <1>1, <2>1, <2>2, FunctionIsSeries
<1> HIDE DEF t, v
<1>5. /\ IsReplay(d) /\ d.orders = t /\ d.sources = r.sources /\ d.active = r.active \ gone
      /\ d.heap = r.heap /\ d.version = v /\ d.size = r.size
      /\ SameMoney(r, d) /\ SameLocks(r, d) /\ SameRest(r, d)
  BY <1>1 DEF CanceledAll, IsReplay, Fields, SameMoney, SameLocks, SameRest, t, v
<1> HIDE DEF d
<1>6. Follows(r, d)
  <2> SUFFICES ASSUME NEW k \in 1 .. Len(r.orders)
               PROVE  SoundOrder(t[k]) /\ SameTerms(r.orders[k], t[k])
    BY <1>3, <1>5 DEF Follows
  <2>1. CASE k \in gone
    BY <1>1, <1>3, <2>1, Ended
  <2>2. CASE k \notin gone
    BY <1>1, <1>3, <2>2, TermsAreSame
  <2> QED  BY <2>1, <2>2
<1>7. \A k \in d.active : Undecided(d.orders[k]) /\ d.version[k] = r.version[k]
  BY <1>1, <1>3, <1>4, <1>5
<1>8. Orders(d, i) /\ Heap(d, S)
  <2>1. /\ d.c = r.c /\ d.sources = r.sources /\ IsSeries(d.version)
        /\ Len(d.version) = Len(r.version) /\ d.active \subseteq r.active
        /\ r.heap \subseteq d.heap /\ S \subseteq S
    BY <1>1, <1>4, <1>5 DEF SameRest
  <2>2. \A k \in d.active : /\ Undecided(d.orders[k])
                            /\ k \notin S => d.version[k] = r.version[k]
    BY <1>7
  <2>3. Orders(r, i) /\ Heap(r, S)
    BY <1>1
  <2> QED  BY ONLY <1>6, <2>1, <2>2, <2>3, BookKept
<1>9. Sound(d, i, S)
  BY <1>5, <1>8, SoundOn
<1>10. Kept(r, d, {})
  <2>1. \A k \in 1 .. Len(r.orders) : k \notin r.active \cup {} => d.orders[k] = r.orders[k]
    BY <1>3, <1>5
  <2>2. \A k \in 1 .. Len(r.orders) :
           d.orders[k].submit = r.orders[k].submit /\ d.orders[k].type = r.orders[k].type
    BY <1>6 DEF Follows, SameTerms
  <2>3. d.c = r.c /\ d.sources = r.sources /\ Len(r.orders) <= Len(d.orders)
    BY <1>1, <1>3, <1>5 DEF SameRest
  <2>4. d.active \subseteq r.active \cup {}
    BY <1>5
  <2> QED  BY <2>1, <2>2, <2>3, <2>4 DEF Kept
<1> QED  BY <1>3, <1>5, <1>9, <1>10 DEF SameMoney, SameRest, d

\* An order on the book is pushed on the heaps under a new version.
LEMMA PushedIs ==
    ASSUME NEW r, NEW i, NEW S, Sound(r, i, S), NEW k \in r.active
    PROVE  LET d == Pushed(r, k)
           IN  /\ Sound(d, i, S \ {k}) /\ d.active = r.active /\ d.out = r.out
               /\ d.orders = r.orders /\ SameLocks(r, d) /\ Kept(r, d, {})
<1> DEFINE d == Pushed(r, k)
           new == r.version[k] + 1
           v == [r.version EXCEPT ![k] = new]
           more == {[list |-> t.list, key |-> Key(r.c, t), order |-> k, version |-> new] :
                       t \in Thresholds(r.c, r.orders[k])}
<1>1. /\ IsReplay(r) /\ Orders(r, i) /\ Heap(r, S) /\ IsSeries(r.orders) /\ IsSeries(r.version)
      /\ Len(r.orders) \in Nat /\ Len(r.version) = Len(r.orders) /\ k \in 1 .. Len(r.orders)
      /\ \A j \in 1 .. Len(r.orders) : SoundOrder(r.orders[j])
      /\ \A j \in r.active : Undecided(r.orders[j]) /\ j \in 1 .. Len(r.orders)
  BY SoundIs
<1>2. /\ IsSeries(v) /\ Len(v) = Len(r.orders) /\ v[k] = new
      /\ \A j \in 1 .. Len(r.orders) : j # k => v[j] = r.version[j]
  <2>1. IsSeries(r.version) /\ k \in 1 .. Len(r.version) /\ Len(r.version) = Len(r.orders)
    BY <1>1
  <2> HIDE DEF new
  <2> QED  BY ONLY <2>1, SeriesPut DEF v
<1>3. /\ IsReplay(d) /\ d.orders = r.orders /\ d.sources = r.sources /\ d.active = r.active
      /\ d.heap = r.heap \cup more /\ d.version = v /\ d.size = r.size
      /\ SameMoney(r, d) /\ SameLocks(r, d) /\ SameRest(r, d)
  <2> HIDE DEF more, v
  <2>1. d = [r EXCEPT !.version = v, !.heap = r.heap \cup more]
    BY DEF Pushed, more, v, IsReplay, Fields
  <2> QED  BY <1>1, <2>1, ZenonT(40) DEF IsReplay, Fields, SameMoney, SameLocks, SameRest
<1> HIDE DEF d, v
<1>4. Follows(r, d)
  BY <1>1, <1>3, TermsAreSame DEF Follows
<1>5. Orders(d, i) /\ Heap(d, S \cup {k})
  <2>1. r.heap \subseteq d.heap /\ S \subseteq S \cup {k}
    BY <1>3
  <2>2. \A j \in d.active : /\ Undecided(d.orders[j])
                            /\ j \notin S \cup {k} => d.version[j] = r.version[j]
    BY <1>1, <1>2, <1>3
  <2>3. /\ d.c = r.c /\ d.sources = r.sources /\ IsSeries(d.version)
        /\ Len(d.version) = Len(r.version) /\ d.active \subseteq r.active
    BY <1>1, <1>2, <1>3 DEF SameRest
  <2> QED  BY <1>1, <1>4, <2>1, <2>2, <2>3, BookKept
<1>6. Indexed(d, k)
  <2> SUFFICES ASSUME NEW t \in Thresholds(r.c, r.orders[k])  PROVE Entry(d, k, t) \in d.heap
    BY <1>3 DEF Indexed, SameRest
  <2>1. Entry(d, k, t) = [list |-> t.list, key |-> Key(r.c, t), order |-> k, version |-> new]
    BY <1>2, <1>3 DEF Entry, SameRest
  <2> QED  BY <1>3, <2>1
<1>7. Heap(d, S \ {k})
  BY <1>5, <1>6 DEF Heap
<1>8. Sound(d, i, S \ {k})
  BY <1>3, <1>5, <1>7, SoundOn
<1>9. Kept(r, d, {})
  BY <1>1, <1>3 DEF Kept, SameRest
<1> QED  BY <1>3, <1>8, <1>9 DEF SameRest, d

LEMMA ReindexedIs ==
    ASSUME NEW r, NEW i, NEW S, Sound(r, i, S), NEW k
    PROVE  LET d == Reindexed(r, k)
           IN  /\ Sound(d, i, S \ {k}) /\ d.active = r.active /\ d.out = r.out
               /\ d.orders = r.orders /\ SameLocks(r, d) /\ Kept(r, d, {})
<1>1. CASE k \in r.active
  BY <1>1, PushedIs DEF Reindexed
<1>2. CASE k \notin r.active
  <2>1. Heap(r, S \ {k})
    BY <1>2 DEF Sound, Heap
  <2>2. Sound(r, i, S \ {k})
    BY <2>1 DEF Sound
  <2> QED  BY <1>2, <2>2, KeptItself, SoundIs DEF Reindexed, SameLocks
<1> QED  BY <1>1, <1>2

\* An order with the same id and type gives way to a new one.
LEMMA AddedIs ==
    ASSUME NEW r, NEW i, NEW k, Sound(r, i, {}), Fresh(r, k), IsTrade(r.orders[k]),
           r.orders[k].submit <= i
    PROVE  LET d == Added(r, k)
           IN  Sound(d, i, {}) /\ d.out = r.out /\ SameLocks(r, d) /\ Kept(r, d, {k})
<1> DEFINE o == r.orders[k]
           same == {j \in r.active : r.orders[j].id = o.id /\ r.orders[j].type = o.type}
           grouped(j, p) == /\ o.type = "order" /\ r.orders[j].oca = "cancel"
                            /\ SameGroup(r.orders[j], r.orders[p])
                            /\ ~SameGroup(r.orders[j], o)
           gone == same \cup {p \in r.active : \E j \in same : grouped(j, p)}
           b == CanceledAll(r, gone)
           a == [b EXCEPT !.active = @ \cup {k}]
           d == Added(r, k)
<1>1. d = Pushed(a, k)
  BY DEF Added
<1>2. gone \subseteq r.active
  OBVIOUS
<1> HIDE DEF gone
<1>3. /\ Sound(b, i, {}) /\ b.active = r.active \ gone /\ b.out = r.out
      /\ Len(b.orders) = Len(r.orders) /\ SameLocks(r, b) /\ Kept(r, b, {})
  BY <1>2, CanceledAllIs
<1> HIDE DEF b
<1>4. Fresh(b, k) /\ b.orders[k] = r.orders[k] /\ Len(b.orders) \in Nat
  BY <1>3, FreshKept, SoundIs
<1>5. IsReplay(b)
  BY <1>3 DEF Sound
<1>6. /\ IsReplay(a) /\ a.active = b.active \cup {k} /\ SameMoney(b, a) /\ SameLocks(b, a)
      /\ SameRest(b, a) /\ a.size = b.size /\ a.orders = b.orders /\ a.version = b.version
      /\ a.heap = b.heap /\ a.sources = b.sources
  BY <1>5 DEF IsReplay, Fields, SameMoney, SameLocks, SameRest
<1> HIDE DEF a
<1>7. Orders(a, i)
  BY <1>3, <1>4, <1>6 DEF Sound, Orders, Fresh
<1>8. Heap(a, {k})
  BY <1>3, <1>6 DEF Sound, Heap, Indexed, Entry, SameRest
<1>9. Sound(a, i, {k})
  BY <1>3, <1>6, <1>7, <1>8, SoundOn
<1>10. /\ Sound(d, i, {}) /\ d.active = a.active /\ d.out = a.out /\ d.orders = a.orders
       /\ SameLocks(a, d) /\ Kept(a, d, {})
  <2>1. {k} \ {k} = {}
    OBVIOUS
  <2>2. k \in a.active
    BY <1>6
  <2> QED  BY <1>1, <1>9, <2>1, <2>2, PushedIs
<1>11. Kept(b, a, {k})
  BY <1>4, <1>6 DEF Kept, SameRest
<1>12. Kept(r, d, {k})
  <2>1. Len(r.orders) \in Nat /\ Len(a.orders) \in Nat /\ Len(d.orders) \in Nat
    BY <1>3, <1>4, <1>6, <1>10
  <2>2. Kept(r, b, {k}) /\ Kept(a, d, {k})
    BY <1>3, <1>10, KeptMore
  <2>3. Kept(r, a, {k})
    BY <1>4, <1>11, <2>1, <2>2, KeptOn
  <2> QED  BY <2>1, <2>2, <2>3, KeptOn
<1> QED  BY <1>3, <1>6, <1>10, <1>12 DEF SameLocks, SameRest, d

LEMMA RemovedIs ==
    ASSUME NEW r, IsReplay(r), NEW k \in r.active, IsSeries(r.version), k \in 1 .. Len(r.version)
    PROVE  LET d == Removed(r, k)
           IN  /\ IsReplay(d) /\ d.orders = r.orders /\ d.sources = r.sources
               /\ d.active = r.active \ {k} /\ d.heap = r.heap /\ d.size = r.size
               /\ IsSeries(d.version) /\ Len(d.version) = Len(r.version)
               /\ \A j \in 1 .. Len(r.version) : j # k => d.version[j] = r.version[j]
               /\ SameMoney(r, d) /\ SameLocks(r, d) /\ SameRest(r, d)
<1> DEFINE d == Removed(r, k)
           new == r.version[k] + 1
           v == [r.version EXCEPT ![k] = new]
<1>1. /\ IsSeries(v) /\ Len(v) = Len(r.version)
      /\ \A j \in 1 .. Len(r.version) : j # k => v[j] = r.version[j]
  <2> HIDE DEF new
  <2> QED  BY ONLY IsSeries(r.version), k \in 1 .. Len(r.version), SeriesPut DEF v
<1>2. /\ IsReplay(d) /\ d.orders = r.orders /\ d.sources = r.sources
      /\ d.active = r.active \ {k} /\ d.heap = r.heap /\ d.size = r.size /\ d.version = v
      /\ SameMoney(r, d) /\ SameLocks(r, d) /\ SameRest(r, d)
  <2> HIDE DEF v
  <2>1. d = [r EXCEPT !.active = r.active \ {k}, !.version = v]
    BY DEF Removed, v, IsReplay, Fields
  <2> QED  BY <2>1, ZenonT(40) DEF IsReplay, Fields, SameMoney, SameLocks, SameRest
<1> QED  BY <1>1, <1>2

\* An order that has come to its end is taken off the book.
LEMMA EndedAndRemoved ==
    ASSUME NEW r, NEW i, NEW S, Sound(r, i, S), NEW k \in r.active,
           NEW e, IsReplay(e), NEW o, SoundOrder(o), SameTerms(r.orders[k], o),
           e.orders = [r.orders EXCEPT ![k] = o],
           e.sources = r.sources, e.active = r.active, e.heap = r.heap, e.version = r.version,
           SameRest(r, e), Balanced(e, e.size), Locks(e)
    PROVE  LET d == Removed(e, k)
           IN  /\ Sound(d, i, S \ {k}) /\ d.active = r.active \ {k} /\ d.out = r.out
               /\ SameLocks(e, d) /\ Kept(r, d, {}) /\ d.orders = e.orders
<1> DEFINE d == Removed(e, k)
           t == [r.orders EXCEPT ![k] = o]
<1>1. /\ IsReplay(r) /\ Orders(r, i) /\ Heap(r, S) /\ IsSeries(r.orders) /\ IsSeries(r.version)
      /\ Len(r.orders) \in Nat /\ Len(r.version) = Len(r.orders) /\ k \in 1 .. Len(r.orders)
      /\ \A j \in 1 .. Len(r.orders) : SoundOrder(r.orders[j])
      /\ \A j \in r.active : Undecided(r.orders[j]) /\ j \in 1 .. Len(r.orders)
  BY SoundIs
<1>2. /\ IsSeries(t) /\ Len(t) = Len(r.orders) /\ t[k] = o
      /\ \A j \in 1 .. Len(r.orders) : j # k => t[j] = r.orders[j]
  <2>1. IsSeries(r.orders) /\ k \in 1 .. Len(r.orders)
    BY <1>1
  <2> QED  BY ONLY <2>1, SeriesPut DEF t
<1> HIDE DEF t
<1>3. /\ IsReplay(d) /\ d.orders = e.orders /\ d.sources = e.sources
      /\ d.active = e.active \ {k} /\ d.heap = e.heap /\ d.size = e.size
      /\ IsSeries(d.version) /\ Len(d.version) = Len(e.version)
      /\ \A j \in 1 .. Len(e.version) : j # k => d.version[j] = e.version[j]
      /\ SameMoney(e, d) /\ SameLocks(e, d) /\ SameRest(e, d)
  <2>1. k \in e.active /\ IsSeries(e.version) /\ k \in 1 .. Len(e.version)
    BY <1>1
  <2> QED  BY <2>1, RemovedIs
<1> HIDE DEF d
<1>4. d.orders = t
  BY <1>3 DEF t
<1>5. Follows(r, d)
  BY <1>1, <1>2, <1>4, TermsAreSame DEF Follows
<1>6. Orders(d, i) /\ Heap(d, S)
  <2>1. /\ d.c = r.c /\ d.sources = r.sources /\ Len(d.version) = Len(r.version)
        /\ d.active \subseteq r.active /\ r.heap \subseteq d.heap /\ S \subseteq S
    BY <1>3 DEF SameRest
  <2>2. \A j \in d.active : Undecided(d.orders[j]) /\ d.version[j] = r.version[j]
    BY <1>1, <1>2, <1>3, <1>4
  <2> QED  BY <1>1, <1>3, <1>5, <2>1, <2>2, BookKept
<1>7. Heap(d, S \ {k})
  BY <1>3, <1>6 DEF Heap
<1>8. Sound(d, i, S \ {k})
  <2>1. Balanced(d, d.size) /\ Locks(d)
    BY <1>3 DEF Balanced, Locks, SameMoney, SameLocks, SameRest
  <2> QED  BY <1>3, <1>6, <1>7, <2>1 DEF Sound, SameRest
<1>9. Kept(r, d, {})
  BY <1>1, <1>2, <1>3, <1>4, <1>5 DEF Kept, SameRest, Follows, SameTerms
<1> QED  BY <1>3, <1>8, <1>9 DEF SameRest, d

\* A sibling of a filled order gets smaller, and is canceled when nothing is left.
LEMMA ReducedIs ==
    ASSUME NEW r, NEW i, NEW S, Sound(r, i, S), NEW siblings, siblings \subseteq r.active,
           NEW q \in Nat
    PROVE  LET d == Reduced(r, siblings, q)
           IN  /\ Sound(d, i, S) /\ d.active \subseteq r.active /\ d.out = r.out
               /\ SameLocks(r, d) /\ Kept(r, d, {})
<1> DEFINE t == LessFilled(r.orders, siblings, q)
           b == [r EXCEPT !.orders = LessFilled(@, siblings, q)]
           gone == {j \in siblings : b.orders[j].qty = 0}
           d == Reduced(r, siblings, q)
<1>1. /\ IsReplay(r) /\ Orders(r, i) /\ Heap(r, S) /\ IsSeries(r.orders) /\ IsSeries(r.version)
      /\ Len(r.orders) \in Nat /\ Len(r.version) = Len(r.orders)
      /\ \A k \in 1 .. Len(r.orders) : SoundOrder(r.orders[k])
      /\ \A k \in r.active : /\ k \in 1 .. Len(r.orders) /\ IsTrade(r.orders[k])
                             /\ Undecided(r.orders[k])
  BY SoundIs
<1>2. /\ IsSeries(t) /\ Len(t) = Len(r.orders)
      /\ \A k \in 1 .. Len(r.orders) :
            t[k] = IF k \in siblings THEN [r.orders[k] EXCEPT !.qty = Max2(r.orders[k].qty - q, 0)]
                   ELSE r.orders[k]
  <2>1. t = [k \in 1 .. Len(r.orders) |->
               IF k \in siblings THEN [r.orders[k] EXCEPT !.qty = Max2(r.orders[k].qty - q, 0)]
               ELSE r.orders[k]]
    BY <1>1 DEF LessFilled, IsSeries
  <2> HIDE DEF t
  <2>2. t = [k \in 1 .. Len(r.orders) |-> t[k]]
    BY ONLY <2>1
  <2> QED  BY <1>1, <2>1, <2>2, FunctionIsSeries
<1> HIDE DEF t
<1>3. /\ IsReplay(b) /\ b.orders = t /\ b.sources = r.sources /\ b.active = r.active
      /\ b.heap = r.heap /\ b.version = r.version /\ b.size = r.size
      /\ SameMoney(r, b) /\ SameLocks(r, b) /\ SameRest(r, b)
  BY <1>1 DEF IsReplay, Fields, SameMoney, SameLocks, SameRest, t
<1>4. d = CanceledAll(b, gone)
  BY DEF Reduced
<1>5. gone \subseteq b.active
  BY <1>3
<1> HIDE DEF b, gone
<1>6. \A k \in 1 .. Len(r.orders) :
         /\ SoundOrder(t[k]) /\ SameTerms(r.orders[k], t[k])
         /\ k \in r.active => Undecided(t[k])
  <2> SUFFICES ASSUME NEW k \in 1 .. Len(r.orders)
               PROVE  /\ SoundOrder(t[k]) /\ SameTerms(r.orders[k], t[k])
                      /\ k \in r.active => Undecided(t[k])
    OBVIOUS
  <2>1. CASE k \in siblings
    <3>1. SoundOrder(r.orders[k]) /\ Undecided(r.orders[k]) /\ IsTrade(r.orders[k])
      BY <1>1, <2>1
    <3>2. r.orders[k].qty \in Nat
      BY <3>1 DEF SoundOrder
    <3>3. Max2(r.orders[k].qty - q, 0) \in Nat /\ Max2(r.orders[k].qty - q, 0) <= r.orders[k].qty
      BY <3>2 DEF Max2
    <3>4. PICK m \in Nat : m = Max2(r.orders[k].qty - q, 0) /\ m <= r.orders[k].qty
      BY <3>3
    <3>5. t[k] = [r.orders[k] EXCEPT !.qty = m]
      BY <1>2, <2>1, <3>4
    <3>6. LET p == [r.orders[k] EXCEPT !.qty = m]
          IN  SoundOrder(p) /\ SameTerms(r.orders[k], p) /\ Undecided(p)
      BY <3>1, <3>2, <3>4, Marked
    <3> QED  BY <3>5, <3>6
  <2>2. CASE k \notin siblings
    BY <1>1, <1>2, <2>2, TermsAreSame
  <2> QED  BY <2>1, <2>2
<1>7. Follows(r, b)
  BY <1>2, <1>3, <1>6 DEF Follows
<1>8. Orders(b, i) /\ Heap(b, S)
  <2>1. /\ b.c = r.c /\ b.sources = r.sources /\ IsSeries(b.version)
        /\ Len(b.version) = Len(r.version) /\ b.active \subseteq r.active
        /\ r.heap \subseteq b.heap /\ S \subseteq S
    BY <1>1, <1>3 DEF SameRest
  <2>2. \A k \in b.active : Undecided(b.orders[k]) /\ b.version[k] = r.version[k]
    BY <1>1, <1>3, <1>6
  <2> QED  BY <1>1, <1>7, <2>1, <2>2, BookKept
<1>9. Sound(b, i, S)
  BY <1>3, <1>8, SoundOn
<1> HIDE DEF d
<1>10. /\ Sound(d, i, S) /\ d.active = b.active \ gone /\ d.out = b.out
       /\ Len(d.orders) = Len(b.orders) /\ SameLocks(b, d) /\ Kept(b, d, {})
  BY ONLY <1>4, <1>5, <1>9, CanceledAllIs
<1>11. Kept(r, b, {})
  <2>1. \A k \in 1 .. Len(r.orders) : k \notin r.active \cup {} => b.orders[k] = r.orders[k]
    BY <1>2, <1>3
  <2>2. \A k \in 1 .. Len(r.orders) :
           b.orders[k].submit = r.orders[k].submit /\ b.orders[k].type = r.orders[k].type
    BY <1>3, <1>6 DEF SameTerms
  <2>3. b.c = r.c /\ b.sources = r.sources /\ Len(r.orders) <= Len(b.orders)
    BY <1>1, <1>2, <1>3 DEF SameRest
  <2>4. b.active \subseteq r.active \cup {}
    BY <1>3
  <2> QED  BY <2>1, <2>2, <2>3, <2>4 DEF Kept
<1>12. Kept(r, d, {})
  BY <1>1, <1>2, <1>3, <1>10, <1>11, KeptOn
<1> QED  BY <1>3, <1>10, <1>12 DEF SameLocks, SameRest, d

LEMMA OcaAppliedIs ==
    ASSUME NEW r, NEW i, NEW S, Sound(r, i, S), NEW k, r.orders[k].qty \in Nat
    PROVE  LET d == OcaSettled(r, k)
           IN  /\ Sound(d, i, S) /\ d.active \subseteq r.active /\ d.out = r.out
               /\ SameLocks(r, d) /\ Kept(r, d, {})
<1> DEFINE siblings == {j \in r.active \ {k} : SameGroup(r.orders[k], r.orders[j])}
<1>1. siblings \subseteq r.active
  OBVIOUS
<1>2. OcaSettled(r, k) = IF r.orders[k].oca = "cancel" THEN CanceledAll(r, siblings)
                         ELSE Reduced(r, siblings, r.orders[k].qty)
  BY DEF OcaSettled
<1> HIDE DEF siblings
<1>3. CASE r.orders[k].oca = "cancel"
  BY <1>1, <1>2, <1>3, CanceledAllIs
<1>4. CASE r.orders[k].oca # "cancel"
  BY <1>1, <1>2, <1>4, ReducedIs
<1> QED  BY <1>3, <1>4

-----------------------------------------------------------------------------
(* Fills.                                                                  *)

LEMMA RejectedIs ==
    ASSUME NEW r, NEW i, NEW S, Sound(r, i, S), NEW k \in 1 .. Len(r.orders),
           Undecided(r.orders[k]), IsTrade(r.orders[k]), k \notin r.active
    PROVE  LET d == Rejected(r, k)
           IN  Sound(d, i, S) /\ d.out = r.out /\ SameLocks(r, d) /\ Kept(r, d, {k})
<1> DEFINE p == [r.orders[k] EXCEPT !.rejected = TRUE]
<1>1. Rejected(r, k) = Put(r, k, p)
  BY DEF Rejected, Put
<1>2. SoundOrder(p) /\ SameTerms(r.orders[k], p)
  BY SoundIs, Ended
<1> HIDE DEF p
<1>3. /\ Sound(r, i, S) /\ k \in 1 .. Len(r.orders) /\ SoundOrder(p)
      /\ SameTerms(r.orders[k], p) /\ (k \in r.active => Undecided(p))
  BY <1>2
<1>4. LET d == Put(r, k, p)
      IN  Sound(d, i, S) /\ d.out = r.out /\ SameLocks(r, d) /\ Kept(r, d, {k})
  BY ONLY <1>3, PutIs
<1> QED  BY <1>1, <1>4

LEMMA SameBookKept ==
    ASSUME NEW r, NEW d, NEW i, NEW S, Orders(r, i), Heap(r, S), SameBook(r, d), d.c = r.c
    PROVE  Orders(d, i) /\ Heap(d, S)
BY DEF Orders, Heap, SameBook, Indexed, Entry

LEMMA CountedIs ==
    ASSUME NEW r, NEW i, NEW S, Sound(r, i, S), ~r.locked
    PROVE  LET d == CountedFill(r)
           IN  /\ Sound(d, i, S) /\ d.active = r.active /\ d.orders = r.orders /\ d.out = r.out
               /\ Kept(r, d, {})
<1> DEFINE d == CountedFill(r)
           hit == FilledHit(r.c, r.filled + 1)
<1>1. /\ IsReplay(r) /\ r.c \in Config /\ Locks(r) /\ Orders(r, i) /\ Heap(r, S)
      /\ Balanced(r, r.size) /\ ~r.missed /\ IsSeries(r.out) /\ Len(r.orders) \in Nat
  BY SoundIs DEF Sound
<1>2. /\ IsReplay(d) /\ SameMoney(r, d) /\ SameBook(r, d) /\ SameRest(r, d) /\ d.size = r.size
      /\ d.filled = r.filled + 1 /\ d.filledLocked = (r.filledLocked \/ hit)
      /\ d.locked = (r.locked \/ hit) /\ d.grew = r.grew
  BY <1>1 DEF CountedFill, IsReplay, Fields, SameMoney, SameBook, SameRest
<1>3. hit <=> r.c.maxFilled # Unlimited /\ r.filled + 1 >= r.c.maxFilled
  BY DEF FilledHit
<1> HIDE DEF d, hit
<1>4. Locks(d)
  <2>1. /\ r.filled \in Nat /\ ~r.filledLocked /\ ~r.grew /\ r.c.maxFilled \in Nat \cup {Unlimited}
        /\ r.c.maxFilled # Unlimited => r.filled < r.c.maxFilled
    BY <1>1, ConfigIs DEF Locks
  <2>2. d.filled \in Nat /\ ~d.grew /\ (d.filledLocked => d.locked)
    BY <1>2, <2>1
  <2>3. d.c.maxFilled # Unlimited => /\ d.filled <= d.c.maxFilled
                                     /\ ~d.filledLocked => d.filled < d.c.maxFilled
    <3>1. d.filledLocked <=> hit
      BY <1>2, <2>1
    <3> QED  BY <1>2, <1>3, <2>1, <3>1 DEF SameRest, Unlimited
  <2> QED  BY <2>2, <2>3 DEF Locks
<1>5. Balanced(d, d.size)
  BY <1>1, <1>2 DEF Balanced, SameMoney
<1>6. Orders(d, i) /\ Heap(d, S)
  BY <1>1, <1>2, SameBookKept DEF SameRest
<1>7. Sound(d, i, S)
  BY <1>1, <1>2, <1>4, <1>5, <1>6 DEF Sound, SameRest
<1>8. Kept(r, d, {})
  BY <1>1, <1>2 DEF Kept, SameRest, SameBook
<1> QED  BY <1>2, <1>7, <1>8 DEF SameBook, SameRest, d

LEMMA ToCloseBound ==
    ASSUME NEW r, r.size \in Int, NEW next \in Int
    PROVE  ToClose(r, next) \in Nat /\ ToClose(r, next) <= Size(r.size)
<1>1. Size(r.size) \in Nat /\ Size(next - r.size) \in Nat
  BY SideOfIs
<1> QED  BY <1>1 DEF ToClose, Min2

\* An order that trades makes of the position what it is told to.
LEMMA FilledIs ==
    ASSUME NEW r, NEW i, NEW S, Sound(r, i, S), ~r.locked, NEW k \in 1 .. Len(r.orders),
           Undecided(r.orders[k]), IsTrade(r.orders[k]),
           NEW next \in Int, NEW avg, NEW price \in Int
    PROVE  LET e == FilledOrder(r, k, next, avg, price)
               o == [r.orders[k] EXCEPT !.active = TRUE, !.shown = price]
           IN  /\ IsReplay(e) /\ e.orders = [r.orders EXCEPT ![k] = o] /\ e.sources = r.sources
               /\ e.active = r.active /\ e.heap = r.heap /\ e.version = r.version
               /\ SameRest(r, e) /\ Balanced(e, e.size) /\ Locks(e) /\ e.locked = r.locked
               /\ SoundOrder(o) /\ SameTerms(r.orders[k], o)
<1> DEFINE e == FilledOrder(r, k, next, avg, price)
           o == [r.orders[k] EXCEPT !.active = TRUE, !.shown = price]
           b == Recorded(r, k, next, price)
           grown == Grown(r, next)
<1>1. /\ IsReplay(r) /\ r.c \in Config /\ Locks(r) /\ Balanced(r, r.size)
      /\ Len(r.orders) \in Nat /\ SoundOrder(r.orders[k]) /\ r.size \in Int
      /\ r.lots \in Seq(Lot) /\ r.size = Held(r.lots) /\ OfSide(r.lots, SideOf(r.size))
  BY SoundIs DEF Sound
<1>2. Target(r.orders[k]) = NoId
  BY DEF Target, IsTrade
<1>3. ToClose(r, next) <= Owned(r.lots, SideOf(r.size), NoId)
  <2>1. SideOf(r.size) \in Side
    BY <1>1, SideOfIs
  <2> QED  BY <1>1, <2>1, Holding, ToCloseBound
<1>4. r.orders[k].id \in Ids \cup {NoId} /\ k \in Nat
  BY <1>1 DEF SoundOrder
<1>5. /\ IsReplay(b) /\ SameBook(r, b) /\ SameLocks(r, b) /\ SameRest(r, b)
      /\ b.size = r.size /\ Balanced(b, next)
  BY <1>1, <1>2, <1>3, <1>4, RecordedIs
<1>6. e = [b EXCEPT !.size = next, !.avg = avg,
                    !.orders = [b.orders EXCEPT ![k] = [b.orders[k] EXCEPT !.active = TRUE, !.shown = price]],
                    !.grew = b.grew \/ grown]
  BY DEF FilledOrder
<1>7. ~grown
  BY DEF Grown
<1>8. b.orders = r.orders
  BY <1>5 DEF SameBook
<1> HIDE DEF b, grown, e
<1>9. /\ IsReplay(e) /\ e.orders = [r.orders EXCEPT ![k] = o] /\ e.sources = b.sources
      /\ e.active = b.active /\ e.heap = b.heap /\ e.version = b.version
      /\ SameRest(b, e) /\ e.size = next /\ SameMoney(b, e) /\ e.locked = b.locked
      /\ e.filled = b.filled /\ e.filledLocked = b.filledLocked /\ e.grew = (b.grew \/ grown)
  <2> DEFINE t == [r.orders EXCEPT ![k] = o]
             g == b.grew \/ grown
  <2>1. e = [b EXCEPT !.size = next, !.avg = avg, !.orders = t, !.grew = g]
    BY <1>6, <1>8
  <2> HIDE DEF t, g
  <2>2. /\ IsReplay(e) /\ e.orders = t /\ e.sources = b.sources
        /\ e.active = b.active /\ e.heap = b.heap /\ e.version = b.version
        /\ SameRest(b, e) /\ e.size = next /\ SameMoney(b, e) /\ e.locked = b.locked
        /\ e.filled = b.filled /\ e.filledLocked = b.filledLocked /\ e.grew = g
    BY <1>5, <2>1 DEF IsReplay, Fields, SameMoney, SameRest
  <2> QED  BY <2>2 DEF t, g
<1>10. /\ e.sources = r.sources /\ e.active = r.active /\ e.heap = r.heap
       /\ e.version = r.version /\ SameRest(r, e) /\ e.locked = r.locked
  BY <1>5, <1>9 DEF SameBook, SameRest, SameLocks
<1>11. Balanced(e, e.size)
  BY <1>5, <1>9 DEF Balanced, SameMoney
<1>12. Locks(e)
  <2>1. ~e.grew
    BY <1>1, <1>5, <1>7, <1>9 DEF Locks, SameLocks
  <2> QED  BY <1>1, <1>5, <1>9, <1>10, <2>1 DEF Locks, SameLocks, SameRest
<1>13. SoundOrder(o) /\ SameTerms(r.orders[k], o)
  BY <1>1, Ended
<1> QED  BY <1>9, <1>10, <1>11, <1>12, <1>13 DEF e

LEMMA TradeIs ==
    ASSUME NEW c \in Config, NEW o, SoundOrder(o), IsTrade(o), NEW size \in Int
    PROVE  LET q == IF o.type = "entry" THEN Capped(c, o.side, size, o.qty) ELSE o.qty
           IN  /\ q \in Nat /\ q <= o.qty /\ o.qty \in Nat
               /\ PositionAfter(o.type, o.side, q, size) \in Int
               /\ Slipped(c, o.price, o.side) \in Int
<1> DEFINE q == IF o.type = "entry" THEN Capped(c, o.side, size, o.qty) ELSE o.qty
<1>1. o.side \in Side /\ o.price \in Int /\ o.qty \in Nat
  BY DEF SoundOrder
<1>2. q \in Nat /\ q <= o.qty
  BY <1>1, CappedIs
<1> HIDE DEF q
<1>3. PositionAfter(o.type, o.side, q, size) \in Int
  BY <1>1, <1>2, SideSign DEF PositionAfter
<1>4. Slipped(c, o.price, o.side) \in Int
  BY <1>1, SideSign, ConfigIs DEF Slipped
<1> QED  BY <1>1, <1>2, <1>3, <1>4 DEF q

LEMMA MarketFillIs ==
    ASSUME NEW r, NEW i, Sound(r, i, {}), ~r.locked, NEW k, Fresh(r, k), IsTrade(r.orders[k])
    PROVE  LET d == MarketFill(r, k, i)
           IN  Sound(d, i, {}) /\ d.out = r.out /\ Kept(r, d, {k})
<1> DEFINE o == r.orders[k]
           q == IF o.type = "entry" THEN Capped(r.c, o.side, r.size, o.qty) ELSE o.qty
           next == PositionAfter(o.type, o.side, q, r.size)
           price == Slipped(r.c, o.price, o.side)
           avg == AverageAfter(r, o, q, price, next)
           t == Trade(r, o, q, price)
           p == [o EXCEPT !.qty = q]
           b == [r EXCEPT !.orders[k].qty = q]
           e == FilledOrder(b, k, next, avg, price)
           u == [p EXCEPT !.active = TRUE, !.shown = price]
           d == MarketFill(r, k, i)
<1>1. /\ IsReplay(r) /\ r.c \in Config /\ Len(r.orders) \in Nat /\ r.size \in Int
      /\ k \in 1 .. Len(r.orders) /\ k \notin r.active /\ SoundOrder(o) /\ Undecided(o)
  BY SoundIs DEF Fresh
<1>2. q \in Nat /\ q <= o.qty /\ o.qty \in Nat /\ next \in Int /\ price \in Int
  BY <1>1, TradeIs
<1>3. t.next = next /\ t.avg = avg /\ t.price = price
  BY DEF Trade
<1>4. d = Rejected(r, k) \/ d = CountedFill(e)
  BY <1>3 DEF MarketFill
<1>5. b = Put(r, k, p)
  BY DEF Put
<1> HIDE DEF q, next, price, avg, t
<1>6. SoundOrder(p) /\ SameTerms(o, p) /\ Undecided(p)
  BY <1>1, <1>2, Marked
<1> HIDE DEF p, b
<1>7. /\ Sound(b, i, {}) /\ b.active = r.active /\ b.out = r.out /\ b.orders[k] = p
      /\ Len(b.orders) = Len(r.orders) /\ SameLocks(r, b) /\ Kept(r, b, {k})
  <2>1. /\ Sound(r, i, {}) /\ k \in 1 .. Len(r.orders) /\ SoundOrder(p)
        /\ SameTerms(r.orders[k], p) /\ (k \in r.active => Undecided(p))
    BY <1>1, <1>6
  <2>2. LET a == Put(r, k, p)
        IN  /\ Sound(a, i, {}) /\ a.active = r.active /\ a.out = r.out /\ a.orders[k] = p
            /\ Len(a.orders) = Len(r.orders) /\ SameLocks(r, a) /\ Kept(r, a, {k})
    BY ONLY <2>1, PutIs
  <2> QED  BY <1>5, <2>2
<1>8. IsTrade(p) /\ ~b.locked
  BY <1>6, <1>7 DEF IsTrade, SameTerms, SameLocks
<1>9. /\ IsReplay(e) /\ e.orders = [b.orders EXCEPT ![k] = u] /\ e.sources = b.sources
      /\ e.active = b.active /\ e.heap = b.heap /\ e.version = b.version
      /\ SameRest(b, e) /\ Balanced(e, e.size) /\ Locks(e) /\ e.locked = b.locked
      /\ SoundOrder(u) /\ SameTerms(b.orders[k], u)
  <2>1. /\ Sound(b, i, {}) /\ ~b.locked /\ k \in 1 .. Len(b.orders)
        /\ Undecided(b.orders[k]) /\ IsTrade(b.orders[k]) /\ next \in Int /\ price \in Int
    BY <1>1, <1>2, <1>6, <1>7, <1>8
  <2>2. u = [b.orders[k] EXCEPT !.active = TRUE, !.shown = price]
    BY <1>7
  <2>3. LET f == FilledOrder(b, k, next, avg, price)
            v == [b.orders[k] EXCEPT !.active = TRUE, !.shown = price]
        IN  /\ IsReplay(f) /\ f.orders = [b.orders EXCEPT ![k] = v] /\ f.sources = b.sources
            /\ f.active = b.active /\ f.heap = b.heap /\ f.version = b.version
            /\ SameRest(b, f) /\ Balanced(f, f.size) /\ Locks(f) /\ f.locked = b.locked
            /\ SoundOrder(v) /\ SameTerms(b.orders[k], v)
    BY ONLY <2>1, FilledIs
  <2> HIDE DEF u
  <2> QED  BY ONLY <2>2, <2>3 DEF e
<1> DEFINE a == Put(b, k, u)
<1> HIDE DEF e, u, d
<1>10. /\ Sound(a, i, {}) /\ a.active = b.active /\ a.out = b.out
       /\ Len(a.orders) = Len(b.orders) /\ Kept(b, a, {k})
  <2>1. /\ Sound(b, i, {}) /\ k \in 1 .. Len(b.orders) /\ SoundOrder(u)
        /\ SameTerms(b.orders[k], u) /\ (k \in b.active => Undecided(u))
    BY <1>1, <1>7, <1>9
  <2> QED  BY ONLY <2>1, PutIs DEF a
<1>11. SameBook(a, e) /\ SameRest(a, e)
  <2>1. IsReplay(b)
    BY <1>7 DEF Sound
  <2>2. /\ a.orders = [b.orders EXCEPT ![k] = u] /\ a.sources = b.sources
        /\ a.active = b.active /\ a.heap = b.heap /\ a.version = b.version
        /\ a.c = b.c /\ a.out = b.out /\ a.missed = b.missed
    BY <2>1 DEF Put, IsReplay, Fields
  <2> QED  BY <1>9, <2>2 DEF SameBook, SameRest
<1> HIDE DEF a
<1>12. Sound(e, i, {})
  <2>1. Orders(e, i) /\ Heap(e, {})
    BY <1>10, <1>11, SameBookKept DEF Sound, SameRest
  <2> QED  BY <1>9, <1>10, <1>11, <2>1 DEF Sound, SameRest
<1>13. Kept(r, e, {k})
  <2>1. Kept(r, a, {k})
    BY <1>1, <1>7, <1>10, KeptOn
  <2> QED  BY <1>11, <2>1 DEF Kept, SameBook, SameRest
<1>14. CASE d = Rejected(r, k)
  BY <1>1, <1>14, RejectedIs DEF d
<1>15. CASE d = CountedFill(e)
  <2>1. ~e.locked
    BY <1>8, <1>9
  <2>2. Sound(d, i, {}) /\ d.orders = e.orders /\ d.out = e.out /\ Kept(e, d, {k})
    BY <1>12, <1>15, <2>1, CountedIs, KeptMore
  <2>3. Len(e.orders) \in Nat
    BY <1>12, SoundIs
  <2>4. Kept(r, d, {k})
    BY <1>1, <1>13, <2>2, <2>3, KeptOn
  <2>5. d.out = r.out
    BY <1>7, <1>9, <2>2 DEF SameRest
  <2> QED  BY <2>2, <2>4, <2>5 DEF d
<1> QED  BY <1>4, <1>14, <1>15

\* An order that waits on the book is filled or rejected, and leaves it, or it
\* stays and is put back on the heaps.
LEMMA PendingFillIs ==
    ASSUME NEW r, NEW i, NEW S, Sound(r, i, S), ~r.locked, NEW k \in r.active
    PROVE  LET d == PendingFill(r, k, i)
           IN  /\ Sound(d, i, S \ {k}) /\ d.active \subseteq r.active /\ d.out = r.out
               /\ Kept(r, d, {})
<1> DEFINE o == r.orders[k]
           q == IF o.type = "entry" THEN Capped(r.c, o.side, r.size, o.qty) ELSE o.qty
           next == PositionAfter(o.type, o.side, q, r.size)
           price == Slipped(r.c, o.price, o.side)
           avg == AverageAfter(r, o, q, price, next)
           t == Trade(r, o, q, price)
           p == [o EXCEPT !.qty = q]
           b == [r EXCEPT !.orders[k].qty = q]
           e == FilledOrder(b, k, next, avg, price)
           u == [p EXCEPT !.active = TRUE, !.shown = price]
           m == Removed(e, k)
           n == CountedFill(m)
           d == PendingFill(r, k, i)
<1>1. /\ IsReplay(r) /\ r.c \in Config /\ Len(r.orders) \in Nat /\ r.size \in Int
      /\ k \in 1 .. Len(r.orders) /\ SoundOrder(o) /\ Undecided(o) /\ IsTrade(o)
      /\ Balanced(r, r.size) /\ Locks(r) /\ IsSeries(r.orders)
  BY SoundIs DEF Sound
<1>2. q \in Nat /\ q <= o.qty /\ o.qty \in Nat /\ next \in Int /\ price \in Int
  BY <1>1, TradeIs
<1>3. t.next = next /\ t.avg = avg /\ t.price = price
  BY DEF Trade
<1>4. \/ d = Removed(Rejected(r, k), k)
      \/ d = Reindexed(r, k)
      \/ d = OcaSettled(n, k)
  BY <1>3 DEF PendingFill
<1>5. b = Put(r, k, p)
  BY DEF Put
<1> HIDE DEF q, next, price, avg, t, d
<1>6. SoundOrder(p) /\ SameTerms(o, p) /\ Undecided(p) /\ p.qty = q
  <2>1. SoundOrder(p) /\ SameTerms(o, p) /\ Undecided(p)
    BY <1>1, <1>2, Marked
  <2>2. p.qty = q
    BY <1>1 DEF SoundOrder, IsOrder, OrderFields
  <2> QED  BY <2>1, <2>2
<1> HIDE DEF p, b
<1>7. /\ Sound(b, i, S) /\ b.active = r.active /\ b.out = r.out /\ b.orders[k] = p
      /\ Len(b.orders) = Len(r.orders) /\ SameLocks(r, b) /\ Kept(r, b, {})
  <2>1. /\ Sound(r, i, S) /\ k \in 1 .. Len(r.orders) /\ SoundOrder(p)
        /\ SameTerms(r.orders[k], p) /\ Undecided(p) /\ k \in r.active
    BY <1>1, <1>6
  <2>2. LET a == Put(r, k, p)
        IN  /\ Sound(a, i, S) /\ a.active = r.active /\ a.out = r.out /\ a.orders[k] = p
            /\ Len(a.orders) = Len(r.orders) /\ SameLocks(r, a)
            /\ Kept(r, a, {})
    BY ONLY <2>1, PutOnBook
  <2> QED  BY <1>5, <2>2
<1>8. IsTrade(p) /\ ~b.locked
  BY <1>1, <1>6, <1>7 DEF IsTrade, SameTerms, SameLocks
<1>9. /\ IsReplay(e) /\ e.orders = [b.orders EXCEPT ![k] = u] /\ e.sources = b.sources
      /\ e.active = b.active /\ e.heap = b.heap /\ e.version = b.version
      /\ SameRest(b, e) /\ Balanced(e, e.size) /\ Locks(e) /\ e.locked = b.locked
      /\ SoundOrder(u) /\ SameTerms(b.orders[k], u)
  <2>1. /\ Sound(b, i, S) /\ ~b.locked /\ k \in 1 .. Len(b.orders)
        /\ Undecided(b.orders[k]) /\ IsTrade(b.orders[k]) /\ next \in Int /\ price \in Int
    BY <1>1, <1>2, <1>6, <1>7, <1>8
  <2>2. u = [b.orders[k] EXCEPT !.active = TRUE, !.shown = price]
    BY <1>7
  <2>3. LET f == FilledOrder(b, k, next, avg, price)
            v == [b.orders[k] EXCEPT !.active = TRUE, !.shown = price]
        IN  /\ IsReplay(f) /\ f.orders = [b.orders EXCEPT ![k] = v] /\ f.sources = b.sources
            /\ f.active = b.active /\ f.heap = b.heap /\ f.version = b.version
            /\ SameRest(b, f) /\ Balanced(f, f.size) /\ Locks(f) /\ f.locked = b.locked
            /\ SoundOrder(v) /\ SameTerms(b.orders[k], v)
    BY ONLY <2>1, FilledIs
  <2> HIDE DEF u
  <2> QED  BY ONLY <2>2, <2>3 DEF e
<1>10. u.qty = q
  BY <1>6 DEF SoundOrder, IsOrder, OrderFields
<1> HIDE DEF e, u
<1>11. /\ Sound(m, i, S \ {k}) /\ m.active = b.active \ {k} /\ m.out = b.out
       /\ SameLocks(e, m) /\ Kept(b, m, {}) /\ m.orders = e.orders
  <2>1. /\ Sound(b, i, S) /\ k \in b.active /\ IsReplay(e) /\ SoundOrder(u)
        /\ SameTerms(b.orders[k], u) /\ e.orders = [b.orders EXCEPT ![k] = u]
        /\ e.sources = b.sources /\ e.active = b.active /\ e.heap = b.heap
        /\ e.version = b.version /\ SameRest(b, e) /\ Balanced(e, e.size) /\ Locks(e)
    BY <1>7, <1>9
  <2> QED  BY ONLY <2>1, EndedAndRemoved DEF m
<1>12. m.orders[k].qty = q
  BY <1>1, <1>7, <1>9, <1>10, <1>11, SoundIs DEF IsSeries
<1> HIDE DEF m
<1>13. /\ Sound(n, i, S \ {k}) /\ n.active = m.active /\ n.orders = m.orders /\ n.out = m.out
       /\ Kept(m, n, {})
  <2>1. ~m.locked
    BY <1>8, <1>9, <1>11 DEF SameLocks
  <2> QED  BY <1>11, <2>1, CountedIs
<1> HIDE DEF n
<1>14. CASE d = Removed(Rejected(r, k), k)
  <2> DEFINE x == [o EXCEPT !.rejected = TRUE]
             f == Rejected(r, k)
  <2>1. SoundOrder(x) /\ SameTerms(o, x)
    BY <1>1, Ended
  <2>2. f = Put(r, k, x)
    BY DEF Rejected, Put
  <2> HIDE DEF x, f
  <2>3. /\ IsReplay(f) /\ f.orders = [r.orders EXCEPT ![k] = x] /\ f.sources = r.sources
        /\ f.active = r.active /\ f.heap = r.heap /\ f.version = r.version /\ f.size = r.size
        /\ SameRest(r, f) /\ SameMoney(r, f) /\ SameLocks(r, f)
    <3> DEFINE z == [r.orders EXCEPT ![k] = x]
    <3> HIDE DEF z
    <3>1. f = [r EXCEPT !.orders = z]
      BY <2>2 DEF Put, z
    <3>2. /\ IsReplay(f) /\ f.orders = z /\ f.sources = r.sources
          /\ f.active = r.active /\ f.heap = r.heap /\ f.version = r.version /\ f.size = r.size
          /\ SameRest(r, f) /\ SameMoney(r, f) /\ SameLocks(r, f)
      BY <1>1, <3>1 DEF IsReplay, Fields, SameRest, SameMoney, SameLocks
    <3> QED  BY <3>2 DEF z
  <2>4. Balanced(f, f.size) /\ Locks(f)
    BY <1>1, <2>3 DEF Balanced, Locks, SameRest, SameMoney, SameLocks
  <2>5. LET y == Removed(f, k)
        IN  /\ Sound(y, i, S \ {k}) /\ y.active = r.active \ {k} /\ y.out = r.out
            /\ Kept(r, y, {})
    <3>1. /\ Sound(r, i, S) /\ k \in r.active /\ IsReplay(f) /\ SoundOrder(x)
          /\ SameTerms(r.orders[k], x) /\ f.orders = [r.orders EXCEPT ![k] = x]
          /\ f.sources = r.sources /\ f.active = r.active /\ f.heap = r.heap
          /\ f.version = r.version /\ SameRest(r, f) /\ Balanced(f, f.size) /\ Locks(f)
      BY <2>1, <2>3, <2>4
    <3> QED  BY ONLY <3>1, EndedAndRemoved
  <2>6. d = Removed(f, k)
    BY <1>14 DEF f
  <2> QED  BY <2>5, <2>6 DEF d
<1>15. CASE d = Reindexed(r, k)
  BY <1>15, ReindexedIs DEF d
<1>16. CASE d = OcaSettled(n, k)
  <2>1. n.orders[k].qty \in Nat
    BY <1>2, <1>12, <1>13
  <2>2. /\ Sound(d, i, S \ {k}) /\ d.active \subseteq n.active /\ d.out = n.out
        /\ Kept(n, d, {})
    BY <1>13, <1>16, <2>1, OcaAppliedIs
  <2>3. Len(b.orders) \in Nat /\ Len(m.orders) \in Nat /\ Len(n.orders) \in Nat /\ Len(d.orders) \in Nat
    BY <1>7, <1>11, <1>13, <2>2, SoundIs
  <2>4. Kept(r, m, {})
    BY <1>1, <1>7, <1>11, <2>3, KeptOn
  <2>5. Kept(r, n, {})
    BY <1>1, <1>13, <2>3, <2>4, KeptOn
  <2>6. Kept(r, d, {})
    BY <1>1, <2>2, <2>3, <2>5, KeptOn
  <2>7. d.active \subseteq r.active /\ d.out = r.out
    BY <1>7, <1>11, <1>13, <2>2
  <2> QED  BY <2>2, <2>6, <2>7 DEF d
<1> QED  BY <1>4, <1>14, <1>15, <1>16

\* What happens to a candidate of a scan.
LEMMA TriedIs ==
    ASSUME NEW r, NEW i \in 1 .. Len(bars), NEW S, Sound(r, i, S), NEW k, NEW phase,
           bars[i] \in OkBar
    PROVE  LET d == CandidateTried(r, k, i, phase)
           IN  Sound(d, i, S \ {k}) /\ d.out = r.out /\ Kept(r, d, {})
<1> DEFINE o == r.orders[k]
           v == Seen(r, o, i)
           t == Trigger(r.c, o, v)
           p == [o EXCEPT !.armed = @ \/ t.armed]
           b == [r EXCEPT !.orders[k].armed = @ \/ t.armed]
           u == [p EXCEPT !.time = i, !.price = t.price]
           e == [b EXCEPT !.orders[k].time = i, !.orders[k].price = t.price]
           d == CandidateTried(r, k, i, phase)
<1>1. /\ IsReplay(r) /\ r.c \in Config /\ Len(r.orders) \in Nat
  BY SoundIs
<1>2. CASE k \notin r.active
  <2>1. Heap(r, S \ {k})
    BY <1>2 DEF Sound, Heap
  <2>2. Sound(r, i, S \ {k})
    BY <2>1 DEF Sound
  <2> QED  BY <1>1, <1>2, <2>2, KeptItself DEF CandidateTried
<1>3. CASE k \in r.active
  <2>1. k \in 1 .. Len(r.orders) /\ SoundOrder(o) /\ Undecided(o) /\ IsTrade(o) /\ o.submit <= i
    BY <1>3, SoundIs
  <2>2. \/ d = Reindexed(r, k)
        \/ d = Reindexed(b, k)
        \/ ~r.locked /\ t.price # NoPrice /\ d = PendingFill(e, k, i)
    BY <1>3 DEF CandidateTried
  <2>3. SoundOrder(p) /\ SameTerms(o, p) /\ Undecided(p)
    <3>1. \A x : LET y == [o EXCEPT !.armed = x]
                 IN  SoundOrder(y) /\ SameTerms(o, y) /\ Undecided(y)
      BY <2>1, Marked
    <3> HIDE DEF t
    <3> QED  BY <3>1
  <2>4. b = Put(r, k, p)
    BY DEF Put
  <2> HIDE DEF b, p, d
  <2>5. /\ Sound(b, i, S) /\ b.active = r.active /\ b.out = r.out /\ b.orders[k] = p
        /\ Len(b.orders) = Len(r.orders) /\ SameLocks(r, b) /\ Kept(r, b, {})
    <3>1. /\ Sound(r, i, S) /\ k \in 1 .. Len(r.orders) /\ SoundOrder(p)
          /\ SameTerms(r.orders[k], p) /\ Undecided(p) /\ k \in r.active
      BY <1>3, <2>1, <2>3
    <3>2. LET a == Put(r, k, p)
          IN  /\ Sound(a, i, S) /\ a.active = r.active /\ a.out = r.out /\ a.orders[k] = p
              /\ Len(a.orders) = Len(r.orders) /\ SameLocks(r, a)
              /\ Kept(r, a, {})
      BY ONLY <3>1, PutOnBook
    <3> QED  BY <1>3, <2>4, <3>2
  <2>6. CASE d = Reindexed(r, k)
    BY <2>6, ReindexedIs DEF d
  <2>7. CASE d = Reindexed(b, k)
    <3>1. /\ Sound(d, i, S \ {k}) /\ d.active = b.active /\ d.out = b.out
          /\ d.orders = b.orders /\ Kept(b, d, {})
      BY <2>5, <2>7, ReindexedIs
    <3>2. Kept(r, d, {})
      BY <1>1, <2>5, <3>1, KeptOn
    <3> QED  BY <2>5, <3>1, <3>2 DEF d
  <2>8. CASE ~r.locked /\ t.price # NoPrice /\ d = PendingFill(e, k, i)
    <3>1. t.price \in Int
      <4>1. v \in OkBar
        BY BarIs DEF Seen
      <4>2. o.side \in Side /\ Price(o.limit) /\ Price(o.stop) /\ o.price \in Int
        BY <2>1 DEF SoundOrder, Price
      <4> HIDE DEF v
      <4> QED  BY <1>1, <2>8, <4>1, <4>2, TriggerPrice
    <3> HIDE DEF t
    <3>2. SoundOrder(u) /\ SameTerms(p, u) /\ Undecided(u)
      <4>1. i \in p.submit .. Len(bars)
        BY <2>1, <2>3 DEF SoundOrder, SameTerms
      <4> QED  BY <2>3, <3>1, <4>1, Marked
    <3>3. e = Put(b, k, u)
      BY <2>5 DEF Put
    <3> HIDE DEF e, u
    <3>4. /\ Sound(e, i, S) /\ e.active = b.active /\ e.out = b.out
          /\ Len(e.orders) = Len(b.orders) /\ SameLocks(b, e) /\ Kept(b, e, {})
      <4>1. /\ Sound(b, i, S) /\ k \in 1 .. Len(b.orders) /\ SoundOrder(u)
            /\ SameTerms(b.orders[k], u) /\ Undecided(u) /\ k \in b.active
        BY <1>3, <2>1, <2>5, <3>2
      <4>2. LET a == Put(b, k, u)
            IN  /\ Sound(a, i, S) /\ a.active = b.active /\ a.out = b.out
                /\ Len(a.orders) = Len(b.orders) /\ SameLocks(b, a)
                /\ Kept(b, a, {})
        BY ONLY <4>1, PutOnBook
      <4> QED  BY <1>3, <2>5, <3>3, <4>2
    <3>5. ~e.locked /\ k \in e.active
      BY <1>3, <2>5, <2>8, <3>4 DEF SameLocks
    <3>6. Sound(d, i, S \ {k}) /\ d.out = e.out /\ Kept(e, d, {})
      BY <2>8, <3>4, <3>5, PendingFillIs
    <3>7. Len(d.orders) \in Nat
      BY <3>6, SoundIs
    <3>8. Kept(r, e, {})
      BY <1>1, <2>5, <3>4, KeptOn
    <3>9. Kept(r, d, {})
      BY <1>1, <2>5, <3>4, <3>6, <3>7, <3>8, KeptOn
    <3> QED  BY <2>5, <3>4, <3>6, <3>9 DEF d
  <2> QED  BY <2>2, <2>6, <2>7, <2>8
<1> QED  BY <1>2, <1>3

-----------------------------------------------------------------------------
(* Scans of the book.                                                      *)

\* A bar that triggers an order reaches its stop or its limit.
LEMMA TriggerReaches ==
    ASSUME NEW c \in Config, NEW v \in OkBar,
           NEW o, o.side \in Side, Price(o.limit), Price(o.stop), ~o.market,
           Trigger(c, o, v).price # NoPrice
    PROVE  StopHit(o.side, v, o.stop) \/ LimitHit(c, o.side, v, o.limit)
<1>1. CASE o.stop = NoPrice \/ o.limit = NoPrice
  BY <1>1 DEF Trigger
<1>2. CASE o.stop # NoPrice /\ o.limit # NoPrice
  <2> DEFINE path == PathOf(c, v)
             arming == Arming(o, path)
             from == Min(arming)
             price == IF from = 1 THEN path[1] ELSE o.stop
  <2>1. StopLimit(c, o, path).price # NoPrice
    BY <1>2 DEF Trigger
  <2>2. /\ \A i \in 1 .. 4 : path[i] \in Nat /\ v.low <= path[i] /\ path[i] <= v.high
        /\ v.low \in Nat /\ v.high \in Nat /\ c.verify \in Nat
        /\ o.limit \in Nat /\ o.stop \in Nat /\ o.side \in Side
    BY <1>2, PathIs, BarIs, ConfigIs DEF Price
  <2> HIDE DEF path
  <2>3. \A i \in 1 .. 4 : /\ StopHit(o.side, At(path[i]), o.stop) => StopHit(o.side, v, o.stop)
                          /\ LimitHit(c, o.side, At(path[i]), o.limit)
                                => LimitHit(c, o.side, v, o.limit)
    <3> SUFFICES ASSUME NEW i \in 1 .. 4
                 PROVE  /\ StopHit(o.side, At(path[i]), o.stop) => StopHit(o.side, v, o.stop)
                        /\ LimitHit(c, o.side, At(path[i]), o.limit)
                              => LimitHit(c, o.side, v, o.limit)
      OBVIOUS
    <3>1. PICK p \in Nat : p = path[i] /\ v.low <= p /\ p <= v.high
      BY <2>2
    <3>2. At(p).low = p /\ At(p).high = p
      BY DEF At
    <3>3. StopHit(o.side, At(p), o.stop) => StopHit(o.side, v, o.stop)
      BY <2>2, <3>1, <3>2 DEF StopHit
    <3>4. LimitHit(c, o.side, At(p), o.limit) => LimitHit(c, o.side, v, o.limit)
      BY <2>2, <3>1, <3>2 DEF LimitHit
    <3> QED  BY <3>1, <3>3, <3>4
  <2>4. /\ arming # {}
        /\ LimitOnPath(c, o, path, from, price) # NoPrice
    <3>1. arming # {}
      <4>1. CASE arming = {}
        BY <2>1, <4>1 DEF StopLimit
      <4> QED  BY <4>1
    <3>2. StopLimit(c, o, path) = [armed |-> TRUE, price |-> LimitOnPath(c, o, path, from, price)]
      BY <3>1 DEF StopLimit
    <3> QED  BY <2>1, <3>1, <3>2
  <2>5. arming \subseteq 1 .. 4 /\ from \in arming
    <3>1. arming \in SUBSET Nat /\ arming \subseteq 1 .. 4
      BY DEF Arming
    <3> HIDE DEF arming
    <3> QED  BY <2>4, <3>1, MinIs
  <2> HIDE DEF from
  <2>6. CASE ~o.armed
    <3>1. StopHit(o.side, At(path[from]), o.stop)
      BY <2>5, <2>6 DEF Arming
    <3> QED  BY <2>3, <2>5, <3>1
  <2>7. CASE o.armed
    <3>1. from = 1
      BY <2>5, <2>7 DEF Arming
    <3>2. \E i \in 1 .. 4 : LimitHit(c, o.side, At(path[i]), o.limit)
      BY <2>4, <3>1 DEF LimitOnPath
    <3> QED  BY <2>3, <3>2
  <2> QED  BY <2>6, <2>7
<1> QED  BY <1>1, <1>2

LEMMA SeenReaches ==
    ASSUME NEW c \in Config, NEW v \in OkBar, NEW side \in Side, NEW p, Price(p)
    PROVE  /\ StopHit(side, AtClose(v), p) => StopHit(side, v, p)
           /\ LimitHit(c, side, AtClose(v), p) => LimitHit(c, side, v, p)
<1>1. /\ v.low \in Nat /\ v.high \in Nat /\ v.close \in Nat /\ v.low <= v.close
      /\ v.close <= v.high /\ AtClose(v).low = v.close /\ AtClose(v).high = v.close
      /\ c.verify \in Nat
  BY BarIs, ConfigIs
<1>2. StopHit(side, AtClose(v), p) => StopHit(side, v, p)
  BY <1>1 DEF StopHit, Price
<1>3. LimitHit(c, side, AtClose(v), p) => LimitHit(c, side, v, p)
  BY <1>1 DEF LimitHit, Price
<1> QED  BY <1>2, <1>3

\* An indexed order of which the bar reaches the stop or the limit has a current
\* entry among those that are popped.
LEMMA ReachedIsPopped ==
    ASSUME NEW r, r.c \in Config, NEW v \in OkBar, NEW k \in r.active, Indexed(r, k),
           r.orders[k].side \in Side, Price(r.orders[k].limit), Price(r.orders[k].stop),
           StopHit(r.orders[k].side, v, r.orders[k].stop)
              \/ LimitHit(r.c, r.orders[k].side, v, r.orders[k].limit)
    PROVE  \E e \in Popped(r, v) : e.order = k /\ r.version[k] = e.version
<1> DEFINE o == r.orders[k]
<1> SUFFICES \E t \in Thresholds(r.c, o) : Reached(v, Entry(r, k, t))
  <2>1. PICK t \in Thresholds(r.c, o) : Reached(v, Entry(r, k, t))
    OBVIOUS
  <2>2. Entry(r, k, t) \in Popped(r, v)
    BY <2>1 DEF Indexed, Popped
  <2>3. Entry(r, k, t).order = k /\ Entry(r, k, t).version = r.version[k]
    BY DEF Entry
  <2> QED  BY <2>2, <2>3
<1>1. v.low \in Nat /\ v.high \in Nat /\ r.c.verify \in Nat
  BY BarIs, ConfigIs
<1>2. CASE StopHit(o.side, v, o.stop) /\ o.side = "long"
  <2> DEFINE t == [list |-> "longStops", at |-> o.stop]
  <2>1. t \in Thresholds(r.c, o) /\ o.stop \in Nat /\ v.high >= o.stop
    BY <1>2 DEF Thresholds, StopHit, Price
  <2>2. Entry(r, k, t).list = "longStops" /\ Entry(r, k, t).key = o.stop
    BY DEF Entry, Key
  <2> HIDE DEF t
  <2>3. Reached(v, Entry(r, k, t))
    BY <1>1, <2>1, <2>2 DEF Reached
  <2> QED  BY <2>1, <2>3
<1>3. CASE StopHit(o.side, v, o.stop) /\ o.side = "short"
  <2> DEFINE t == [list |-> "shortStops", at |-> o.stop]
  <2>1. t \in Thresholds(r.c, o) /\ o.stop \in Nat /\ v.low <= o.stop
    BY <1>3 DEF Thresholds, StopHit, Price
  <2>2. Entry(r, k, t).list = "shortStops" /\ Entry(r, k, t).key = -o.stop
    BY DEF Entry, Key
  <2> HIDE DEF t
  <2>3. Reached(v, Entry(r, k, t))
    BY <1>1, <2>1, <2>2 DEF Reached
  <2> QED  BY <2>1, <2>3
<1>4. CASE LimitHit(r.c, o.side, v, o.limit) /\ o.side = "long"
  <2> DEFINE t == [list |-> "longLimits", at |-> o.limit]
  <2>1. t \in Thresholds(r.c, o) /\ o.limit \in Nat /\ v.low <= o.limit - r.c.verify
    BY <1>4 DEF Thresholds, LimitHit, Price
  <2>2. Entry(r, k, t).list = "longLimits" /\ Entry(r, k, t).key = -(o.limit - r.c.verify)
    BY DEF Entry, Key
  <2> HIDE DEF t
  <2>3. Reached(v, Entry(r, k, t))
    BY <1>1, <2>1, <2>2 DEF Reached
  <2> QED  BY <2>1, <2>3
<1>5. CASE LimitHit(r.c, o.side, v, o.limit) /\ o.side = "short"
  <2> DEFINE t == [list |-> "shortLimits", at |-> o.limit]
  <2>1. t \in Thresholds(r.c, o) /\ o.limit \in Nat /\ v.high >= o.limit + r.c.verify
    BY <1>5 DEF Thresholds, LimitHit, Price
  <2>2. Entry(r, k, t).list = "shortLimits" /\ Entry(r, k, t).key = o.limit + r.c.verify
    BY DEF Entry, Key
  <2> HIDE DEF t
  <2>3. Reached(v, Entry(r, k, t))
    BY <1>1, <2>1, <2>2 DEF Reached
  <2> QED  BY <2>1, <2>3
<1> QED  BY <1>2, <1>3, <1>4, <1>5 DEF Side

\* The heaps lose no order: what the bar triggers is a candidate.
LEMMA NoneMissed ==
    ASSUME NEW r, NEW i, Sound(r, i, {}), bars[i] \in OkBar
    PROVE  ~Missed(r, Candidates(r, bars[i]), i)
<1> SUFFICES ASSUME NEW k \in r.active \ Candidates(r, bars[i]),
                    Trigger(r.c, r.orders[k], Seen(r, r.orders[k], i)).price # NoPrice
             PROVE  FALSE
  BY DEF Missed
<1> DEFINE o == r.orders[k]
           v == Seen(r, o, i)
<1>1. r.c \in Config /\ SoundOrder(o) /\ Indexed(r, k)
  BY SoundIs DEF Heap
<1>2. o.side \in Side /\ Price(o.limit) /\ Price(o.stop)
  BY <1>1 DEF SoundOrder, Price
<1>3. ~o.market
  BY DEF Candidates
<1>4. v = bars[i] \/ v = AtClose(bars[i])
  BY DEF Seen
<1>5. v \in OkBar
  BY <1>4, BarIs
<1>6. StopHit(o.side, v, o.stop) \/ LimitHit(r.c, o.side, v, o.limit)
  <2> HIDE DEF v
  <2>1. Trigger(r.c, o, v).price # NoPrice
    BY DEF v
  <2> QED  BY <1>1, <1>2, <1>3, <1>5, <2>1, TriggerReaches
<1>7. StopHit(o.side, bars[i], o.stop) \/ LimitHit(r.c, o.side, bars[i], o.limit)
  <2> HIDE DEF v
  <2> QED  BY <1>1, <1>2, <1>4, <1>6, SeenReaches
<1>8. \E e \in Popped(r, bars[i]) : e.order = k /\ r.version[k] = e.version
  BY <1>1, <1>2, <1>7, ReachedIsPopped
<1> QED  BY <1>8 DEF Candidates

ScanStart(r, found, i) ==
    [r EXCEPT !.heap = @ \ Popped(r, bars[i]), !.missed = @ \/ Missed(r, found, i)]
ScanStep(x, k, found, i, phase) == IF k \in found THEN CandidateTried(x, k, i, phase) ELSE x

LEMMA ScanUnfold ==
    ASSUME NEW r, Len(r.orders) \in Nat, NEW found, NEW i, NEW phase
    PROVE  LET C == ScanBook(r, found, i, phase)
           IN  /\ C[0] = ScanStart(r, found, i)
               /\ \A k \in 1 .. Len(r.orders) : C[k] = ScanStep(C[k - 1], k, found, i, phase)
<1> DEFINE N == Len(r.orders)
           start == ScanStart(r, found, i)
           Step(x, k) == ScanStep(x, k, found, i, phase)
           Is(f, n) == f = [k \in 0 .. n |-> IF k = 0 THEN start ELSE Step(f[k - 1], k)]
           S == {n \in 0 .. N : \E f : Is(f, n)}
           C == ScanBook(r, found, i, phase)
<1>1. N \in Nat
  OBVIOUS
<1>2. C = CHOOSE f : Is(f, N)
  BY DEF ScanBook, ScanStart, ScanStep
<1> HIDE DEF C, start, Step, N
<1>3. 0 \in S
  <2> DEFINE g == [k \in 0 .. 0 |-> start]
  <2>1. g = [k \in 0 .. 0 |-> IF k = 0 THEN start ELSE Step(g[k - 1], k)]
    OBVIOUS
  <2>2. \E f : Is(f, 0)
    BY <2>1
  <2> QED  BY <1>1, <2>2
<1>4. ASSUME NEW n \in 1 .. N, n - 1 \in S  PROVE n \in S
  <2>1. PICK f : Is(f, n - 1)
    BY <1>4
  <2> DEFINE g == [k \in 0 .. n |-> IF k = n THEN Step(f[n - 1], n) ELSE f[k]]
  <2>2. ASSUME NEW k \in 0 .. n  PROVE g[k] = IF k = 0 THEN start ELSE Step(g[k - 1], k)
    <3>1. CASE k = n
      BY <1>1, <3>1
    <3>2. CASE k # n
      <4>1. k \in 0 .. n - 1 /\ (k # 0 => k - 1 \in 0 .. n /\ k - 1 # n)
        BY <1>1, <3>2
      <4>2. f[k] = IF k = 0 THEN start ELSE Step(f[k - 1], k)
        BY <2>1, <4>1
      <4> QED  BY <3>2, <4>1, <4>2
    <3> QED  BY <3>1, <3>2
  <2>3. g = [k \in 0 .. n |-> IF k = 0 THEN start ELSE Step(g[k - 1], k)]
    BY <2>2
  <2>4. \E h : Is(h, n)
    BY <2>3
  <2> QED  BY <1>1, <2>4
<1>5. N \in S
  <2> HIDE DEF S
  <2>1. \A k \in 0 .. N : k \in S
    BY <1>1, <1>3, <1>4, AllPlaces
  <2> QED  BY <1>1, <2>1
<1>6. Is(C, N)
  BY <1>2, <1>5
<1>7. C[0] = start /\ \A k \in 1 .. N : C[k] = Step(C[k - 1], k)
  BY <1>1, <1>6
<1> QED  BY <1>7 DEF C, start, Step, N

LEMMA ScannedIs ==
    ASSUME NEW r, NEW i \in 1 .. Len(bars), Sound(r, i, {}), NEW phase, bars[i] \in OkBar
    PROVE  LET d == ScannedBook(r, i, phase)
           IN  Sound(d, i, {}) /\ d.out = r.out /\ Kept(r, d, {})
<1> DEFINE found == Candidates(r, bars[i])
           C == ScanBook(r, found, i, phase)
           x == [r EXCEPT !.heap = @ \ Popped(r, bars[i]), !.missed = @ \/ Missed(r, found, i)]
           N == Len(r.orders)
           S == {k \in 0 .. N : /\ Sound(C[k], i, found \ 1 .. k) /\ C[k].out = r.out
                                /\ Kept(r, C[k], {})}
           d == ScannedBook(r, i, phase)
<1>1. /\ IsReplay(r) /\ r.c \in Config /\ Orders(r, i) /\ Heap(r, {}) /\ N \in Nat /\ ~r.missed
      /\ \A k \in r.active : k \in 1 .. N
  BY SoundIs DEF Sound
<1>2. d = r \/ d = C[N]
  BY DEF ScannedBook
<1>3. C[0] = x /\ \A k \in 1 .. N : C[k] = IF k \in found THEN CandidateTried(C[k - 1], k, i, phase) ELSE C[k - 1]
  <2>1. Len(r.orders) \in Nat
    BY <1>1
  <2> HIDE DEF found, C, x, N, S, d
  <2>2. /\ ScanBook(r, found, i, phase)[0] = ScanStart(r, found, i)
        /\ \A k \in 1 .. Len(r.orders) :
              ScanBook(r, found, i, phase)[k]
                = ScanStep(ScanBook(r, found, i, phase)[k - 1], k, found, i, phase)
    BY ONLY <2>1, ScanUnfold
  <2>3. C[0] = x
    BY <2>2 DEF C, x, ScanStart
  <2>4. ASSUME NEW k \in 1 .. N
        PROVE  C[k] = IF k \in found THEN CandidateTried(C[k - 1], k, i, phase) ELSE C[k - 1]
    <3>1. C[k] = ScanStep(C[k - 1], k, found, i, phase)
      BY <2>2 DEF C, N
    <3> QED  BY <3>1 DEF ScanStep
  <2> QED  BY <2>3, <2>4
<1>4. ~Missed(r, found, i)
  BY NoneMissed
<1>5. found \subseteq r.active
  BY DEF Candidates
<1>6. /\ IsReplay(x) /\ x.orders = r.orders /\ x.sources = r.sources /\ x.active = r.active
      /\ x.heap = r.heap \ Popped(r, bars[i]) /\ x.version = r.version /\ x.size = r.size
      /\ x.c = r.c /\ x.out = r.out /\ SameMoney(r, x) /\ SameLocks(r, x) /\ ~x.missed
  <2> DEFINE h == r.heap \ Popped(r, bars[i])
             m == r.missed \/ Missed(r, found, i)
  <2>1. ~m
    BY <1>1, <1>4
  <2>2. x = [r EXCEPT !.heap = h, !.missed = m]
    OBVIOUS
  <2> HIDE DEF h, m, x
  <2>3. /\ IsReplay(x) /\ x.orders = r.orders /\ x.sources = r.sources /\ x.active = r.active
        /\ x.heap = h /\ x.version = r.version /\ x.size = r.size
        /\ x.c = r.c /\ x.out = r.out /\ SameMoney(r, x) /\ SameLocks(r, x) /\ x.missed = m
    BY <1>1, <2>2 DEF IsReplay, Fields, SameMoney, SameLocks
  <2> QED  BY <2>1, <2>3 DEF h
<1> HIDE DEF x, C, d
<1>7. Heap(x, found)
  <2> SUFFICES ASSUME NEW k \in r.active \ found, NEW t \in Thresholds(r.c, r.orders[k])
               PROVE  Entry(r, k, t) \in r.heap \ Popped(r, bars[i])
    BY <1>6 DEF Heap, Indexed, Entry
  <2>1. Entry(r, k, t) \in r.heap
    BY <1>1 DEF Heap, Indexed
  <2>2. Entry(r, k, t).order = k /\ Entry(r, k, t).version = r.version[k]
    BY DEF Entry
  <2>3. Entry(r, k, t) \notin Popped(r, bars[i])
    BY <2>2 DEF Candidates
  <2> QED  BY <2>1, <2>3
<1>8. Orders(x, i)
  BY <1>1, <1>6 DEF Orders
<1>9. Sound(x, i, found)
  <2>1. Balanced(x, x.size) /\ Locks(x) /\ IsSeries(x.out)
    BY <1>6 DEF Sound, Balanced, Locks, SameMoney, SameLocks
  <2> QED  BY <1>1, <1>6, <1>7, <1>8, <2>1 DEF Sound
<1>10. 0 \in S
  <2>1. found \ 1 .. 0 = found
    OBVIOUS
  <2>2. Kept(r, x, {})
    BY <1>1, <1>6 DEF Kept
  <2> HIDE DEF found
  <2> QED  BY <1>1, <1>3, <1>6, <1>9, <2>1, <2>2
<1>11. ASSUME NEW k \in 1 .. N, k - 1 \in S  PROVE k \in S
  <2> HIDE DEF found
  <2>1. /\ Sound(C[k - 1], i, found \ 1 .. (k - 1)) /\ C[k - 1].out = r.out
        /\ Kept(r, C[k - 1], {})
    BY <1>11
  <2>2. k \in Nat /\ k \in 0 .. N
    BY <1>1
  <2>3. CASE k \in found
    <3>1. C[k] = CandidateTried(C[k - 1], k, i, phase)
      BY <1>3, <2>3
    <3>2. (found \ 1 .. (k - 1)) \ {k} = found \ 1 .. k
      <4>1. \A j : j \in 1 .. k <=> j \in 1 .. (k - 1) \/ j = k
        BY <1>1
      <4> QED  BY <4>1
    <3>3. /\ Sound(C[k], i, (found \ 1 .. (k - 1)) \ {k}) /\ C[k].out = C[k - 1].out
          /\ Kept(C[k - 1], C[k], {})
      <4>1. /\ i \in 1 .. Len(bars) /\ Sound(C[k - 1], i, found \ 1 .. (k - 1))
            /\ bars[i] \in OkBar
        BY <2>1
      <4>2. LET b == CandidateTried(C[k - 1], k, i, phase)
            IN  /\ Sound(b, i, (found \ 1 .. (k - 1)) \ {k}) /\ b.out = C[k - 1].out
                /\ Kept(C[k - 1], b, {})
        BY ONLY <4>1, TriedIs
      <4> QED  BY <3>1, <4>2
    <3>4. Len(C[k - 1].orders) \in Nat /\ Len(C[k].orders) \in Nat
      BY <2>1, <3>3, SoundIs
    <3>5. Kept(r, C[k], {})
      BY <1>1, <2>1, <3>3, <3>4, KeptOn
    <3> QED  BY <2>1, <2>2, <3>2, <3>3, <3>5
  <2>4. CASE k \notin found
    <3>1. C[k] = C[k - 1]
      BY <1>3, <2>4
    <3>2. found \ 1 .. (k - 1) = found \ 1 .. k
      <4>1. \A j : j \in 1 .. k <=> j \in 1 .. (k - 1) \/ j = k
        BY <1>1
      <4> QED  BY <2>4, <4>1
    <3> QED  BY <2>1, <2>2, <3>1, <3>2
  <2> QED  BY <2>3, <2>4
<1>12. N \in S
  <2> HIDE DEF S
  <2>1. \A k \in 0 .. N : k \in S
    BY <1>1, <1>10, <1>11, AllPlaces
  <2> QED  BY <1>1, <2>1
<1>13. found \ 1 .. N = {}
  BY <1>1, <1>5
<1>14. Sound(C[N], i, {}) /\ C[N].out = r.out /\ Kept(r, C[N], {})
  BY <1>12, <1>13
<1>15. CASE d = r
  BY <1>1, <1>15, KeptItself DEF d
<1>16. CASE d = C[N]
  BY <1>14, <1>16 DEF d
<1> QED  BY <1>2, <1>15, <1>16

-----------------------------------------------------------------------------
(* Orders that close.                                                      *)

LEMMA EndedOff ==
    ASSUME NEW r, NEW i, Sound(r, i, {}), NEW k \in 1 .. Len(r.orders), k \notin r.active,
           NEW e, IsReplay(e), NEW o, SoundOrder(o), SameTerms(r.orders[k], o),
           e.orders = [r.orders EXCEPT ![k] = o],
           e.sources = r.sources, e.active = r.active, e.heap = r.heap, e.version = r.version,
           SameRest(r, e), Balanced(e, e.size), Locks(e)
    PROVE  Sound(e, i, {}) /\ e.out = r.out /\ Kept(r, e, {k})
<1> DEFINE a == Put(r, k, o)
<1>1. IsReplay(r) /\ Len(r.orders) \in Nat
  BY SoundIs
<1>2. /\ Sound(a, i, {}) /\ a.active = r.active /\ a.out = r.out
      /\ Len(a.orders) = Len(r.orders) /\ Kept(r, a, {k})
  <2>1. /\ Sound(r, i, {}) /\ k \in 1 .. Len(r.orders) /\ SoundOrder(o)
        /\ SameTerms(r.orders[k], o) /\ (k \in r.active => Undecided(o))
    OBVIOUS
  <2>2. LET c == Put(r, k, o)
        IN  /\ Sound(c, i, {}) /\ c.active = r.active /\ c.out = r.out
            /\ Len(c.orders) = Len(r.orders) /\ SameLocks(r, c) /\ Kept(r, c, {k})
    BY ONLY <2>1, PutIs
  <2> QED  BY <2>2 DEF a
<1>3. SameBook(a, e) /\ SameRest(a, e)
  <2> DEFINE t == [r.orders EXCEPT ![k] = o]
  <2>1. a = [r EXCEPT !.orders = t] /\ e.orders = t
    BY DEF Put
  <2> HIDE DEF t, a
  <2>2. /\ a.orders = t /\ a.sources = r.sources /\ a.active = r.active /\ a.heap = r.heap
        /\ a.version = r.version /\ a.c = r.c /\ a.out = r.out /\ a.missed = r.missed
    BY <1>1, <2>1 DEF IsReplay, Fields
  <2> QED  BY <2>1, <2>2 DEF SameBook, SameRest
<1> HIDE DEF a
<1>4. Orders(e, i) /\ Heap(e, {})
  BY <1>2, <1>3, SameBookKept DEF Sound, SameRest
<1>5. Sound(e, i, {})
  BY <1>2, <1>3, <1>4 DEF Sound, SameRest
<1>6. Kept(r, e, {k})
  BY <1>2, <1>3 DEF Kept, SameBook, SameRest
<1> QED  BY <1>5, <1>6 DEF SameRest

LEMMA TargetIs ==
    ASSUME NEW r, NEW i, NEW S, Sound(r, i, S), NEW id
    PROVE  LET own == Owned(r.lots, SideOf(r.size), id)
           IN  /\ TargetOpenQty(r, id) = own /\ own \in Nat /\ own <= Size(r.size)
               /\ Owned(r.lots, SideOf(r.size), NoId) = Size(r.size)
<1> DEFINE side == SideOf(r.size)
<1>1. /\ r.size \in Int /\ r.lots \in Seq(Lot) /\ r.size = Held(r.lots) /\ OfSide(r.lots, side)
  BY SoundIs
<1>2. side \in Side
  BY <1>1, SideOfIs
<1> HIDE DEF side
<1>3. /\ Owned(r.lots, side, id) \in Nat /\ Owned(r.lots, side, id) <= Size(r.size)
      /\ Owned(r.lots, side, NoId) = Size(r.size)
  <2>1. Owned(r.lots, side, id) \in Nat /\ Owned(r.lots, side, id) <= Size(Held(r.lots))
    BY <1>1, <1>2, Holding
  <2>2. Held(r.lots) = Sign(side) * Owned(r.lots, side, NoId) /\ Owned(r.lots, side, NoId) \in Nat
    BY <1>1, <1>2, SidedSums
  <2>3. Size(Held(r.lots)) = Owned(r.lots, side, NoId)
    BY <1>2, <2>2, SideSign DEF Size, Max2
  <2> QED  BY <1>1, <2>1, <2>3
<1>4. TargetOpenQty(r, id) = Owned(r.lots, side, id)
  <2>1. CASE id = NoId
    BY <1>3, <2>1 DEF TargetOpenQty
  <2>2. CASE id # NoId
    BY <2>2 DEF TargetOpenQty, Total, Owned, QtysOf, side
  <2> QED  BY <2>1, <2>2
<1> QED  BY <1>3, <1>4 DEF side

\* An order that closes takes no more than its target and the position have.
LEMMA CloseQtyIs ==
    ASSUME NEW r, NEW i, NEW S, Sound(r, i, S), NEW o, SoundOrder(o),
           o.type \in {"close", "close_all", "exit"}
    PROVE  LET q == CloseQty(r, o)
           IN  /\ q \in Nat /\ q <= Size(r.size)
               /\ q <= Owned(r.lots, SideOf(r.size), IF o.fresh THEN NoId ELSE Target(o))
<1> DEFINE own(id) == Owned(r.lots, SideOf(r.size), id)
           q == CloseQty(r, o)
           target == TargetOpenQty(r, Target(o))
<1>1. /\ target = own(Target(o)) /\ own(Target(o)) \in Nat /\ own(Target(o)) <= Size(r.size)
      /\ own(NoId) = Size(r.size)
  BY TargetIs
<1>2. Size(r.size) \in Nat
  BY SideOfIs, SoundIs
<1>3. Requested(target, o.qty) \in Nat
  BY <1>1 DEF Requested, SoundOrder
<1>4. q = IF o.type = "close_all" THEN Size(r.size)
          ELSE IF o.type = "close" THEN Min2(Min2(target, Size(r.size)), Requested(target, o.qty))
          ELSE Min2(target, Requested(target, o.qty))
  BY DEF CloseQty
<1>5. o.type = "close_all" => Target(o) = NoId
  BY DEF Target
<1> HIDE DEF target, q, own
<1>6. CASE o.type = "close_all"
  BY <1>1, <1>2, <1>4, <1>5, <1>6 DEF q, own
<1>7. CASE o.type # "close_all"
  <2>1. q \in Nat /\ q <= target
    BY <1>1, <1>2, <1>3, <1>4, <1>7 DEF Min2
  <2> QED  BY <1>1, <1>2, <2>1 DEF q, own
<1> QED  BY <1>6, <1>7

LEMMA CloseFillIs ==
    ASSUME NEW r, NEW i, Sound(r, i, {}), NEW k, Fresh(r, k),
           r.orders[k].type \in {"close", "close_all", "exit"}
    PROVE  LET d == CloseFill(r, k)
           IN  Sound(d, i, {}) /\ d.out = r.out /\ Kept(r, d, {k})
<1> DEFINE o == r.orders[k]
           q == CloseQty(r, o)
           side == SideOf(r.size)
           s == Opposite(side)
           next == r.size + Sign(s) * q
           price == Slipped(r.c, o.price, s)
           b == Recorded(r, k, next, price)
           avg == IF next = 0 THEN 0 ELSE AverageOfLots(b.lots)
           grown == Grown(r, next)
           u == [o EXCEPT !.active = TRUE, !.shown = price]
           seen == o.type = "exit" /\ r.c.onClose /\ ~o.fresh
           d == CloseFill(r, k)
<1>1. /\ IsReplay(r) /\ r.c \in Config /\ Len(r.orders) \in Nat /\ r.size \in Int
      /\ k \in 1 .. Len(r.orders) /\ SoundOrder(o) /\ Undecided(o) /\ k \notin r.active
      /\ Balanced(r, r.size) /\ Locks(r)
  BY SoundIs DEF Sound, Fresh
<1>2. CASE r.size = 0 \/ q = 0
  <2>1. d = r
    BY <1>2 DEF CloseFill
  <2> QED  BY <1>1, <2>1, KeptItself
<1>3. CASE r.size # 0 /\ q # 0
  <2>1. /\ q \in Nat /\ q <= Size(r.size)
        /\ q <= Owned(r.lots, SideOf(r.size), IF o.fresh THEN NoId ELSE Target(o))
    BY <1>1, CloseQtyIs
  <2>2. side \in Side /\ s \in Side /\ Sign(s) = -Sign(side) /\ Sign(side) \in {1, -1}
    BY <1>1, SideOfIs DEF Opposite, Side, Sign
  <2>3. r.size = Sign(side) * Size(r.size) /\ Size(r.size) \in Nat
    BY <1>1, <1>3, SideOfIs
  <2>4. price \in Int
    BY <1>1, <2>2, ConfigIs, SMTT(30) DEF Slipped, SoundOrder
  <2> HIDE DEF q, side
  <2>5. next \in Int /\ Size(next - r.size) = q /\ Size(next) <= Size(r.size) /\ ~(next * r.size < 0)
    <3>1. PICK z \in Nat : z = Size(r.size) /\ q <= z
      BY <2>1, <2>3
    <3>2. CASE Sign(side) = 1
      <4>1. next = z - q /\ r.size = z
        BY <2>1, <2>2, <2>3, <3>1, <3>2
      <4>2. (z - q) * z >= 0
        BY <2>1, <3>1
      <4> QED  BY <2>1, <3>1, <4>1, <4>2 DEF Size, Max2
    <3>3. CASE Sign(side) = -1
      <4>1. next = -(z - q) /\ r.size = -z
        BY <2>1, <2>2, <2>3, <3>1, <3>3
      <4> HIDE DEF next
      <4>2. PICK w \in Nat : w = z - q
        BY <2>1, <3>1
      <4>3. next = -w /\ next - r.size = q /\ w <= z
        <5>1. q \in Nat /\ z \in Nat /\ q <= z /\ w \in Nat /\ w = z - q
          BY <2>1, <3>1, <4>2
        <5>2. z - q \in Int /\ -(z - q) = -w
          BY ONLY <5>1
        <5>3. next = -w /\ r.size = -z
          BY <4>1, <5>2
        <5>4. (-w) - (-z) = q /\ w <= z
          BY ONLY <5>1
        <5> QED  BY <5>3, <5>4
      <4>4. w * z >= 0 /\ next * r.size = w * z
        BY <3>1, <4>1, <4>2, <4>3
      <4>5. next \in Int /\ Size(next) = w
        BY <4>2, <4>3 DEF Size, Max2
      <4>6. Size(next - r.size) = q
        BY <2>1, <4>3 DEF Size, Max2
      <4>7. w * z \in Nat
        BY <3>1, <4>2
      <4>8. ~(next * r.size < 0)
        BY ONLY <4>4, <4>7
      <4> QED  BY <3>1, <4>3, <4>5, <4>6, <4>8
    <3> QED  BY <2>2, <3>2, <3>3
  <2> HIDE DEF s, next, price
  <2>6. ToClose(r, next) <= q
    BY <1>1, <2>1, <2>3, <2>5 DEF ToClose, Min2
  <2>7. ToClose(r, next) <= Owned(r.lots, SideOf(r.size), IF o.fresh THEN NoId ELSE Target(o))
    <3>1. ToClose(r, next) \in Nat
      BY <1>1, <2>5, ToCloseBound
    <3>2. Owned(r.lots, SideOf(r.size), IF o.fresh THEN NoId ELSE Target(o)) \in Nat
      BY TargetIs
    <3> QED  BY <2>1, <2>6, <3>1, <3>2
  <2>8. r.orders[k].id \in Ids \cup {NoId} /\ k \in Nat
    BY <1>1 DEF SoundOrder
  <2>9. /\ IsReplay(b) /\ SameBook(r, b) /\ SameLocks(r, b) /\ SameRest(r, b)
        /\ b.size = r.size /\ Balanced(b, next)
    BY <1>1, <2>4, <2>5, <2>7, <2>8, RecordedIs
  <2>10. d = [b EXCEPT !.size = next, !.avg = avg,
                       !.orders = [b.orders EXCEPT ![k] = [b.orders[k] EXCEPT !.active = TRUE, !.shown = price]],
                       !.grew = b.grew \/ grown, !.visible = b.visible \/ seen]
    <3>1. d = [CoveredLots(r, k, next, price) EXCEPT !.visible = @ \/ seen]
      BY <1>3 DEF CloseFill, q, s, next, price, side
    <3>2. CoveredLots(r, k, next, price)
            = [b EXCEPT !.size = next, !.avg = avg,
                        !.orders = [b.orders EXCEPT ![k] = [b.orders[k] EXCEPT !.active = TRUE, !.shown = price]],
                        !.grew = b.grew \/ grown]
      BY DEF CoveredLots
    <3> DEFINE t == [b.orders EXCEPT ![k] = [b.orders[k] EXCEPT !.active = TRUE, !.shown = price]]
               g == b.grew \/ grown
    <3> HIDE DEF b, avg, seen, t, g, d
    <3>3. CoveredLots(r, k, next, price) = [b EXCEPT !.size = next, !.avg = avg, !.orders = t, !.grew = g]
      BY <3>2 DEF t, g
    <3>4. CoveredLots(r, k, next, price).visible = b.visible
      BY <2>9, <3>3 DEF IsReplay, Fields
    <3>5. d = [b EXCEPT !.size = next, !.avg = avg, !.orders = t, !.grew = g,
                        !.visible = b.visible \/ seen]
      BY <2>9, <3>1, <3>3, <3>4 DEF IsReplay, Fields
    <3> QED  BY <3>5 DEF t, g
  <2>11. ~grown
    <3>1. Size(next) \in Nat /\ Size(r.size) \in Nat
      BY <1>1, <2>5, SideOfIs
    <3> QED  BY <2>5, <3>1 DEF Grown
  <2>12. b.orders = r.orders
    BY <2>9 DEF SameBook
  <2> HIDE DEF b, grown, avg, seen, d
  <2>13. /\ IsReplay(d) /\ d.orders = [r.orders EXCEPT ![k] = u] /\ d.sources = b.sources
         /\ d.active = b.active /\ d.heap = b.heap /\ d.version = b.version
         /\ SameRest(b, d) /\ d.size = next /\ SameMoney(b, d) /\ d.locked = b.locked
         /\ d.filled = b.filled /\ d.filledLocked = b.filledLocked /\ d.grew = (b.grew \/ grown)
    <3> DEFINE t == [r.orders EXCEPT ![k] = u]
               g == b.grew \/ grown
               y == b.visible \/ seen
    <3>1. d = [b EXCEPT !.size = next, !.avg = avg, !.orders = t, !.grew = g, !.visible = y]
      BY <2>10, <2>12
    <3> HIDE DEF t, g, y
    <3>2. /\ IsReplay(d) /\ d.orders = t /\ d.sources = b.sources
          /\ d.active = b.active /\ d.heap = b.heap /\ d.version = b.version
          /\ SameRest(b, d) /\ d.size = next /\ SameMoney(b, d) /\ d.locked = b.locked
          /\ d.filled = b.filled /\ d.filledLocked = b.filledLocked /\ d.grew = g
      BY <2>9, <3>1 DEF IsReplay, Fields, SameMoney, SameRest
    <3> QED  BY <3>2 DEF t, g
  <2>14. /\ d.sources = r.sources /\ d.active = r.active /\ d.heap = r.heap
         /\ d.version = r.version /\ SameRest(r, d)
    BY <2>9, <2>13 DEF SameBook, SameRest, SameLocks
  <2>15. Balanced(d, d.size)
    BY <2>9, <2>13 DEF Balanced, SameMoney
  <2>16. Locks(d)
    <3>1. ~d.grew
      BY <1>1, <2>9, <2>11, <2>13 DEF Locks, SameLocks
    <3> QED  BY <1>1, <2>9, <2>13, <2>14, <3>1 DEF Locks, SameLocks, SameRest
  <2>17. SoundOrder(u) /\ SameTerms(r.orders[k], u)
    BY <1>1, Ended
  <2> HIDE DEF u
  <2>18. /\ Sound(r, i, {}) /\ k \in 1 .. Len(r.orders) /\ k \notin r.active
         /\ IsReplay(d) /\ SoundOrder(u) /\ SameTerms(r.orders[k], u)
         /\ d.orders = [r.orders EXCEPT ![k] = u]
         /\ d.sources = r.sources /\ d.active = r.active /\ d.heap = r.heap
         /\ d.version = r.version /\ SameRest(r, d) /\ Balanced(d, d.size) /\ Locks(d)
    BY <1>1, <2>13, <2>14, <2>15, <2>16, <2>17
  <2>19. Sound(d, i, {}) /\ d.out = r.out /\ Kept(r, d, {k})
    BY ONLY <2>18, EndedOff
  <2> QED  BY <2>19 DEF d
<1> QED  BY <1>2, <1>3

-----------------------------------------------------------------------------
(* Commands.                                                               *)

LEMMA CancelDispatchedIs ==
    ASSUME NEW r, NEW i, Sound(r, i, {}), NEW k, Fresh(r, k)
    PROVE  LET d == CancelDispatched(r, k)
           IN  Sound(d, i, {}) /\ d.out = r.out /\ Kept(r, d, {k})
<1> DEFINE o == r.orders[k]
           gone == {j \in r.active : o.type = "cancel_all" \/ r.orders[j].id = o.id}
           b == CanceledAll(r, gone)
           x == b.orders[k].active \/ gone # {}
           u == [b.orders[k] EXCEPT !.active = x]
           d == CancelDispatched(r, k)
<1>1. gone \subseteq r.active /\ Len(r.orders) \in Nat /\ k \in 1 .. Len(r.orders)
  BY SoundIs DEF Fresh
<1>2. d = Put(b, k, u)
  BY DEF CancelDispatched, Put
<1> HIDE DEF gone
<1>3. /\ Sound(b, i, {}) /\ b.active = r.active \ gone /\ b.out = r.out
      /\ Len(b.orders) = Len(r.orders) /\ Kept(r, b, {})
  BY <1>1, CanceledAllIs
<1> HIDE DEF b, x, d
<1>4. Fresh(b, k)
  BY <1>1, <1>3, FreshKept
<1>5. k \in 1 .. Len(b.orders) /\ SoundOrder(b.orders[k]) /\ Undecided(b.orders[k]) /\ k \notin b.active
  BY <1>3, <1>4, SoundIs DEF Fresh
<1>6. SoundOrder(u) /\ SameTerms(b.orders[k], u)
  BY <1>5 DEF SoundOrder, Undecided, IsTrade, IsOrder, OrderFields, SameTerms
<1> HIDE DEF u
<1>7. /\ Sound(d, i, {}) /\ d.active = b.active /\ d.out = b.out
      /\ Len(d.orders) = Len(b.orders) /\ Kept(b, d, {k})
  <2>1. /\ Sound(b, i, {}) /\ k \in 1 .. Len(b.orders) /\ SoundOrder(u)
        /\ SameTerms(b.orders[k], u) /\ (k \in b.active => Undecided(u))
    BY <1>3, <1>5, <1>6
  <2>2. LET a == Put(b, k, u)
        IN  /\ Sound(a, i, {}) /\ a.active = b.active /\ a.out = b.out
            /\ Len(a.orders) = Len(b.orders) /\ Kept(b, a, {k})
    BY ONLY <2>1, PutIs
  <2> QED  BY <1>2, <2>2
<1>8. Kept(r, d, {k})
  <2>1. Kept(r, b, {k})
    BY <1>3, KeptMore
  <2> QED  BY <1>1, <1>3, <1>7, <2>1, KeptOn
<1> QED  BY <1>3, <1>7, <1>8 DEF d

LEMMA DispatchedIs ==
    ASSUME NEW r, NEW i, Sound(r, i, {}), NEW k, Fresh(r, k), r.orders[k].submit <= i
    PROVE  LET d == Dispatched(r, k, i)
           IN  Sound(d, i, {}) /\ d.out = r.out /\ Kept(r, d, {k})
<1> DEFINE o == r.orders[k]
           d == Dispatched(r, k, i)
<1>1. /\ Len(r.orders) \in Nat /\ k \in 1 .. Len(r.orders) /\ SoundOrder(o)
      /\ Undecided(o) /\ k \notin r.active /\ o.type \in Types
  BY SoundIs DEF Fresh, SoundOrder
<1>2. IsTrade(o) => LET e == Rejected(r, k)
                    IN  Sound(e, i, {}) /\ e.out = r.out /\ Kept(r, e, {k})
  BY <1>1, RejectedIs
<1>3. IsTrade(o) => LET e == Added(r, k)
                    IN  Sound(e, i, {}) /\ e.out = r.out /\ Kept(r, e, {k})
  BY <1>1, AddedIs
<1>4. IsTrade(o) /\ ~r.locked => LET e == MarketFill(r, k, i)
                                 IN  Sound(e, i, {}) /\ e.out = r.out /\ Kept(r, e, {k})
  BY <1>1, MarketFillIs
<1>5. CASE o.type = "entry"
  <2>1. IsTrade(o)
    BY <1>5 DEF IsTrade
  <2>2. d = EntryDispatched(r, k, i)
    BY <1>5 DEF Dispatched
  <2> DEFINE gone == MarketEntries(r, o)
             b == CanceledAll(r, gone)
  <2>3. \/ d = Rejected(r, k)
        \/ ~r.locked /\ d = MarketFill(r, k, i)
        \/ d = Rejected(b, k)
        \/ d = Added(r, k)
    BY <2>2 DEF EntryDispatched
  <2>4. CASE d = Rejected(b, k)
    <3>1. gone \subseteq r.active
      BY DEF MarketEntries
    <3> HIDE DEF gone
    <3>2. /\ Sound(b, i, {}) /\ b.active = r.active \ gone /\ b.out = r.out
          /\ Len(b.orders) = Len(r.orders) /\ Kept(r, b, {})
      BY <3>1, CanceledAllIs
    <3> HIDE DEF b, d
    <3>3. Fresh(b, k) /\ b.orders[k] = r.orders[k]
      BY <1>1, <3>2, FreshKept
    <3>4. Sound(d, i, {}) /\ d.out = b.out /\ Kept(b, d, {k})
      BY <1>1, <2>1, <2>4, <3>2, <3>3, RejectedIs DEF Fresh
    <3>5. Kept(r, b, {k}) /\ Len(d.orders) \in Nat
      BY <3>2, <3>4, KeptMore, SoundIs
    <3>6. Kept(r, d, {k})
      BY <1>1, <3>2, <3>4, <3>5, KeptOn
    <3> QED  BY <3>2, <3>4, <3>6 DEF d
  <2> HIDE DEF d
  <2>5. CASE d # Rejected(b, k)
    BY <1>2, <1>3, <1>4, <2>1, <2>3, <2>5 DEF d
  <2> QED  BY <2>4, <2>5 DEF d
<1>6. CASE o.type = "order"
  <2>1. IsTrade(o)
    BY <1>6 DEF IsTrade
  <2>2. d = OrderDispatched(r, k, i)
    BY <1>6 DEF Dispatched
  <2>3. \/ d = Rejected(r, k)
        \/ ~r.locked /\ d = MarketFill(r, k, i)
        \/ d = Added(r, k)
    BY <2>2 DEF OrderDispatched
  <2> HIDE DEF d
  <2> QED  BY <1>2, <1>3, <1>4, <2>1, <2>3 DEF d
<1>7. CASE o.type \in {"close", "close_all", "exit"}
  <2>1. d = CloseFill(r, k)
    BY <1>7 DEF Dispatched
  <2> HIDE DEF d
  <2> QED  BY <1>7, <2>1, CloseFillIs DEF d
<1>8. CASE o.type \in {"cancel", "cancel_all"}
  <2>1. d = CancelDispatched(r, k)
    BY <1>8 DEF Dispatched
  <2> HIDE DEF d
  <2> QED  BY <2>1, CancelDispatchedIs DEF d
<1> QED  BY <1>1, <1>5, <1>6, <1>7, <1>8 DEF Types

-----------------------------------------------------------------------------
(* The chart, and the orders that the calls make.                          *)

Chart ==
    /\ Len(bars) \in Nat \ {0} /\ DOMAIN bars = 1 .. Len(bars)
    /\ \A i \in 1 .. Len(bars) : bars[i] \in OkBar
Sayable(s) == s \in Command /\ (s.type \in {"entry", "order"} => s.qty \in Nat)

LEMMA ChartIs ==
    ASSUME WellFormed, case \in Cases, bars \in Histories[case]
    PROVE  Chart
<1>1. /\ bars \in Seq(Bar) /\ bars # << >>
      /\ \A i \in DOMAIN bars : /\ bars[i].low <= bars[i].open /\ bars[i].open <= bars[i].high
                                /\ bars[i].low <= bars[i].close /\ bars[i].close <= bars[i].high
  BY DEF WellFormed
<1>2. Len(bars) \in Nat \ {0} /\ DOMAIN bars = 1 .. Len(bars)
  BY <1>1
<1>3. \A i \in 1 .. Len(bars) : bars[i] \in Bar
  BY <1>1
<1> QED  BY <1>1, <1>2, <1>3 DEF Chart, OkBar

LEMMA CallsAre ==
    ASSUME WellFormed, case \in Cases, bars \in Histories[case]
    PROVE  /\ case \in Config /\ Changes[case] \subseteq Config /\ CallLimit[case] \in Nat
           /\ \A k \in Calls[case] : Sayable(k.command) /\ k.when \subseteq DOMAIN bars
BY DEF WellFormed, Sayable

LEMMA OrderOfIs ==
    ASSUME Chart, NEW c, NEW s, Sayable(s), NEW i \in 1 .. Len(bars)
    PROVE  LET o == OrderOfCommand(c, s, i)
           IN  SoundOrder(o) /\ Undecided(o) /\ o.submit = i /\ o.type = s.type
<1> DEFINE o == OrderOfCommand(c, s, i)
           market == s.type = "entry" /\ c.onClose /\ s.limit = NoPrice /\ s.stop = NoPrice
           price == bars[i].close
<1>1. price \in Int
  BY BarIs DEF Chart
<1>2. /\ s.type \in Types /\ s.id \in Ids \cup {NoId} /\ s.side \in Side
      /\ s.qty \in Nat \cup {NoQty} /\ s.limit \in Nat \cup {NoPrice} /\ s.stop \in Nat \cup {NoPrice}
      /\ s.type \in {"entry", "order"} => s.qty \in Nat
  BY DEF Sayable, Command
<1>3. o = [type |-> s.type, id |-> s.id, from |-> s.from, side |-> s.side, want |-> s.qty,
           qty |-> s.qty, limit |-> s.limit, stop |-> s.stop, group |-> s.group, oca |-> s.oca,
           market |-> market, submit |-> i, time |-> i, price |-> price, shown |-> price,
           fresh |-> FALSE, risk |-> FALSE, active |-> FALSE, canceled |-> FALSE,
           rejected |-> FALSE, armed |-> FALSE]
  BY DEF OrderOfCommand
<1> HIDE DEF o, market, price
<1>4. /\ IsOrder(o) /\ o.type = s.type /\ o.id = s.id /\ o.side = s.side /\ o.want = s.qty
      /\ o.qty = s.qty /\ o.limit = s.limit /\ o.stop = s.stop /\ o.submit = i /\ o.time = i
      /\ o.price = price /\ ~o.active /\ ~o.canceled /\ ~o.rejected
  BY <1>3 DEF IsOrder, OrderFields
<1>5. /\ i \in DOMAIN bars /\ i \in i .. Len(bars)
  BY DEF Chart
<1>6. s.qty \in Nat => s.qty <= s.qty
  OBVIOUS
<1> QED  BY <1>1, <1>2, <1>4, <1>5, <1>6 DEF SoundOrder, Undecided, IsTrade, o

\* A step that leaves orders and money alone.
LEMMA SoundIfSame ==
    ASSUME NEW r, NEW i, NEW S, Sound(r, i, S), NEW d, IsReplay(d), SameBook(r, d), SameMoney(r, d),
           d.size = r.size, d.c = r.c, d.missed = r.missed, IsSeries(d.out), Locks(d)
    PROVE  Sound(d, i, S) /\ Kept(r, d, {})
<1>1. Orders(r, i) /\ Heap(r, S) /\ Len(r.orders) \in Nat
  BY SoundIs
<1>2. Orders(d, i) /\ Heap(d, S)
  BY <1>1, SameBookKept
<1>3. Balanced(d, d.size)
  BY DEF Sound, Balanced, SameMoney
<1>4. Sound(d, i, S)
  BY <1>2, <1>3 DEF Sound
<1>5. Kept(r, d, {})
  BY <1>1 DEF Kept, SameBook
<1> QED  BY <1>4, <1>5

LEMMA WithOrderIs ==
    ASSUME NEW r, NEW i, Sound(r, i, {}), NEW o, SoundOrder(o)
    PROVE  LET d == WithOrder(r, o)
           IN  /\ Sound(d, i, {}) /\ d.out = r.out /\ Kept(r, d, {}) /\ SameLocks(r, d)
               /\ d.size = r.size /\ d.lots = r.lots /\ d.active = r.active
               /\ Len(d.orders) = Len(r.orders) + 1
               /\ d.orders[Len(d.orders)] = o
<1> DEFINE d == WithOrder(r, o)
           t == Append(r.orders, o)
           v == Append(r.version, 0)
           N == Len(r.orders)
<1>1. /\ IsReplay(r) /\ IsSeries(r.orders) /\ IsSeries(r.version) /\ N \in Nat
      /\ Len(r.version) = N /\ \A k \in 1 .. N : SoundOrder(r.orders[k])
      /\ \A k \in r.active : /\ k \in 1 .. N /\ IsTrade(r.orders[k]) /\ Undecided(r.orders[k])
                             /\ r.orders[k].submit <= i
      /\ r.sources \in 0 .. N /\ Heap(r, {})
  BY SoundIs DEF Orders
<1>2. IsSeries(t) /\ Len(t) = N + 1 /\ t[N + 1] = o /\ \A k \in 1 .. N : t[k] = r.orders[k]
  BY <1>1, SeriesAppend
<1>3. IsSeries(v) /\ Len(v) = N + 1 /\ \A k \in 1 .. N : v[k] = r.version[k]
  BY <1>1, SeriesAppend
<1>4. d = [r EXCEPT !.orders = t, !.version = v]
  BY DEF WithOrder
<1> HIDE DEF t, v, d, N
<1>5. /\ IsReplay(d) /\ d.orders = t /\ d.version = v /\ d.sources = r.sources
      /\ d.active = r.active /\ d.heap = r.heap /\ d.size = r.size
      /\ SameMoney(r, d) /\ SameLocks(r, d) /\ SameRest(r, d)
  BY <1>1, <1>4 DEF IsReplay, Fields, SameMoney, SameLocks, SameRest
<1>6. Orders(d, i)
  <2>1. \A k \in 1 .. N + 1 : SoundOrder(t[k])
    <3>1. \A k \in 1 .. N + 1 : k \in 1 .. N \/ k = N + 1
      BY <1>1
    <3> QED  BY <1>1, <1>2, <3>1
  <2>2. \A k \in r.active : /\ k \in 1 .. N + 1 /\ t[k] = r.orders[k]
    BY <1>1, <1>2
  <2>3. r.sources \in 0 .. N + 1
    BY <1>1
  <2> QED  BY <1>1, <1>2, <1>3, <1>5, <2>1, <2>2, <2>3 DEF Orders
<1>7. Heap(d, {})
  <2> SUFFICES ASSUME NEW k \in r.active, NEW x \in Thresholds(r.c, r.orders[k])
               PROVE  Entry(r, k, x) \in r.heap
    BY <1>1, <1>2, <1>3, <1>5 DEF Heap, Indexed, Entry, SameRest
  <2> QED  BY <1>1 DEF Heap, Indexed
<1>8. Sound(d, i, {})
  BY <1>5, <1>6, <1>7, SoundOn
<1>9. Kept(r, d, {})
  BY <1>1, <1>2, <1>5 DEF Kept, SameRest, N
<1> QED  BY <1>2, <1>5, <1>8, <1>9 DEF d, N, SameMoney, SameRest

-----------------------------------------------------------------------------
(* Bars.                                                                   *)

LEMMA VisibleIs ==
    ASSUME NEW r, NEW i, NEW S, Sound(r, i, S), NEW x
    PROVE  LET d == [r EXCEPT !.visible = x]
           IN  /\ Sound(d, i, S) /\ d.out = r.out /\ Kept(r, d, {})
               /\ d.orders = r.orders /\ d.active = r.active
<1> DEFINE d == [r EXCEPT !.visible = x]
<1>1. IsReplay(r) /\ Locks(r) /\ IsSeries(r.out)
  BY DEF Sound
<1>2. /\ IsReplay(d) /\ SameBook(r, d) /\ SameMoney(r, d) /\ SameLocks(r, d) /\ SameRest(r, d)
      /\ d.size = r.size
  BY <1>1 DEF IsReplay, Fields, SameBook, SameMoney, SameLocks, SameRest
<1> HIDE DEF d
<1>3. Locks(d)
  BY <1>1, <1>2 DEF Locks, SameLocks, SameRest
<1>4. Sound(d, i, S) /\ Kept(r, d, {})
  BY <1>1, <1>2, <1>3, SoundIfSame DEF SameRest
<1> QED  BY <1>2, <1>4 DEF d, SameRest, SameBook

LEMMA StartedIs ==
    ASSUME NEW r, NEW i, NEW S, Sound(r, i, S)
    PROVE  LET d == Started(r, i)
           IN  /\ Sound(d, i, S) /\ d.out = r.out /\ Kept(r, d, {})
               /\ d.orders = r.orders /\ d.active = r.active
<1> DEFINE top == IF i = 1 THEN r.c.capital ELSE r.out[i - 1].equity
           hit == FilledHit(r.c, 0)
           new == [r EXCEPT !.dayLocked = FALSE, !.filledLocked = hit, !.filled = 0, !.dayPeak = top]
           day == IF ~bars[i].first THEN r ELSE new
           x == day.drawdownLocked \/ day.dayLocked \/ day.filledLocked
           d == Started(r, i)
<1>1. IsReplay(r) /\ Locks(r) /\ IsSeries(r.out) /\ r.c \in Config
  BY DEF Sound
<1>2. d = [day EXCEPT !.locked = x]
  BY DEF Started
<1> HIDE DEF top, hit
<1>3. /\ IsReplay(new) /\ SameBook(r, new) /\ SameMoney(r, new) /\ SameRest(r, new)
      /\ new.size = r.size /\ new.filled = 0 /\ new.filledLocked = hit /\ new.grew = r.grew
  BY <1>1 DEF IsReplay, Fields, SameBook, SameMoney, SameRest
<1> HIDE DEF new
<1>4. /\ IsReplay(day) /\ SameBook(r, day) /\ SameMoney(r, day) /\ SameRest(r, day)
      /\ day.size = r.size /\ day.grew = r.grew
      /\ \/ day.filled = 0 /\ day.filledLocked = hit
         \/ day.filled = r.filled /\ day.filledLocked = r.filledLocked
  BY <1>1, <1>3 DEF SameBook, SameMoney, SameRest
<1> HIDE DEF day, x, d
<1>5. /\ IsReplay(d) /\ SameBook(day, d) /\ SameMoney(day, d) /\ SameRest(day, d)
      /\ d.size = day.size /\ d.filled = day.filled /\ d.filledLocked = day.filledLocked
      /\ d.grew = day.grew /\ d.locked = x
  BY <1>2, <1>4 DEF IsReplay, Fields, SameBook, SameMoney, SameRest
<1>6. Locks(d)
  <2>1. r.c.maxFilled \in Nat \cup {Unlimited} /\ d.c = r.c /\ ~d.grew
    BY <1>1, <1>4, <1>5, ConfigIs DEF Locks, SameRest
  <2>5. r.c.maxFilled # Unlimited /\ ~hit => 0 < r.c.maxFilled
    BY <2>1 DEF hit, FilledHit, Unlimited
  <2>2. day.filledLocked => x
    BY DEF x
  <2>3. d.filledLocked => d.locked
    BY <1>5, <2>2
  <2>4. /\ d.filled \in Nat
        /\ d.c.maxFilled # Unlimited => /\ d.filled <= d.c.maxFilled
                                        /\ ~d.filledLocked => d.filled < d.c.maxFilled
    BY <1>1, <1>4, <1>5, <2>1, <2>5 DEF Locks, Unlimited
  <2> QED  BY <2>1, <2>3, <2>4 DEF Locks
<1>7. SameBook(r, d) /\ SameMoney(r, d) /\ SameRest(r, d) /\ d.size = r.size
  BY <1>4, <1>5 DEF SameBook, SameMoney, SameRest
<1>8. Sound(d, i, S) /\ Kept(r, d, {})
  BY <1>1, <1>5, <1>6, <1>7, SoundIfSame DEF SameRest
<1> QED  BY <1>7, <1>8 DEF d, SameRest, SameBook

LEMMA WrittenIs ==
    ASSUME NEW r, NEW i \in Nat \ {0}, NEW S, Sound(r, i, S), i - 1 <= Len(r.out)
    PROVE  LET d == Written(r, i)
           IN  Sound(d, i, S) /\ Len(d.out) = i /\ Kept(r, d, {})
<1> DEFINE seen == [size |-> r.size, avg |-> r.avg, equity |-> ReplayEquity(r, bars[i].close),
                    closed |-> r.closed, open |-> Len(r.lots), lots |-> r.lots]
           events == IF i \in DOMAIN r.trail THEN r.trail[i] \o r.events ELSE r.events
           out == Append(SubSeq(r.out, 1, i - 1), seen)
           trail == Append(SubSeq(r.trail, 1, i - 1), events)
           d == Written(r, i)
<1>1. IsReplay(r) /\ Locks(r) /\ IsSeries(r.out)
  BY DEF Sound
<1>2. d = [r EXCEPT !.out = out, !.trail = trail, !.events = << >>]
  BY DEF Written
<1> HIDE DEF seen, events
<1>3. IsSeries(out) /\ Len(out) = i
  <2>1. i - 1 \in Nat
    OBVIOUS
  <2>2. IsSeries(SubSeq(r.out, 1, i - 1)) /\ Len(SubSeq(r.out, 1, i - 1)) = i - 1
    BY <1>1, <2>1, SeriesCut
  <2>3. IsSeries(out) /\ Len(out) = (i - 1) + 1
    BY <2>2, SeriesAppend
  <2> QED  BY <2>3
<1> HIDE DEF out, trail, d
<1>4. /\ IsReplay(d) /\ SameBook(r, d) /\ SameMoney(r, d) /\ SameLocks(r, d) /\ d.c = r.c
      /\ d.missed = r.missed /\ d.out = out /\ d.size = r.size
  BY <1>1, <1>2 DEF IsReplay, Fields, SameBook, SameMoney, SameLocks
<1>5. Locks(d)
  BY <1>1, <1>4 DEF Locks, SameLocks
<1>6. Sound(d, i, S) /\ Kept(r, d, {})
  BY <1>3, <1>4, <1>5, SoundIfSame
<1> QED  BY <1>3, <1>4, <1>6 DEF d

LEMMA FinishedIs ==
    ASSUME NEW r, NEW i, NEW S, Sound(r, i, S)
    PROVE  LET d == Finished(r, i)
           IN  Sound(d, i, S) /\ d.out = r.out /\ Kept(r, d, {})
<1> DEFINE equity == ReplayEquity(r, bars[i].close)
           top == Max2(r.peak, equity)
           dayTop == Max2(r.dayPeak, equity)
           drawdown == r.drawdownLocked \/ LossHit(r.c, equity, top, r.c.maxDrawdown)
           day == r.dayLocked \/ LossHit(r.c, equity, dayTop, r.c.maxLoss)
           x == drawdown \/ day \/ r.filledLocked
           d == Finished(r, i)
<1>1. IsReplay(r) /\ Locks(r) /\ IsSeries(r.out)
  BY DEF Sound
<1>2. d = [r EXCEPT !.peak = top, !.dayPeak = dayTop, !.drawdownLocked = drawdown,
                    !.dayLocked = day, !.locked = x]
  BY DEF Finished
<1>3. r.filledLocked => x
  OBVIOUS
<1> HIDE DEF top, dayTop, drawdown, day, x, d
<1>4. /\ IsReplay(d) /\ SameBook(r, d) /\ SameMoney(r, d) /\ SameRest(r, d) /\ d.size = r.size
      /\ d.filled = r.filled /\ d.filledLocked = r.filledLocked /\ d.grew = r.grew /\ d.locked = x
  BY <1>1, <1>2 DEF IsReplay, Fields, SameBook, SameMoney, SameRest
<1>5. Locks(d)
  BY <1>1, <1>3, <1>4 DEF Locks, SameRest
<1>6. Sound(d, i, S) /\ Kept(r, d, {})
  BY <1>1, <1>4, <1>5, SoundIfSame DEF SameRest
<1> QED  BY <1>4, <1>6 DEF d, SameRest

LEMMA LiquidatedIs ==
    ASSUME Chart, NEW r, NEW i \in 1 .. Len(bars), Sound(r, i, {}), NEW opened
    PROVE  LET d == Liquidated(r, i, opened)
           IN  Sound(d, i, {}) /\ d.out = r.out /\ Kept(r, d, {})
<1> DEFINE s == [type |-> "close_all", id |-> NoId, from |-> NoId, side |-> "long",
                 qty |-> Size(r.size), limit |-> NoPrice, stop |-> NoPrice,
                 group |-> NoGroup, oca |-> "none"]
           p == OrderOfCommand(r.c, s, i)
           o == ForceClose(r, i)
           a == WithOrder(r, o)
           b == [a EXCEPT !.dayLocked = TRUE, !.locked = TRUE, !.visible = TRUE]
           k == Len(b.orders)
           price == ForcedPrice(r, i)
           e == Recorded(b, k, 0, price)
           d == Liquidated(r, i, opened)
<1>1. IsReplay(r) /\ r.c \in Config /\ Len(r.orders) \in Nat /\ r.size \in Int
  BY SoundIs
<1>2. CASE ~RiskLiquidates(r, i, opened)
  <2>1. d = r
    BY <1>2 DEF Liquidated
  <2> QED  BY <1>1, <2>1, KeptItself
<1>3. CASE RiskLiquidates(r, i, opened)
  <2>1. Sayable(s)
    <3>1. Size(r.size) \in Nat
      BY <1>1, SideOfIs
    <3> QED  BY <3>1 DEF Sayable, Command, Types, Side
  <2>2. SoundOrder(p) /\ Undecided(p) /\ p.type = "close_all" /\ ~p.fresh
    <3> HIDE DEF s
    <3>1. SoundOrder(p) /\ Undecided(p) /\ p.type = s.type
      BY <2>1, OrderOfIs
    <3> QED  BY <3>1 DEF OrderOfCommand, s
  <2>3. o = [p EXCEPT !.active = TRUE, !.risk = TRUE, !.shown = price]
    BY DEF ForceClose
  <2> HIDE DEF p, o, s
  <2>4. SoundOrder(o) /\ o.type = "close_all" /\ ~o.fresh
    BY <2>2, <2>3 DEF SoundOrder, Undecided, IsTrade, IsOrder, OrderFields
  <2>5. /\ Sound(a, i, {}) /\ a.out = r.out /\ Kept(r, a, {}) /\ a.size = r.size
        /\ a.orders[Len(a.orders)] = o
    BY <2>4, WithOrderIs
  <2> HIDE DEF a
  <2>6. /\ IsReplay(b) /\ SameBook(a, b) /\ SameMoney(a, b) /\ SameRest(a, b)
        /\ b.size = a.size /\ b.filled = a.filled /\ b.filledLocked = a.filledLocked
        /\ b.grew = a.grew /\ b.locked = TRUE
    <3>1. IsReplay(a)
      BY <2>5, SoundIs
    <3> QED  BY <3>1 DEF IsReplay, Fields, SameBook, SameMoney, SameRest
  <2>7. d = [e EXCEPT !.size = 0, !.avg = 0]
    <3>1. b = [WithOrder(r, ForceClose(r, i)) EXCEPT
                 !.dayLocked = TRUE, !.locked = TRUE, !.visible = TRUE]
      BY DEF a, o
    <3> QED  BY <1>3, <3>1 DEF Liquidated
  <2> HIDE DEF b
  <2>8. Locks(a) /\ Locks(b)
    BY <2>5, <2>6 DEF Sound, Locks, SameRest
  <2>9. Sound(b, i, {}) /\ Kept(a, b, {})
    <3>1. b.c = a.c /\ b.missed = a.missed /\ IsSeries(b.out)
      BY <2>5, <2>6 DEF SameRest, Sound
    <3> QED  BY <2>5, <2>6, <2>8, <3>1, SoundIfSame
  <2>10. /\ b.orders[k] = o /\ k \in Nat /\ b.c = r.c /\ b.size = r.size /\ b.c \in Config
         /\ Len(a.orders) \in Nat
    BY <2>5, <2>6, <2>9, SoundIs DEF SameBook, Kept
  <2>11. price \in Int
    <3>1. LiquidationPrice(r, i) \in Int
      BY BarIs DEF Chart, LiquidationPrice
    <3>2. Opposite(SideOf(r.size)) \in Side
      BY DEF Opposite, Side
    <3> QED  BY <1>1, <3>1, <3>2, ConfigIs, SideSign DEF Slipped, ForcedPrice
  <2>12. ToClose(b, 0) <= Owned(b.lots, SideOf(b.size), IF b.orders[k].fresh THEN NoId ELSE Target(b.orders[k]))
    <3>1. Target(o) = NoId
      BY <2>4 DEF Target
    <3>2. Owned(b.lots, SideOf(b.size), NoId) = Size(b.size)
      BY <2>9, TargetIs
    <3>3. ToClose(b, 0) <= Size(b.size)
      <4>1. b.size \in Int /\ 0 \in Int
        BY <1>1, <2>10
      <4> QED  BY ONLY <4>1, ToCloseBound
    <3> QED  BY <2>10, <3>1, <3>2, <3>3
  <2> HIDE DEF k, price, e, d
  <2>13. /\ IsReplay(e) /\ SameBook(b, e) /\ SameLocks(b, e) /\ SameRest(b, e) /\ Balanced(e, 0)
    <3>1. /\ IsReplay(b) /\ b.c \in Config /\ Balanced(b, b.size) /\ k \in Nat
          /\ b.orders[k].id \in Ids \cup {NoId} /\ 0 \in Int /\ price \in Int
      BY <2>4, <2>9, <2>10, <2>11 DEF Sound, SoundOrder
    <3>2. LET x == Recorded(b, k, 0, price)
          IN  /\ IsReplay(x) /\ SameBook(b, x) /\ SameLocks(b, x) /\ SameRest(b, x)
              /\ x.size = b.size /\ Balanced(x, 0)
      BY ONLY <2>12, <3>1, RecordedIs
    <3> QED  BY <3>2 DEF e
  <2>14. /\ IsReplay(d) /\ SameBook(e, d) /\ SameLocks(e, d) /\ SameRest(e, d) /\ SameMoney(e, d)
         /\ d.size = 0
    BY <2>7, <2>13 DEF IsReplay, Fields, SameBook, SameMoney, SameLocks, SameRest
  <2>15. SameBook(b, d) /\ SameLocks(b, d) /\ SameRest(b, d)
    BY <2>13, <2>14 DEF SameBook, SameLocks, SameRest
  <2>16. Balanced(d, d.size)
    BY <2>13, <2>14 DEF Balanced, SameMoney
  <2>17. Locks(d)
    BY <2>8, <2>15 DEF Locks, SameLocks, SameRest
  <2>18. Orders(d, i) /\ Heap(d, {})
    BY <2>9, <2>15, SameBookKept, SoundIs DEF SameRest
  <2>19. Sound(d, i, {})
    BY <2>9, <2>14, <2>15, <2>16, <2>17, <2>18 DEF Sound, SameRest
  <2>20. d.out = r.out
    BY <2>5, <2>6, <2>15 DEF SameRest
  <2>21. Kept(b, d, {})
    BY <2>10, <2>15, <2>9, SoundIs DEF Kept, SameBook, SameRest
  <2>22. Kept(r, d, {})
    <3>1. Len(b.orders) \in Nat /\ Len(d.orders) \in Nat
      BY <2>9, <2>19, SoundIs
    <3>2. Kept(r, b, {})
      BY <1>1, <2>5, <2>9, <2>10, <3>1, KeptOn
    <3> QED  BY <1>1, <2>21, <3>1, <3>2, KeptOn
  <2> QED  BY <2>19, <2>20, <2>22 DEF d
<1> QED  BY <1>2, <1>3

LEMMA FinishedBarIs ==
    ASSUME Chart, NEW r, NEW i \in 1 .. Len(bars), Sound(r, i, {}), NEW opened,
           Len(r.out) = IF r.c.onClose THEN i ELSE i - 1
    PROVE  LET d == FinishedBar(Liquidated(r, i, opened), i)
           IN  Sound(d, i, {}) /\ Len(d.out) = i /\ Kept(r, d, {})
<1> DEFINE a == Liquidated(r, i, opened)
           b == IF ~a.c.onClose \/ a.visible THEN Written(a, i) ELSE a
           d == Finished(b, i)
<1>1. Sound(a, i, {}) /\ a.out = r.out /\ Kept(r, a, {})
  BY LiquidatedIs
<1>2. i \in Nat \ {0}
  BY DEF Chart
<1>3. a.c = r.c /\ i - 1 <= Len(a.out)
  BY <1>1, <1>2 DEF Kept
<1>4. d = FinishedBar(Liquidated(r, i, opened), i)
  BY DEF FinishedBar
<1> HIDE DEF a
<1>5. Sound(b, i, {}) /\ Len(b.out) = i /\ Kept(a, b, {})
  <2>1. CASE ~a.c.onClose \/ a.visible
    BY <1>1, <1>2, <1>3, <2>1, WrittenIs
  <2>2. CASE ~(~a.c.onClose \/ a.visible)
    <3>1. b = a /\ Len(a.orders) \in Nat
      BY <1>1, <2>2, SoundIs
    <3> QED  BY <1>1, <1>3, <2>2, <3>1, KeptItself
  <2> QED  BY <2>1, <2>2
<1> HIDE DEF b
<1>6. Sound(d, i, {}) /\ d.out = b.out /\ Kept(b, d, {})
  BY <1>5, FinishedIs
<1> HIDE DEF d
<1>7. Kept(r, d, {})
  <2>1. Len(r.orders) \in Nat /\ Len(a.orders) \in Nat /\ Len(b.orders) \in Nat /\ Len(d.orders) \in Nat
    BY <1>1, <1>5, <1>6, SoundIs
  <2>2. Kept(r, b, {})
    BY <1>1, <1>5, <2>1, KeptOn
  <2> QED  BY <1>6, <2>1, <2>2, KeptOn
<1> QED  BY <1>4, <1>5, <1>6, <1>7

\* The bar begins: with close processing the book is scanned first.
Opened(r, i) ==
    [IF r.c.onClose THEN Written(ScannedBook(Started(r, i), i, "carried"), i) ELSE Started(r, i)
        EXCEPT !.visible = FALSE]

LEMMA OpenedIs ==
    ASSUME Chart, NEW r, NEW i \in 1 .. Len(bars), Sound(r, i, {}), Len(r.out) = i - 1
    PROVE  LET d == Opened(r, i)
           IN  /\ Sound(d, i, {}) /\ Len(d.out) = IF d.c.onClose THEN i ELSE i - 1
               /\ Kept(r, d, {})
<1> DEFINE a == Started(r, i)
           b == ScannedBook(a, i, "carried")
           e == IF r.c.onClose THEN Written(b, i) ELSE a
           d == [e EXCEPT !.visible = FALSE]
<1>1. Sound(a, i, {}) /\ a.out = r.out /\ Kept(r, a, {})
  BY StartedIs
<1>2. i \in Nat \ {0} /\ bars[i] \in OkBar
  BY DEF Chart
<1>3. d = Opened(r, i)
  BY DEF Opened
<1> HIDE DEF a
<1>4. Sound(b, i, {}) /\ b.out = a.out /\ Kept(a, b, {})
  BY <1>1, <1>2, ScannedIs
<1> HIDE DEF b
<1>5. /\ Len(r.orders) \in Nat /\ Len(a.orders) \in Nat /\ Len(b.orders) \in Nat
      /\ Kept(r, b, {})
  <2>1. Len(r.orders) \in Nat /\ Len(a.orders) \in Nat /\ Len(b.orders) \in Nat
    BY <1>1, <1>4, SoundIs
  <2> QED  BY <1>1, <1>4, <2>1, KeptOn
<1>6. Sound(e, i, {}) /\ Len(e.out) = (IF r.c.onClose THEN i ELSE i - 1) /\ Kept(r, e, {})
  <2>1. CASE r.c.onClose
    <3>1. i - 1 <= Len(b.out)
      BY <1>1, <1>2, <1>4
    <3>2. Sound(e, i, {}) /\ Len(e.out) = i /\ Kept(b, e, {})
      BY <1>2, <1>4, <2>1, <3>1, WrittenIs
    <3> HIDE DEF e
    <3>3. Len(e.orders) \in Nat
      BY <3>2, SoundIs
    <3>4. Kept(r, e, {})
      BY <1>5, <3>2, <3>3, KeptOn
    <3> QED  BY <2>1, <3>2, <3>4
  <2>2. CASE ~r.c.onClose
    BY <1>1, <2>2
  <2> QED  BY <2>1, <2>2
<1> HIDE DEF e
<1>7. Sound(d, i, {}) /\ d.out = e.out /\ Kept(e, d, {})
  BY <1>6, VisibleIs
<1> HIDE DEF d
<1>8. Kept(r, d, {})
  <2>1. Len(e.orders) \in Nat /\ Len(d.orders) \in Nat
    BY <1>6, <1>7, SoundIs
  <2> QED  BY <1>5, <1>6, <1>7, <2>1, KeptOn
<1> QED  BY <1>3, <1>6, <1>7, <1>8 DEF Kept

-----------------------------------------------------------------------------
(* What close_when and exit make at a bar.                                 *)

LEMMA MaterialPriceIs ==
    ASSUME Chart, NEW c \in Config, NEW m, Sayable(m.command), NEW i \in 1 .. Len(bars),
           NEW size, MaterialPrice(c, m, i, size) # NoPrice
    PROVE  MaterialPrice(c, m, i, size) \in Int
<1> DEFINE x == m.command
           s == Opposite(SideOf(size))
           v == ExitView(c, m, i)
           p == ExitPrice(c, x, s, v)
<1>1. bars[i].close \in Int
  BY BarIs DEF Chart
<1>2. CASE x.type = "close"
  BY <1>1, <1>2 DEF MaterialPrice
<1>3. CASE x.type # "close"
  <2>1. MaterialPrice(c, m, i, size) = p
    BY <1>3 DEF MaterialPrice
  <2>2. v.open \in Nat
    <3> DEFINE q == IF NewExit(c, m, i) THEN bars[i].close
                    ELSE IF c.onClose THEN bars[i - 1].close ELSE bars[i].open
    <3>1. q \in Nat
      <4>1. bars[i].close \in Nat /\ bars[i].open \in Nat
        BY BarIs DEF Chart
      <4>2. i # 1 => bars[i - 1].close \in Nat
        <5>1. i # 1 => i - 1 \in 1 .. Len(bars)
          BY DEF Chart
        <5> QED  BY <5>1, BarIs DEF Chart
      <4> QED  BY <4>1, <4>2 DEF NewExit
    <3>2. bars[i] \in Bar /\ v = [bars[i] EXCEPT !.open = q]
      BY DEF Chart, OkBar, ExitView
    <3> HIDE DEF q, v
    <3>3. v.open = q
      BY <3>2 DEF Bar
    <3> QED  BY <3>1, <3>3
  <2>3. Price(x.limit) /\ Price(x.stop)
    BY DEF Sayable, Command, Price
  <2> HIDE DEF v, s
  <2>4. CASE StopHit(s, v, x.stop) /\ (StopWins(c, s) \/ ~LimitHit(c, s, v, x.limit))
    <3>1. p = StopPrice(s, v, x.stop) /\ x.stop \in Nat
      BY <2>3, <2>4 DEF ExitPrice, StopHit, Price
    <3> QED  BY <2>1, <2>2, <3>1 DEF StopPrice, Max2, Min2
  <2>5. CASE ~(StopHit(s, v, x.stop) /\ (StopWins(c, s) \/ ~LimitHit(c, s, v, x.limit)))
    <3>1. p = LimitPrice(s, v, x.limit) /\ x.limit \in Nat
      BY <2>1, <2>3, <2>5 DEF ExitPrice, LimitHit, Price
    <3> QED  BY <2>1, <2>2, <3>1 DEF LimitPrice, Max2, Min2
  <2> QED  BY <2>4, <2>5
<1> QED  BY <1>2, <1>3

LEMMA MaterialIs ==
    ASSUME Chart, NEW c \in Config, NEW m, Sayable(m.command), NEW i \in 1 .. Len(bars),
           m.command.type \in {"close", "exit"}, NEW size, Materializes(c, m, i, size)
    PROVE  LET o == Material(c, m, i, size)
           IN  SoundOrder(o) /\ Undecided(o) /\ o.submit = i /\ o.type = m.command.type
<1> DEFINE p == OrderOfCommand(c, m.command, i)
           price == MaterialPrice(c, m, i, size)
           new == m.command.type = "exit" /\ NewExit(c, m, i)
           o == Material(c, m, i, size)
<1>1. SoundOrder(p) /\ Undecided(p) /\ p.submit = i /\ p.type = m.command.type
  BY OrderOfIs
<1>2. price \in Int
  BY MaterialPriceIs DEF Materializes
<1>3. o = [p EXCEPT !.price = price, !.shown = price, !.fresh = new]
  BY DEF Material
<1> HIDE DEF p, price, new, o
<1>4. ~IsTrade(p)
  BY <1>1 DEF IsTrade
<1>5. SoundOrder(o) /\ Undecided(o) /\ o.submit = p.submit /\ o.type = p.type
  BY <1>1, <1>2, <1>3, <1>4 DEF SoundOrder, Undecided, IsTrade, IsOrder, OrderFields
<1> QED  BY <1>1, <1>5 DEF o

-----------------------------------------------------------------------------
(* The orders of a replay.                                                 *)

Known(s) == IsSeries(s) /\ \A k \in 1 .. Len(s) : SoundOrder(s[k])
Ready(s) == IsSeries(s) /\ \A k \in 1 .. Len(s) : SoundOrder(s[k]) /\ Undecided(s[k])

LEMMA KnownIs ==
    ASSUME NEW s, NEW o, SoundOrder(o)
    PROVE  /\ Known(s) => Known(Append(s, o))
           /\ Ready(s) /\ Undecided(o) => Ready(Append(s, o))
<1>1. IsSeries(s) => /\ IsSeries(Append(s, o)) /\ Len(Append(s, o)) = Len(s) + 1
                     /\ Append(s, o)[Len(s) + 1] = o
                     /\ \A j \in 1 .. Len(s) : Append(s, o)[j] = s[j]
  BY SeriesAppend
<1>2. IsSeries(s) => \A j \in 1 .. Len(s) + 1 : j \in 1 .. Len(s) \/ j = Len(s) + 1
  BY DEF IsSeries
<1> QED  BY <1>1, <1>2 DEF Known, Ready

LEMMA NoneIsReady == Ready(<< >>) /\ Len(<< >>) = 0
<1>1. << >> \in Seq({}) /\ Len(<< >>) = 0
  OBVIOUS
<1>2. IsSeries(<< >>)
  BY ONLY <1>1, SeqIsSeries
<1>3. \A k \in 1 .. Len(<< >>) : FALSE
  BY <1>1
<1> QED  BY <1>1, <1>2, <1>3 DEF Ready

LEMMA PreparedIs ==
    ASSUME Chart, NEW o, SoundOrder(o)
    PROVE  SoundOrder(Prepared(o)) /\ Undecided(Prepared(o))
<1> DEFINE d == Prepared(o)
<1>2. o.submit \in o.submit .. Len(bars)
  BY DEF SoundOrder
<1>3. CASE IsTrade(o)
  <2>1. d = [o EXCEPT !.active = FALSE, !.armed = FALSE, !.canceled = FALSE, !.rejected = FALSE,
                      !.time = o.submit, !.shown = o.price, !.qty = o.want]
    BY <1>3 DEF Prepared, IsTrade
  <2> HIDE DEF d
  <2>2. /\ IsOrder(d) /\ d.type = o.type /\ d.id = o.id /\ d.side = o.side /\ d.limit = o.limit
        /\ d.stop = o.stop /\ d.price = o.price /\ d.qty = o.want /\ d.want = o.want
        /\ d.submit = o.submit /\ d.time = o.submit
        /\ ~d.active /\ ~d.canceled /\ ~d.rejected
    BY <2>1 DEF SoundOrder, IsOrder, OrderFields
  <2>3. o.want \in Nat /\ o.want <= o.want
    BY <1>3 DEF SoundOrder
  <2> QED  BY <1>2, <2>2, <2>3 DEF SoundOrder, Undecided, IsTrade, d
<1>4. CASE ~IsTrade(o)
  <2>1. d = [o EXCEPT !.active = FALSE]
    BY <1>4 DEF Prepared, IsTrade
  <2> HIDE DEF d
  <2>2. SoundOrder(d) /\ Undecided(d)
    BY <1>4, <2>1 DEF SoundOrder, Undecided, IsTrade, IsOrder, OrderFields
  <2> QED  BY <2>2 DEF d
<1> QED  BY <1>3, <1>4

SourceStep(x, o) == IF o.risk THEN x ELSE Append(x, Prepared(o))
SourcesOf(orders) ==
    LET own[k \in 0 .. Len(orders)] ==
            IF k = 0 THEN << >> ELSE SourceStep(own[k - 1], orders[k])
    IN  own

LEMMA SourcesUnfold ==
    ASSUME NEW orders, Len(orders) \in Nat
    PROVE  LET C == SourcesOf(orders)
           IN  /\ C[0] = << >>
               /\ \A k \in 1 .. Len(orders) : C[k] = SourceStep(C[k - 1], orders[k])
<1> DEFINE N == Len(orders)
           start == << >>
           Step(x, k) == SourceStep(x, orders[k])
           Is(f, n) == f = [k \in 0 .. n |-> IF k = 0 THEN start ELSE Step(f[k - 1], k)]
           S == {n \in 0 .. N : \E f : Is(f, n)}
           C == SourcesOf(orders)
<1>1. N \in Nat
  OBVIOUS
<1>2. C = CHOOSE f : Is(f, N)
  BY DEF SourcesOf
<1> HIDE DEF C, start, Step, N
<1>3. 0 \in S
  <2> DEFINE g == [k \in 0 .. 0 |-> start]
  <2>1. g = [k \in 0 .. 0 |-> IF k = 0 THEN start ELSE Step(g[k - 1], k)]
    OBVIOUS
  <2>2. \E f : Is(f, 0)
    BY <2>1
  <2> QED  BY <1>1, <2>2
<1>4. ASSUME NEW n \in 1 .. N, n - 1 \in S  PROVE n \in S
  <2>1. PICK f : Is(f, n - 1)
    BY <1>4
  <2> DEFINE g == [k \in 0 .. n |-> IF k = n THEN Step(f[n - 1], n) ELSE f[k]]
  <2>2. ASSUME NEW k \in 0 .. n  PROVE g[k] = IF k = 0 THEN start ELSE Step(g[k - 1], k)
    <3>1. CASE k = n
      BY <1>1, <3>1
    <3>2. CASE k # n
      <4>1. k \in 0 .. n - 1 /\ (k # 0 => k - 1 \in 0 .. n /\ k - 1 # n)
        BY <1>1, <3>2
      <4>2. f[k] = IF k = 0 THEN start ELSE Step(f[k - 1], k)
        BY <2>1, <4>1
      <4> QED  BY <3>2, <4>1, <4>2
    <3> QED  BY <3>1, <3>2
  <2>3. g = [k \in 0 .. n |-> IF k = 0 THEN start ELSE Step(g[k - 1], k)]
    BY <2>2
  <2>4. \E h : Is(h, n)
    BY <2>3
  <2> QED  BY <1>1, <2>4
<1>5. N \in S
  <2> HIDE DEF S
  <2>1. \A k \in 0 .. N : k \in S
    BY <1>1, <1>3, <1>4, AllPlaces
  <2> QED  BY <1>1, <2>1
<1>6. Is(C, N)
  BY <1>2, <1>5
<1>7. C[0] = start /\ \A k \in 1 .. N : C[k] = Step(C[k - 1], k)
  BY <1>1, <1>6
<1> QED  BY <1>7 DEF C, start, Step, N

LEMMA SourcesAre ==
    ASSUME Chart, NEW orders, Known(orders)
    PROVE  Ready(Sources(orders))
<1> DEFINE N == Len(orders)
           C == SourcesOf(orders)
           S == {k \in 0 .. N : Ready(C[k])}
<1>1. N \in Nat
  BY DEF Known, IsSeries
<1>2. C[0] = << >> /\ \A k \in 1 .. N : C[k] = SourceStep(C[k - 1], orders[k])
  <2>1. Len(orders) \in Nat
    BY <1>1
  <2> HIDE DEF C, N, S
  <2>2. /\ SourcesOf(orders)[0] = << >>
        /\ \A k \in 1 .. Len(orders) :
              SourcesOf(orders)[k] = SourceStep(SourcesOf(orders)[k - 1], orders[k])
    BY ONLY <2>1, SourcesUnfold
  <2> QED  BY <2>2 DEF C, N
<1>3. Sources(orders) = C[N]
  BY DEF Sources, SourcesOf, SourceStep
<1> HIDE DEF C
<1>4. 0 \in S
  BY <1>1, <1>2, NoneIsReady
<1>5. ASSUME NEW k \in 1 .. N, k - 1 \in S  PROVE k \in S
  <2>1. Ready(C[k - 1]) /\ SoundOrder(orders[k]) /\ k \in 0 .. N
    BY <1>1, <1>5 DEF Known
  <2>2. SoundOrder(Prepared(orders[k])) /\ Undecided(Prepared(orders[k]))
    BY <2>1, PreparedIs
  <2>3. Ready(Append(C[k - 1], Prepared(orders[k])))
    BY <2>1, <2>2, KnownIs
  <2> QED  BY <1>2, <2>1, <2>3 DEF SourceStep
<1>6. N \in S
  <2> HIDE DEF S
  <2>1. \A k \in 0 .. N : k \in S
    BY <1>1, <1>4, <1>5, AllPlaces
  <2> QED  BY <1>1, <2>1
<1> QED  BY <1>3, <1>6

AppendStep(c, x, m, i) == IF i \in m.when THEN Append(x, OrderOfCommand(c, m.command, i)) ELSE x
AppendedTo(c, orders, m) ==
    LET upTo[i \in 0 .. Len(bars)] ==
            IF i = 0 THEN orders ELSE AppendStep(c, upTo[i - 1], m, i)
    IN  upTo

LEMMA AppendedUnfold ==
    ASSUME NEW c, NEW orders, NEW m, Len(bars) \in Nat
    PROVE  LET C == AppendedTo(c, orders, m)
           IN  /\ C[0] = orders
               /\ \A k \in 1 .. Len(bars) : C[k] = AppendStep(c, C[k - 1], m, k)
<1> DEFINE N == Len(bars)
           start == orders
           Step(x, k) == AppendStep(c, x, m, k)
           Is(f, n) == f = [k \in 0 .. n |-> IF k = 0 THEN start ELSE Step(f[k - 1], k)]
           S == {n \in 0 .. N : \E f : Is(f, n)}
           C == AppendedTo(c, orders, m)
<1>1. N \in Nat
  OBVIOUS
<1>2. C = CHOOSE f : Is(f, N)
  BY DEF AppendedTo
<1> HIDE DEF C, start, Step, N
<1>3. 0 \in S
  <2> DEFINE g == [k \in 0 .. 0 |-> start]
  <2>1. g = [k \in 0 .. 0 |-> IF k = 0 THEN start ELSE Step(g[k - 1], k)]
    OBVIOUS
  <2>2. \E f : Is(f, 0)
    BY <2>1
  <2> QED  BY <1>1, <2>2
<1>4. ASSUME NEW n \in 1 .. N, n - 1 \in S  PROVE n \in S
  <2>1. PICK f : Is(f, n - 1)
    BY <1>4
  <2> DEFINE g == [k \in 0 .. n |-> IF k = n THEN Step(f[n - 1], n) ELSE f[k]]
  <2>2. ASSUME NEW k \in 0 .. n  PROVE g[k] = IF k = 0 THEN start ELSE Step(g[k - 1], k)
    <3>1. CASE k = n
      BY <1>1, <3>1
    <3>2. CASE k # n
      <4>1. k \in 0 .. n - 1 /\ (k # 0 => k - 1 \in 0 .. n /\ k - 1 # n)
        BY <1>1, <3>2
      <4>2. f[k] = IF k = 0 THEN start ELSE Step(f[k - 1], k)
        BY <2>1, <4>1
      <4> QED  BY <3>2, <4>1, <4>2
    <3> QED  BY <3>1, <3>2
  <2>3. g = [k \in 0 .. n |-> IF k = 0 THEN start ELSE Step(g[k - 1], k)]
    BY <2>2
  <2>4. \E h : Is(h, n)
    BY <2>3
  <2> QED  BY <1>1, <2>4
<1>5. N \in S
  <2> HIDE DEF S
  <2>1. \A k \in 0 .. N : k \in S
    BY <1>1, <1>3, <1>4, AllPlaces
  <2> QED  BY <1>1, <2>1
<1>6. Is(C, N)
  BY <1>2, <1>5
<1>7. C[0] = start /\ \A k \in 1 .. N : C[k] = Step(C[k - 1], k)
  BY <1>1, <1>6
<1> QED  BY <1>7 DEF C, start, Step, N

LEMMA AppendedIs ==
    ASSUME Chart, NEW c, NEW orders, Known(orders), NEW m, Sayable(m.command)
    PROVE  Known(Appended(c, orders, m))
<1> DEFINE N == Len(bars)
           C == AppendedTo(c, orders, m)
           S == {k \in 0 .. N : Known(C[k])}
<1>1. N \in Nat
  BY DEF Chart
<1>2. C[0] = orders /\ \A k \in 1 .. N : C[k] = AppendStep(c, C[k - 1], m, k)
  <2>1. Len(bars) \in Nat
    BY <1>1
  <2> HIDE DEF C, N, S
  <2>2. /\ AppendedTo(c, orders, m)[0] = orders
        /\ \A k \in 1 .. Len(bars) :
              AppendedTo(c, orders, m)[k] = AppendStep(c, AppendedTo(c, orders, m)[k - 1], m, k)
    BY ONLY <2>1, AppendedUnfold
  <2> QED  BY <2>2 DEF C, N
<1>3. Appended(c, orders, m) = C[N]
  BY DEF Appended, AppendedTo, AppendStep
<1> HIDE DEF C
<1>4. 0 \in S
  BY <1>1, <1>2
<1>5. ASSUME NEW k \in 1 .. N, k - 1 \in S  PROVE k \in S
  <2>1. Known(C[k - 1]) /\ k \in 0 .. N /\ k \in 1 .. Len(bars)
    BY <1>1, <1>5
  <2>2. SoundOrder(OrderOfCommand(c, m.command, k))
    BY <2>1, OrderOfIs
  <2>3. Known(Append(C[k - 1], OrderOfCommand(c, m.command, k)))
    BY <2>1, <2>2, KnownIs
  <2> QED  BY <1>2, <2>1, <2>3 DEF AppendStep
<1>6. N \in S
  <2> HIDE DEF S
  <2>1. \A k \in 0 .. N : k \in S
    BY <1>1, <1>4, <1>5, AllPlaces
  <2> QED  BY <1>1, <2>1
<1> QED  BY <1>3, <1>6

LEMMA NewReplayIs ==
    ASSUME NEW c \in Config, NEW s, Ready(s)
    PROVE  LET d == NewReplay(c, s)
           IN  /\ Sound(d, 1, {}) /\ d.c = c /\ d.orders = s /\ d.sources = Len(s)
               /\ d.active = {} /\ Len(d.out) = 0
               /\ \A k \in 1 .. Len(s) : Fresh(d, k)
<1> DEFINE d == NewReplay(c, s)
           v == [k \in DOMAIN s |-> 0]
           capital == c.capital
           hit == FilledHit(c, 0)
<1>1. IsSeries(s) /\ Len(s) \in Nat /\ DOMAIN s = 1 .. Len(s)
  BY DEF Ready, IsSeries
<1>2. IsSeries(v) /\ Len(v) = Len(s)
  <2>1. v = [k \in 1 .. Len(s) |-> v[k]]
    BY <1>1
  <2> HIDE DEF v
  <2> QED  BY <1>1, <2>1, FunctionIsSeries
<1> HIDE DEF v, capital, hit
<1>3. /\ IsReplay(d) /\ d.c = c /\ d.orders = s /\ d.sources = Len(s) /\ d.active = {}
      /\ d.version = v /\ d.size = 0 /\ d.lots = << >> /\ d.won = 0 /\ d.lost = 0 /\ d.fees = 0
      /\ d.out = << >> /\ d.filledLocked = hit /\ d.locked = hit /\ d.filled = 0 /\ d.cash = 0 /\ d.settled = 0
      /\ ~d.grew /\ ~d.missed
  BY DEF NewReplay, IsReplay, Fields, v, capital, hit
<1> HIDE DEF d
<1>4. Balanced(d, d.size)
  <2>1. << >> \in Seq(Lot)
    OBVIOUS
  <2> QED  BY <1>3, <2>1, SumsOfNone, NoneOfSide DEF Balanced
<1>5. Locks(d)
  <2>1. c.maxFilled \in Nat \cup {Unlimited}
    BY ConfigIs
  <2>2. c.maxFilled # Unlimited => 0 <= c.maxFilled /\ (~hit => 0 < c.maxFilled)
    BY <2>1 DEF hit, FilledHit, Unlimited
  <2> QED  BY <1>3, <2>2 DEF Locks
<1>6. Orders(d, 1) /\ Heap(d, {})
  BY <1>1, <1>2, <1>3 DEF Orders, Heap, Ready
<1>7. IsSeries(d.out) /\ Len(d.out) = 0
  BY <1>3, NoneIsReady DEF Ready
<1>8. Sound(d, 1, {})
  BY <1>3, <1>4, <1>5, <1>6, <1>7 DEF Sound
<1> QED  BY <1>3, <1>7, <1>8 DEF Fresh, Ready, d

-----------------------------------------------------------------------------
(* The steps of a replay, from replay r at a to replay d.                  *)

MidwayAt(r, a, b, c) ==
    /\ a = [bar |-> a.bar, phase |-> a.phase, todo |-> a.todo, opened |-> a.opened, call |-> a.call]
    /\ a.bar \in DOMAIN bars
    /\ a.phase \in {"open", "commands", "made", "fills", "close"}
    /\ a.call \in Calls[case] \cup {NoCall}
    /\ Sound(r, a.bar, {})
    /\ r.sources = 0 \/ Whole(b)
    /\ Len(r.out) = IF a.phase # "open" /\ c.onClose THEN a.bar ELSE a.bar - 1
    /\ \A k \in 1 .. r.sources :
          r.orders[k].submit > a.bar \/ (a.phase = "open" /\ r.orders[k].submit = a.bar)
            => Fresh(r, k)
    /\ a.phase \in {"open", "fills", "close"} => a.todo = {}
    /\ a.phase = "commands" => a.todo \subseteq Schedule(r, a.bar)
    /\ a.phase = "made" => /\ a.todo = {Len(r.orders)}
                           /\ r.sources < Len(r.orders)
                           /\ r.orders[Len(r.orders)].type \in {"close", "exit"}
    /\ \A k \in a.todo : Fresh(r, k)

\* Place a becomes n, of the same bar and call.
Moves(a, n, phase, todo) ==
    /\ n = [bar |-> n.bar, phase |-> n.phase, todo |-> n.todo, opened |-> n.opened, call |-> n.call]
    /\ n.bar = a.bar /\ n.call = a.call /\ n.phase = phase /\ n.todo = todo

LEMMA MidwayIs ==
    ASSUME Chart, NEW r, NEW a, NEW b, NEW c, MidwayAt(r, a, b, c)
    PROVE  /\ a.bar \in 1 .. Len(bars) /\ a.bar \in Nat \ {0} /\ bars[a.bar] \in OkBar
           /\ Sound(r, a.bar, {}) /\ r.c \in Config /\ Len(r.orders) \in Nat
           /\ r.sources \in 0 .. Len(r.orders) /\ r.sources \in Nat
           /\ r.sources = 0 \/ Whole(b)
           /\ \A k \in a.todo : Fresh(r, k)
           /\ a.todo \in SUBSET Nat
<1>1. a.bar \in 1 .. Len(bars) /\ Len(bars) \in Nat
  BY DEF MidwayAt, Chart
<1>2. Sound(r, a.bar, {}) /\ Len(r.orders) \in Nat /\ r.c \in Config
  BY SoundIs DEF MidwayAt
<1>3. r.sources \in 0 .. Len(r.orders)
  BY <1>2, SoundIs DEF Orders
<1>4. (r.sources = 0 \/ Whole(b)) /\ \A k \in a.todo : Fresh(r, k)
  BY DEF MidwayAt
<1>5. bars[a.bar] \in OkBar
  BY <1>1 DEF Chart
<1>6. a.todo \in SUBSET Nat
  BY <1>2, <1>4 DEF Fresh
<1> QED  BY <1>1, <1>2, <1>3, <1>4, <1>5, <1>6

\* What stays when a step changes orders of its own, none of them of a later bar.
LEMMA MidwayKept ==
    ASSUME Chart, NEW r, NEW a, NEW b, NEW c, MidwayAt(r, a, b, c), NEW d, Sound(d, a.bar, {}),
           NEW own, Kept(r, d, own),
           \A k \in own \cap 1 .. r.sources : r.orders[k].submit <= a.bar
    PROVE  /\ d.c = r.c /\ d.sources = r.sources /\ Len(d.orders) \in Nat
           /\ d.sources = 0 \/ Whole(b)
           /\ \A k \in 1 .. d.sources : d.orders[k].submit > a.bar => Fresh(d, k)
           /\ \A k \in a.todo \ own : Fresh(d, k)
           /\ \A k : Fresh(r, k) /\ k \notin own => Fresh(d, k)
           /\ Schedule(d, a.bar) = Schedule(r, a.bar)
<1>1. /\ Len(r.orders) \in Nat /\ r.sources \in 0 .. Len(r.orders) /\ a.bar \in Nat
      /\ r.sources = 0 \/ Whole(b)
      /\ \A k \in a.todo : Fresh(r, k)
  BY MidwayIs
<1>2. Len(d.orders) \in Nat /\ d.c = r.c /\ d.sources = r.sources
  BY SoundIs DEF Kept
<1>3. \A k : Fresh(r, k) /\ k \notin own => Fresh(d, k)
  BY <1>1, <1>2, FreshKept
<1>4. \A k \in 1 .. r.sources : k \in 1 .. Len(r.orders)
  BY <1>1
<1>5. \A k \in 1 .. r.sources : d.orders[k].submit = r.orders[k].submit
  BY <1>4 DEF Kept
<1>6. \A k \in 1 .. r.sources : r.orders[k].submit \in Nat
  <2>1. \A k \in 1 .. r.sources : SoundOrder(r.orders[k])
    BY <1>4, SoundIs DEF MidwayAt
  <2> QED  BY <2>1 DEF SoundOrder, Chart
<1>7. ASSUME NEW k \in 1 .. d.sources, d.orders[k].submit > a.bar  PROVE Fresh(d, k)
  <2>1. k \in 1 .. r.sources /\ r.orders[k].submit > a.bar /\ r.orders[k].submit \in Nat
    BY <1>2, <1>5, <1>6, <1>7
  <2>2. Fresh(r, k)
    BY <2>1 DEF MidwayAt
  <2>3. k \notin own
    BY <1>1, <2>1
  <2> QED  BY <1>3, <2>2, <2>3
<1>8. Schedule(d, a.bar) = Schedule(r, a.bar)
  BY <1>2, <1>5 DEF Schedule
<1> QED  BY <1>1, <1>2, <1>3, <1>7, <1>8

LEMMA OpenKeeps ==
    ASSUME Chart, NEW r, NEW a, NEW b, NEW c, MidwayAt(r, a, b, c), r.c = c, a.phase = "open",
           NEW d, d = Opened(r, a.bar), NEW n, Moves(a, n, "commands", Schedule(r, a.bar))
    PROVE  MidwayAt(d, n, b, c) /\ d.c = c
<1>1. /\ a.bar \in 1 .. Len(bars) /\ a.bar \in Nat \ {0} /\ Sound(r, a.bar, {})
      /\ Len(r.out) = a.bar - 1
  BY MidwayIs DEF MidwayAt
<1>2. /\ Sound(d, a.bar, {}) /\ Len(d.out) = (IF d.c.onClose THEN a.bar ELSE a.bar - 1)
      /\ Kept(r, d, {})
  BY <1>1, OpenedIs
<1>3. /\ d.c = r.c /\ d.sources = r.sources
      /\ d.sources = 0 \/ Whole(b)
      /\ \A k \in 1 .. d.sources : d.orders[k].submit > a.bar => Fresh(d, k)
      /\ \A k : Fresh(r, k) => Fresh(d, k)
      /\ Schedule(d, a.bar) = Schedule(r, a.bar)
  BY <1>2, MidwayKept
<1>4. /\ n = [bar |-> n.bar, phase |-> n.phase, todo |-> n.todo, opened |-> n.opened, call |-> n.call]
      /\ n.bar = a.bar /\ n.phase = "commands" /\ n.todo = Schedule(r, a.bar) /\ n.call = a.call
  BY DEF Moves
<1>5. \A k \in n.todo : Fresh(r, k)
  BY <1>4 DEF MidwayAt, Schedule
<1> QED  BY <1>2, <1>3, <1>4, <1>5 DEF MidwayAt

LEMMA DispatchKeeps ==
    ASSUME Chart, NEW r, NEW a, NEW b, NEW c, MidwayAt(r, a, b, c), r.c = c,
           a.phase = "commands", a.todo # {},
           NEW d, d = Dispatched(r, Min(a.todo), a.bar),
           NEW n, Moves(a, n, "commands", a.todo \ {Min(a.todo)})
    PROVE  MidwayAt(d, n, b, c) /\ d.c = c
<1> DEFINE k == Min(a.todo)
<1>1. /\ a.bar \in Nat /\ Sound(r, a.bar, {}) /\ a.todo \in SUBSET Nat
      /\ \A j \in a.todo : Fresh(r, j)
  BY MidwayIs
<1>2. k \in a.todo
  BY <1>1, MinIs
<1> HIDE DEF k
<1>3. Fresh(r, k) /\ r.orders[k].submit = a.bar
  BY <1>1, <1>2 DEF MidwayAt, Schedule
<1>4. Sound(d, a.bar, {}) /\ d.out = r.out /\ Kept(r, d, {k})
  <2>1. r.orders[k].submit <= a.bar /\ d = Dispatched(r, k, a.bar)
    BY <1>1, <1>3 DEF k
  <2> QED  BY <1>1, <1>3, <2>1, DispatchedIs
<1>5. /\ d.c = r.c /\ d.sources = r.sources
      /\ d.sources = 0 \/ Whole(b)
      /\ \A j \in 1 .. d.sources : d.orders[j].submit > a.bar => Fresh(d, j)
      /\ \A j \in a.todo \ {k} : Fresh(d, j)
      /\ Schedule(d, a.bar) = Schedule(r, a.bar)
  <2>1. \A j \in {k} \cap 1 .. r.sources : r.orders[j].submit <= a.bar
    BY <1>1, <1>3
  <2> QED  BY <1>4, <2>1, MidwayKept
<1>6. /\ n = [bar |-> n.bar, phase |-> n.phase, todo |-> n.todo, opened |-> n.opened, call |-> n.call]
      /\ n.bar = a.bar /\ n.phase = "commands" /\ n.todo = a.todo \ {k} /\ n.call = a.call
  BY DEF Moves, k
<1> QED  BY <1>4, <1>5, <1>6 DEF MidwayAt

\* The order d gains at the place of a, and the place n that hands it over.
Makes(r, a, o, d, n) == d = WithOrder(r, o) /\ Moves(a, n, "made", {Len(r.orders) + 1})

LEMMA MaterializeKeeps ==
    ASSUME Chart, NEW r, NEW a, NEW b, NEW c, MidwayAt(r, a, b, c), r.c = c,
           a.phase = "commands", a.todo = {},
           NEW o, SoundOrder(o), Undecided(o), o.type \in {"close", "exit"},
           NEW d, NEW n, Makes(r, a, o, d, n)
    PROVE  MidwayAt(d, n, b, c) /\ d.c = c
<1>0. d = WithOrder(r, o) /\ Moves(a, n, "made", {Len(r.orders) + 1})
  BY DEF Makes
<1>1. /\ a.bar \in Nat /\ Sound(r, a.bar, {}) /\ Len(r.orders) \in Nat
      /\ r.sources \in 0 .. Len(r.orders) /\ \A k \in r.active : k \in 1 .. Len(r.orders)
  BY MidwayIs, SoundIs
<1>2. /\ Sound(d, a.bar, {}) /\ d.out = r.out /\ Kept(r, d, {}) /\ d.active = r.active
      /\ Len(d.orders) = Len(r.orders) + 1 /\ d.orders[Len(d.orders)] = o
  BY <1>0, <1>1, WithOrderIs
<1>3. /\ d.c = r.c /\ d.sources = r.sources
      /\ d.sources = 0 \/ Whole(b)
      /\ \A k \in 1 .. d.sources : d.orders[k].submit > a.bar => Fresh(d, k)
  BY <1>2, MidwayKept
<1>4. /\ n = [bar |-> n.bar, phase |-> n.phase, todo |-> n.todo, opened |-> n.opened, call |-> n.call]
      /\ n.bar = a.bar /\ n.phase = "made" /\ n.todo = {Len(r.orders) + 1} /\ n.call = a.call
  BY <1>0 DEF Moves
<1>5. d.sources < Len(d.orders)
  BY <1>1, <1>2, <1>3
<1>6. Fresh(d, Len(d.orders))
  BY <1>1, <1>2 DEF Fresh
<1> QED  BY <1>2, <1>3, <1>4, <1>5, <1>6 DEF MidwayAt

LEMMA PassKeeps ==
    ASSUME Chart, NEW r, NEW a, NEW b, NEW c, MidwayAt(r, a, b, c),
           a.phase = "commands", a.todo = {}, NEW n, Moves(a, n, "fills", {})
    PROVE  MidwayAt(r, n, b, c)
<1>1. /\ n = [bar |-> n.bar, phase |-> n.phase, todo |-> n.todo, opened |-> n.opened, call |-> n.call]
      /\ n.bar = a.bar /\ n.phase = "fills" /\ n.todo = {} /\ n.call = a.call
  BY DEF Moves
<1> QED  BY <1>1 DEF MidwayAt

LEMMA DispatchMadeKeeps ==
    ASSUME Chart, NEW r, NEW a, NEW b, NEW c, MidwayAt(r, a, b, c), r.c = c, a.phase = "made",
           NEW d, d = CloseFill(r, Min(a.todo)), NEW n, Moves(a, n, "fills", {})
    PROVE  MidwayAt(d, n, b, c) /\ d.c = c
<1> DEFINE k == Min(a.todo)
<1>1. /\ a.bar \in Nat /\ Sound(r, a.bar, {}) /\ a.todo \in SUBSET Nat
      /\ \A j \in a.todo : Fresh(r, j) /\ r.sources \in Nat /\ Len(r.orders) \in Nat
  BY MidwayIs
<1>2. /\ a.todo = {Len(r.orders)} /\ r.sources < Len(r.orders)
      /\ r.orders[Len(r.orders)].type \in {"close", "exit"}
  BY DEF MidwayAt
<1>3. k \in a.todo
  BY <1>1, <1>2, MinIs
<1> HIDE DEF k
<1>4. /\ k = Len(r.orders) /\ Fresh(r, k)
      /\ r.orders[k].type \in {"close", "close_all", "exit"} /\ d = CloseFill(r, k)
  BY <1>1, <1>2, <1>3 DEF k
<1>5. Sound(d, a.bar, {}) /\ d.out = r.out /\ Kept(r, d, {k})
  BY <1>1, <1>4, CloseFillIs
<1>6. /\ d.c = r.c /\ d.sources = r.sources
      /\ d.sources = 0 \/ Whole(b)
      /\ \A j \in 1 .. d.sources : d.orders[j].submit > a.bar => Fresh(d, j)
  <2>1. \A j \in {k} \cap 1 .. r.sources : r.orders[j].submit <= a.bar
    <3>1. {k} \cap 1 .. r.sources = {}
      BY <1>1, <1>2, <1>4
    <3> QED  BY <3>1
  <2> QED  BY <1>5, <2>1, MidwayKept
<1>7. /\ n = [bar |-> n.bar, phase |-> n.phase, todo |-> n.todo, opened |-> n.opened, call |-> n.call]
      /\ n.bar = a.bar /\ n.phase = "fills" /\ n.todo = {} /\ n.call = a.call
  BY DEF Moves
<1> QED  BY <1>5, <1>6, <1>7 DEF MidwayAt

LEMMA FillKeeps ==
    ASSUME Chart, NEW r, NEW a, NEW b, NEW c, MidwayAt(r, a, b, c), r.c = c, a.phase = "fills",
           NEW phase, NEW d, d = ScannedBook(r, a.bar, phase), NEW n, Moves(a, n, "close", {})
    PROVE  MidwayAt(d, n, b, c) /\ d.c = c
<1>1. a.bar \in 1 .. Len(bars) /\ Sound(r, a.bar, {}) /\ bars[a.bar] \in OkBar
  BY MidwayIs
<1>2. Sound(d, a.bar, {}) /\ d.out = r.out /\ Kept(r, d, {})
  BY <1>1, ScannedIs
<1>3. /\ d.c = r.c /\ d.sources = r.sources
      /\ d.sources = 0 \/ Whole(b)
      /\ \A k \in 1 .. d.sources : d.orders[k].submit > a.bar => Fresh(d, k)
  BY <1>2, MidwayKept
<1>4. /\ n = [bar |-> n.bar, phase |-> n.phase, todo |-> n.todo, opened |-> n.opened, call |-> n.call]
      /\ n.bar = a.bar /\ n.phase = "close" /\ n.todo = {} /\ n.call = a.call
  BY DEF Moves
<1> QED  BY <1>2, <1>3, <1>4 DEF MidwayAt

LEMMA FinishKeeps ==
    ASSUME Chart, NEW r, NEW a, NEW b, NEW c, MidwayAt(r, a, b, c), r.c = c, a.phase = "close",
           NEW d, d = FinishedBar(Liquidated(r, a.bar, a.opened), a.bar)
    PROVE  /\ d.c = c
           /\ a.bar < Len(bars) => MidwayAt(d, AtBar(a.bar + 1, a.call), b, c)
           /\ ~(a.bar < Len(bars)) => Whole(d)
<1>1. /\ a.bar \in 1 .. Len(bars) /\ a.bar \in Nat /\ Len(bars) \in Nat /\ Sound(r, a.bar, {})
      /\ Len(r.out) = IF r.c.onClose THEN a.bar ELSE a.bar - 1
  BY MidwayIs DEF MidwayAt, Chart
<1>2. Sound(d, a.bar, {}) /\ Len(d.out) = a.bar /\ Kept(r, d, {})
  BY <1>1, FinishedBarIs
<1>3. /\ d.c = r.c /\ d.sources = r.sources
      /\ d.sources = 0 \/ Whole(b)
      /\ \A k \in 1 .. d.sources : d.orders[k].submit > a.bar => Fresh(d, k)
  BY <1>2, MidwayKept
<1>4. ASSUME a.bar < Len(bars)  PROVE MidwayAt(d, AtBar(a.bar + 1, a.call), b, c)
  <2> DEFINE n == AtBar(a.bar + 1, a.call)
  <2>1. n = [bar |-> a.bar + 1, phase |-> "open", todo |-> {}, opened |-> 0, call |-> a.call]
    BY DEF AtBar
  <2> HIDE DEF n
  <2>2. /\ n = [bar |-> n.bar, phase |-> n.phase, todo |-> n.todo, opened |-> n.opened, call |-> n.call]
        /\ n.bar = a.bar + 1 /\ n.phase = "open" /\ n.todo = {} /\ n.call = a.call
    BY <2>1
  <2>3. Sound(d, a.bar + 1, {})
    BY <1>1, <1>2, SoundLater
  <2>4. \A k \in 1 .. d.sources : d.orders[k].submit > a.bar + 1 \/ d.orders[k].submit = a.bar + 1
            => Fresh(d, k)
    <3>1. \A k \in 1 .. d.sources : d.orders[k].submit \in Nat
      <4>1. d.sources \in 0 .. Len(d.orders) /\ Len(d.orders) \in Nat
        BY <1>2, SoundIs DEF Orders
      <4>2. \A k \in 1 .. d.sources : SoundOrder(d.orders[k])
        BY <1>2, <4>1, SoundIs
      <4> QED  BY <4>2 DEF SoundOrder, Chart
    <3> QED  BY <1>1, <1>3, <3>1
  <2>5. n.bar \in DOMAIN bars /\ (a.bar + 1) - 1 = a.bar
    BY <1>1, <1>4, <2>2 DEF Chart
  <2> QED  BY <1>2, <1>3, <2>2, <2>3, <2>4, <2>5 DEF MidwayAt, n
<1>5. ASSUME ~(a.bar < Len(bars))  PROVE Whole(d)
  <2>1. a.bar = Len(bars)
    BY <1>1, <1>5
  <2> QED  BY <1>2, <2>1 DEF Whole
<1> QED  BY <1>3, <1>4, <1>5

\* A replay starts over the orders of one that is whole.
LEMMA ReplayStarts ==
    ASSUME Chart, NEW b, Sound(b, Len(bars), {}), NEW orders, Known(orders), NEW c \in Config,
           NEW m, m \in Calls[case] \cup {NoCall}, Whole(b) \/ Len(Sources(orders)) = 0
    PROVE  LET d == NewReplay(c, Sources(orders))
           IN  MidwayAt(d, AtBar(1, m), b, c) /\ d.c = c
<1> DEFINE s == Sources(orders)
           d == NewReplay(c, s)
           n == AtBar(1, m)
<1>1. Ready(s)
  BY SourcesAre
<1> HIDE DEF s
<1>2. /\ Sound(d, 1, {}) /\ d.c = c /\ d.orders = s /\ d.sources = Len(s) /\ Len(d.out) = 0
      /\ \A k \in 1 .. Len(s) : Fresh(d, k)
  BY <1>1, NewReplayIs
<1> HIDE DEF d
<1>3. /\ n = [bar |-> n.bar, phase |-> n.phase, todo |-> n.todo, opened |-> n.opened, call |-> n.call]
      /\ n.bar = 1 /\ n.phase = "open" /\ n.todo = {} /\ n.call = m
  BY DEF AtBar
<1> HIDE DEF n
<1>4. 1 \in DOMAIN bars /\ 1 - 1 = 0
  BY DEF Chart
<1>5. d.sources = 0 \/ Whole(b)
  BY <1>2 DEF s
<1> QED  BY <1>2, <1>3, <1>4, <1>5 DEF MidwayAt, n, d, s

-----------------------------------------------------------------------------
(* The invariant, step by step.                                            *)

LEMMA MidwayNow == Midway <=> MidwayAt(replay, at, before, settings)
BY DEF Midway, MidwayAt

LEMMA SoundNext ==
    ASSUME bars' = bars, Sound(replay', Len(bars), {})
    PROVE  Sound(replay, Len(bars), {})'
BY DEF Sound, Orders, SoundOrder

LEMMA WholeNext ==
    ASSUME bars' = bars, Whole(replay')
    PROVE  Whole(replay)'
BY DEF Whole, Sound, Orders, SoundOrder

LEMMA MidwayNext ==
    ASSUME bars' = bars, case' = case, MidwayAt(replay', at', before', settings')
    PROVE  Midway'
<1>1. Sound(replay', at'.bar, {}) => Sound(replay, at.bar, {})'
  BY DEF Sound, Orders, SoundOrder
<1>2. Whole(before') => Whole(before)'
  BY DEF Whole, Sound, Orders, SoundOrder
<1> QED  BY <1>1, <1>2 DEF MidwayAt, Midway, Fresh, Schedule

LEMMA InvFacts ==
    ASSUME WellFormed, ReplayInv
    PROVE  /\ Chart /\ replay.c = settings /\ settings \in Config
           /\ at.phase # "idle" => ~raised /\ MidwayAt(replay, at, before, settings)
           /\ at = Idle /\ ~raised => Whole(replay)
<1>1. Chart
  BY ChartIs DEF ReplayInv
<1>2. at = Idle => at.phase = "idle"
  BY DEF Idle
<1>3. at.phase # "idle" => ~raised /\ MidwayAt(replay, at, before, settings)
  BY <1>2, MidwayNow DEF ReplayInv
<1>4. Midway => at # Idle
  BY <1>2 DEF Midway
<1>5. at = Idle /\ ~raised => Whole(replay)
  BY <1>4 DEF ReplayInv
<1>6. settings \in Config
  <2>1. CASE at # Idle
    <3>1. MidwayAt(replay, at, before, settings)
      BY <2>1, MidwayNow DEF ReplayInv
    <3> QED  BY <1>1, <3>1, MidwayIs DEF ReplayInv
  <2>2. CASE at = Idle
    <3>1. Sound(replay, Len(bars), {})
      BY <2>2 DEF ReplayInv, Whole
    <3> QED  BY <3>1, SoundIs DEF ReplayInv
  <2> QED  BY <2>1, <2>2
<1> QED  BY <1>1, <1>3, <1>5, <1>6 DEF ReplayInv

LEMMA PlaceTaken ==
    ASSUME NEW r, NEW a, NEW b, NEW c, MidwayAt(r, a, b, c), NEW phase, NEW todo, NEW x, NEW n,
           \/ n = [a EXCEPT !.phase = phase, !.todo = todo, !.opened = x]
           \/ n = [a EXCEPT !.phase = phase, !.todo = todo]
    PROVE  Moves(a, n, phase, todo)
<1>1. a = [bar |-> a.bar, phase |-> a.phase, todo |-> a.todo, opened |-> a.opened, call |-> a.call]
  BY DEF MidwayAt
<1>2. CASE n = [a EXCEPT !.phase = phase, !.todo = todo, !.opened = x]
  BY ONLY <1>1, <1>2 DEF Moves
<1>3. CASE n = [a EXCEPT !.phase = phase, !.todo = todo]
  BY ONLY <1>1, <1>3 DEF Moves
<1> QED  BY <1>2, <1>3

LEMMA PlaceMoves ==
    ASSUME NEW r, NEW a, NEW b, NEW c, MidwayAt(r, a, b, c), NEW phase, NEW todo, NEW x
    PROVE  /\ Moves(a, [a EXCEPT !.phase = phase, !.todo = todo, !.opened = x], phase, todo)
           /\ Moves(a, [a EXCEPT !.phase = phase, !.todo = todo], phase, todo)
           /\ Moves(a, [a EXCEPT !.todo = todo], a.phase, todo)
           /\ Moves(a, [a EXCEPT !.phase = phase], phase, a.todo)
<1>1. a = [bar |-> a.bar, phase |-> a.phase, todo |-> a.todo, opened |-> a.opened, call |-> a.call]
  BY DEF MidwayAt
<1> DEFINE n1 == [a EXCEPT !.phase = phase, !.todo = todo, !.opened = x]
           n2 == [a EXCEPT !.phase = phase, !.todo = todo]
           n3 == [a EXCEPT !.todo = todo]
           n4 == [a EXCEPT !.phase = phase]
<1>2. n3 = [bar |-> a.bar, phase |-> a.phase, todo |-> todo, opened |-> a.opened, call |-> a.call]
  BY ONLY <1>1
<1>3. n4 = [bar |-> a.bar, phase |-> phase, todo |-> a.todo, opened |-> a.opened, call |-> a.call]
  BY ONLY <1>1
<1>4. n1 = [a EXCEPT !.phase = phase, !.todo = todo, !.opened = x]
  OBVIOUS
<1>5. n2 = [a EXCEPT !.phase = phase, !.todo = todo]
  OBVIOUS
<1> HIDE DEF n1, n2, n3, n4
<1>6. Moves(a, n1, phase, todo)
  BY <1>4, PlaceTaken
<1>7. Moves(a, n2, phase, todo)
  BY <1>5, PlaceTaken
<1>8. Moves(a, n3, a.phase, todo)
  BY ONLY <1>2 DEF Moves
<1>9. Moves(a, n4, phase, a.todo)
  BY ONLY <1>3 DEF Moves
<1> QED  BY <1>6, <1>7, <1>8, <1>9 DEF n1, n2, n3, n4

\* A step within a replay.
LEMMA StepWithin ==
    ASSUME ReplayInv, UNCHANGED <<case, bars, made, raised>>, ~raised,
           MidwayAt(replay', at', before', settings'), replay'.c = settings'
    PROVE  ReplayInv'
<1>1. Midway'
  BY MidwayNext
<1>2. at' # Idle
  <2>1. at'.phase # "idle"
    BY DEF MidwayAt
  <2> QED  BY <2>1 DEF Idle
<1> QED  BY <1>1, <1>2 DEF ReplayInv

\* A replay has ended.
LEMMA StepToIdle ==
    ASSUME ReplayInv, UNCHANGED <<case, bars, made>>, at' = Idle, replay'.c = settings',
           \/ ~raised' /\ raised' = FALSE /\ Whole(replay')
           \/ raised' /\ raised' = TRUE /\ Sound(replay', Len(bars), {})
    PROVE  ReplayInv'
<1>1. Idle' = Idle
  BY DEF Idle, NoCall
<1>2. CASE raised' = FALSE /\ Whole(replay')
  <2>1. Whole(replay)'
    BY <1>2, WholeNext
  <2> QED  BY <1>1, <1>2, <2>1 DEF ReplayInv
<1>3. CASE raised' = TRUE /\ Sound(replay', Len(bars), {})
  <2>1. Sound(replay, Len(bars), {})'
    BY <1>3, SoundNext
  <2> QED  BY <1>1, <1>3, <2>1 DEF ReplayInv
<1> QED  BY <1>2, <1>3

LEMMA OpenStep == ASSUME WellFormed, ReplayInv, Open  PROVE ReplayInv'
<1>1. /\ Chart /\ replay.c = settings /\ ~raised /\ at.phase = "open"
      /\ MidwayAt(replay, at, before, settings)
  BY InvFacts DEF Open, Running
<1>2. /\ UNCHANGED <<case, bars, made, raised, settings, before>>
      /\ at' = [at EXCEPT !.phase = "commands", !.todo = Schedule(replay, at.bar),
                          !.opened = replay'.size]
  BY DEF Open, Running
<1>3. replay' = Opened(replay, at.bar)
  BY <1>1 DEF Open, Opened
<1>4. MidwayAt(replay', at', before, settings) /\ replay'.c = settings
  <2>1. Moves(at, at', "commands", Schedule(replay, at.bar))
    BY <1>1, <1>2, PlaceMoves
  <2> QED  BY <1>1, <1>3, <2>1, OpenKeeps
<1> QED  BY <1>1, <1>2, <1>4, StepWithin

LEMMA DispatchStep == ASSUME WellFormed, ReplayInv, Dispatch  PROVE ReplayInv'
<1>1. /\ Chart /\ replay.c = settings /\ ~raised /\ at.phase = "commands" /\ at.todo # {}
      /\ MidwayAt(replay, at, before, settings)
  BY InvFacts DEF Dispatch, Running
<1>2. /\ UNCHANGED <<case, bars, made, raised, settings, before>>
      /\ at' = [at EXCEPT !.todo = at.todo \ {Min(at.todo)}]
      /\ replay' = Dispatched(replay, Min(at.todo), at.bar)
  BY DEF Dispatch, Running
<1>3. MidwayAt(replay', at', before, settings) /\ replay'.c = settings
  <2>1. Moves(at, at', "commands", at.todo \ {Min(at.todo)})
    BY <1>1, <1>2, PlaceMoves
  <2> QED  BY <1>1, <1>2, <2>1, DispatchKeeps
<1> QED  BY <1>1, <1>2, <1>3, StepWithin

\* The replay before the call is whole when there is an order to dispatch.
LEMMA RaiseStep == ASSUME WellFormed, ReplayInv, Raise  PROVE ReplayInv'
<1>1. /\ Chart /\ replay.c = settings /\ ~raised /\ raised \in BOOLEAN
      /\ at.phase = "commands" /\ at.todo # {}
      /\ MidwayAt(replay, at, before, settings)
  BY InvFacts DEF Raise, Running, ReplayInv
<1>2. UNCHANGED <<case, bars, made>> /\ at' = Idle
  BY DEF Raise, Running
<1>3. Whole(before)
  <2>1. at.todo \subseteq 1 .. replay.sources
    BY <1>1 DEF MidwayAt, Schedule
  <2> QED  BY <1>1, <2>1, MidwayIs
<1>4. CASE Staged
  <2>1. replay' = before /\ settings' = before.c /\ raised' = raised
    BY <1>4 DEF Raise
  <2>2. Whole(replay') /\ replay'.c = settings' /\ raised' = FALSE
    BY <1>1, <1>3, <2>1
  <2> QED  BY <1>2, <2>2, StepToIdle
<1>5. CASE ~Staged
  <2>1. replay' = replay /\ settings' = settings /\ raised' = TRUE
    BY <1>5 DEF Raise
  <2>2. Sound(replay, Len(bars), {})
    <3>1. /\ at.bar \in Nat /\ Len(bars) \in Nat /\ at.bar <= Len(bars)
          /\ Sound(replay, at.bar, {})
      BY <1>1, MidwayIs DEF Chart
    <3> QED  BY <3>1, SoundLater
  <2>3. Sound(replay', Len(bars), {})
    BY <2>1, <2>2
  <2> QED  BY <1>1, <1>2, <2>1, <2>3, StepToIdle
<1> QED  BY <1>4, <1>5

LEMMA MaterializeStep == ASSUME WellFormed, ReplayInv, Materialize  PROVE ReplayInv'
<1> DEFINE k == at.call
           size == IF settings.onClose THEN at.opened ELSE replay.size
           makes == k.command.type \in {"close", "exit"} /\ Materializes(settings, k, at.bar, size)
<1>1. /\ Chart /\ replay.c = settings /\ settings \in Config /\ ~raised /\ at.phase = "commands"
      /\ at.todo = {} /\ MidwayAt(replay, at, before, settings)
  BY InvFacts DEF Materialize, Running
<1>2. UNCHANGED <<case, bars, made, raised, settings, before>>
  BY DEF Materialize, Running
<1>3. CASE makes
  <2> DEFINE o == Material(settings, k, at.bar, size)
  <2>1. /\ replay' = WithOrder(replay, o)
        /\ at' = [at EXCEPT !.phase = "made", !.todo = {Len(replay.orders) + 1}]
    BY <1>3 DEF Materialize
  <2>2. SoundOrder(o) /\ Undecided(o) /\ o.type \in {"close", "exit"}
    <3>1. at.bar \in 1 .. Len(bars)
      BY <1>1, MidwayIs
    <3>2. Sayable(k.command)
      <4>1. k \in Calls[case]
        <5>1. k # NoCall
          BY <1>3 DEF NoCall
        <5> QED  BY <1>1, <5>1 DEF MidwayAt
      <4> QED  BY <4>1, CallsAre DEF ReplayInv
    <3> HIDE DEF k, size
    <3>3. SoundOrder(o) /\ Undecided(o) /\ o.submit = at.bar /\ o.type = k.command.type
      BY <1>1, <1>3, <3>1, <3>2, MaterialIs
    <3> QED  BY <1>3, <3>3
  <2> HIDE DEF o
  <2>3. MidwayAt(replay', at', before, settings) /\ replay'.c = settings
    <3>1. Moves(at, at', "made", {Len(replay.orders) + 1})
      BY <1>1, <2>1, PlaceMoves
    <3>2. Makes(replay, at, o, replay', at')
      BY <2>1, <3>1 DEF Makes
    <3> QED  BY <1>1, <2>2, <3>2, MaterializeKeeps
  <2> QED  BY <1>1, <1>2, <2>3, StepWithin
<1>4. CASE ~makes
  <2>1. replay' = replay /\ at' = [at EXCEPT !.phase = "fills"]
    BY <1>4 DEF Materialize
  <2>2. MidwayAt(replay', at', before, settings)
    <3>1. Moves(at, at', "fills", {})
      BY <1>1, <2>1, PlaceMoves
    <3> QED  BY <1>1, <2>1, <3>1, PassKeeps
  <2> QED  BY <1>1, <1>2, <2>1, <2>2, StepWithin
<1> QED  BY <1>3, <1>4

LEMMA DispatchMadeStep == ASSUME WellFormed, ReplayInv, DispatchMade  PROVE ReplayInv'
<1>1. /\ Chart /\ replay.c = settings /\ ~raised /\ at.phase = "made"
      /\ MidwayAt(replay, at, before, settings)
  BY InvFacts DEF DispatchMade, Running
<1>2. /\ UNCHANGED <<case, bars, made, raised, settings, before>>
      /\ at' = [at EXCEPT !.phase = "fills", !.todo = {}]
      /\ replay' = CloseFill(replay, Min(at.todo))
  BY DEF DispatchMade, Running
<1>3. MidwayAt(replay', at', before, settings) /\ replay'.c = settings
  <2>1. Moves(at, at', "fills", {})
    BY <1>1, <1>2, PlaceMoves
  <2> QED  BY <1>1, <1>2, <2>1, DispatchMadeKeeps
<1> QED  BY <1>1, <1>2, <1>3, StepWithin

LEMMA FillStep == ASSUME WellFormed, ReplayInv, FillBar  PROVE ReplayInv'
<1>1. /\ Chart /\ replay.c = settings /\ ~raised /\ at.phase = "fills"
      /\ MidwayAt(replay, at, before, settings)
  BY InvFacts DEF FillBar, Running
<1>2. /\ UNCHANGED <<case, bars, made, raised, settings, before>>
      /\ at' = [at EXCEPT !.phase = "close"]
      /\ replay' = ScannedBook(replay, at.bar, IF settings.onClose THEN "own" ELSE "all")
  BY DEF FillBar, Running
<1>3. MidwayAt(replay', at', before, settings) /\ replay'.c = settings
  <2> DEFINE phase == IF settings.onClose THEN "own" ELSE "all"
  <2>1. replay' = ScannedBook(replay, at.bar, phase)
    BY <1>2
  <2> HIDE DEF phase
  <2>2. Moves(at, at', "close", {})
    <3>1. at.todo = {}
      BY <1>1 DEF MidwayAt
    <3> QED  BY <1>1, <1>2, <3>1, PlaceMoves
  <2> QED  BY <1>1, <2>1, <2>2, FillKeeps
<1> QED  BY <1>1, <1>2, <1>3, StepWithin

LEMMA FinishStep == ASSUME WellFormed, ReplayInv, Finish  PROVE ReplayInv'
<1>1. /\ Chart /\ replay.c = settings /\ ~raised /\ raised \in BOOLEAN /\ at.phase = "close"
      /\ MidwayAt(replay, at, before, settings)
  BY InvFacts DEF Finish, Running, ReplayInv
<1>2. /\ UNCHANGED <<case, bars, made, raised, settings>>
      /\ replay' = FinishedBar(Liquidated(replay, at.bar, at.opened), at.bar)
  BY DEF Finish, Running
<1>3. /\ replay'.c = settings
      /\ at.bar < Len(bars) => MidwayAt(replay', AtBar(at.bar + 1, at.call), before, settings)
      /\ ~(at.bar < Len(bars)) => Whole(replay')
  BY <1>1, <1>2, FinishKeeps, SMTT(30)
<1>4. CASE at.bar < Len(bars)
  <2>1. at' = AtBar(at.bar + 1, at.call) /\ before' = before
    BY <1>4 DEF Finish
  <2>2. MidwayAt(replay', at', before', settings')
    BY <1>2, <1>3, <1>4, <2>1
  <2> QED  BY <1>1, <1>2, <1>3, <2>2, StepWithin
<1>5. CASE ~(at.bar < Len(bars))
  <2>1. at' = Idle
    BY <1>5 DEF Finish
  <2>2. Whole(replay') /\ raised' = FALSE
    BY <1>1, <1>2, <1>3, <1>5
  <2> QED  BY <1>2, <1>3, <2>1, <2>2, StepToIdle
<1> QED  BY <1>4, <1>5

\* A call between two replays.
LEMMA ReplaysStep ==
    ASSUME WellFormed, ReplayInv, Between, NEW c \in Config, NEW orders, Known(orders),
           NEW m \in Calls[case] \cup {NoCall}, Replays(c, orders, m),
           made' \in 0 .. CallLimit[case] + 1
    PROVE  ReplayInv'
<1>1. /\ Chart /\ ~raised /\ Whole(replay)
  BY InvFacts DEF Between
<1>2. /\ UNCHANGED <<case, bars, raised>>
      /\ replay' = NewReplay(c, Sources(orders)) /\ at' = AtBar(1, m)
      /\ before' = replay /\ settings' = c
  BY DEF Between, Replays
<1>3. MidwayAt(replay', at', before', settings') /\ replay'.c = settings'
  <2>1. Sound(replay, Len(bars), {})
    BY <1>1 DEF Whole
  <2>2. LET d == NewReplay(c, Sources(orders))
        IN  MidwayAt(d, AtBar(1, m), replay, c) /\ d.c = c
    BY <1>1, <2>1, ReplayStarts
  <2> QED  BY <1>2, <2>2
<1>4. Midway'
  BY <1>2, <1>3, MidwayNext
<1>5. at' # Idle
  <2>1. at'.phase # "idle"
    BY <1>3 DEF MidwayAt
  <2> QED  BY <2>1 DEF Idle
<1> QED  BY <1>1, <1>2, <1>3, <1>4, <1>5 DEF ReplayInv

LEMMA CallSteps ==
    ASSUME WellFormed, ReplayInv
    PROVE  /\ \A k \in Calls[case] : SubmitCommands(k) \/ Close(k) => ReplayInv'
           /\ \A c \in Changes[case] : Configure(c) => ReplayInv'
           /\ Again => ReplayInv'
<1>1. /\ Chart /\ settings \in Config
      /\ at = Idle /\ ~raised => Whole(replay)
      /\ CallLimit[case] \in Nat /\ Changes[case] \subseteq Config
      /\ \A k \in Calls[case] : Sayable(k.command)
      /\ made \in 0 .. CallLimit[case] + 1
  BY InvFacts, CallsAre DEF ReplayInv
<1>2. Between => Known(replay.orders)
  <2>1. Between => Sound(replay, Len(bars), {})
    BY <1>1 DEF Between, Whole
  <2> QED  BY <2>1, SoundIs DEF Known
<1>3. Counting => made' \in 0 .. CallLimit[case] + 1
  BY <1>1 DEF Counting
<1>4. ASSUME NEW k \in Calls[case], SubmitCommands(k)  PROVE ReplayInv'
  <2>1. Between /\ Counting /\ Replays(settings, Appended(settings, replay.orders, k), k)
    BY <1>4 DEF SubmitCommands
  <2>2. Known(Appended(settings, replay.orders, k))
    BY <1>1, <1>2, <2>1, AppendedIs
  <2> QED  BY <1>1, <1>3, <2>1, <2>2, ReplaysStep
<1>5. ASSUME NEW k \in Calls[case], Close(k)  PROVE ReplayInv'
  <2>1. Between /\ Counting /\ Replays(settings, replay.orders, k)
    BY <1>5 DEF Close
  <2> QED  BY <1>1, <1>2, <1>3, <2>1, ReplaysStep
<1>6. ASSUME NEW c \in Changes[case], Configure(c)  PROVE ReplayInv'
  <2>1. Between /\ Counting /\ Replays(c, replay.orders, NoCall) /\ c \in Config
    BY <1>1, <1>6 DEF Configure
  <2> QED  BY <1>2, <1>3, <2>1, ReplaysStep
<1>7. ASSUME Again  PROVE ReplayInv'
  <2>1. Between /\ Replays(settings, replay.orders, NoCall)
    BY <1>7 DEF Again
  <2>2. made' \in 0 .. CallLimit[case] + 1
    BY <1>1, <1>7 DEF Again
  <2> QED  BY <1>1, <1>2, <2>1, <2>2, ReplaysStep
<1> QED  BY <1>4, <1>5, <1>6, <1>7

LEMMA InvInit == ASSUME WellFormed, BatchInit  PROVE ReplayInv
<1>1. /\ case \in Cases /\ bars \in Histories[case] /\ settings = case
      /\ replay = NewReplay(case, NoOrders) /\ at = AtBar(1, NoCall) /\ made = 0 /\ raised = FALSE
  BY DEF BatchInit
<1>2. Chart /\ case \in Config /\ CallLimit[case] \in Nat
  BY <1>1, ChartIs, CallsAre
<1>3. Ready(NoOrders) /\ Len(NoOrders) = 0
  BY NoneIsReady DEF NoOrders
<1>4. /\ Sound(replay, 1, {}) /\ replay.c = case /\ replay.sources = 0 /\ Len(replay.out) = 0
  BY <1>1, <1>2, <1>3, NewReplayIs
<1>5. /\ at = [bar |-> at.bar, phase |-> at.phase, todo |-> at.todo, opened |-> at.opened, call |-> at.call]
      /\ at.bar = 1 /\ at.phase = "open" /\ at.todo = {} /\ at.call = NoCall
  BY <1>1 DEF AtBar
<1>6. 1 \in DOMAIN bars /\ 1 - 1 = 0
  BY <1>2 DEF Chart
<1>7. MidwayAt(replay, at, before, settings)
  <2>1. \A k \in 1 .. replay.sources : FALSE
    BY <1>4
  <2> QED  BY <1>4, <1>5, <1>6, <2>1 DEF MidwayAt
<1>8. at # Idle
  BY <1>5 DEF Idle
<1>9. made \in 0 .. CallLimit[case] + 1
  BY <1>1, <1>2
<1> QED  BY <1>1, <1>4, <1>7, <1>8, <1>9, MidwayNow DEF ReplayInv

LEMMA InvStep == ASSUME WellFormed, ReplayInv, [BatchNext]_batchVars  PROVE ReplayInv'
<1>1. CASE UNCHANGED batchVars
  <2>1. /\ UNCHANGED <<case, settings, bars, replay, at, before, made, raised>>
    BY <1>1 DEF batchVars
  <2> QED  BY <2>1, ZenonT(40) DEF ReplayInv, Midway, Whole, Sound, Orders, SoundOrder, Fresh, Schedule, Idle
<1>2. CASE BatchNext
  BY <1>2, OpenStep, DispatchStep, RaiseStep, MaterializeStep, DispatchMadeStep, FillStep,
     FinishStep, CallSteps DEF BatchNext
<1> QED  BY <1>1, <1>2

-----------------------------------------------------------------------------
(* What the invariant says of the account.                                 *)

LEMMA InvSound ==
    ASSUME WellFormed, ReplayInv
    PROVE  /\ Chart /\ Sound(replay, Len(bars), {}) /\ replay.c = settings
           /\ at.bar \in 0 .. Len(bars) /\ at.todo \subseteq DOMAIN replay.orders
           /\ at = Idle /\ ~raised => Len(replay.out) = Len(bars)
<1>1. Chart /\ replay.c = settings
  BY InvFacts
<1>2. CASE at # Idle
  <2>1. MidwayAt(replay, at, before, settings)
    BY <1>2, MidwayNow DEF ReplayInv
  <2>2. /\ at.bar \in 1 .. Len(bars) /\ at.bar \in Nat /\ Len(bars) \in Nat
        /\ Sound(replay, at.bar, {}) /\ \A k \in at.todo : Fresh(replay, k)
    BY <1>1, <2>1, MidwayIs DEF Chart
  <2>3. Sound(replay, Len(bars), {})
    BY <2>2, SoundLater
  <2>4. at.todo \subseteq DOMAIN replay.orders
    BY <2>2, SoundIs DEF Fresh, IsSeries
  <2> QED  BY <1>1, <1>2, <2>2, <2>3, <2>4
<1>3. CASE at = Idle
  <2>1. at.bar = 0 /\ at.todo = {}
    BY <1>3 DEF Idle
  <2>2. Sound(replay, Len(bars), {}) /\ (~raised => Len(replay.out) = Len(bars))
    BY <1>3 DEF ReplayInv, Whole
  <2> QED  BY <1>1, <2>1, <2>2 DEF Chart
<1> QED  BY <1>2, <1>3

LEMMA OneEnd ==
    ASSUME NEW o, ~(o.active /\ o.canceled), ~(o.active /\ o.rejected), ~(o.canceled /\ o.rejected)
    PROVE  Cardinality(Done(o)) <= 1
<1>1. Done(o) = {} \/ Done(o) = {"active"} \/ Done(o) = {"canceled"} \/ Done(o) = {"rejected"}
  BY DEF Done
<1> DEFINE D == Done(o)
<1>2. Cardinality({}) = 0
  BY FS_EmptySet
<1>3. Cardinality({"active"}) = 1 /\ Cardinality({"canceled"}) = 1 /\ Cardinality({"rejected"}) = 1
  BY FS_Singleton
<1>4. D = {} \/ D = {"active"} \/ D = {"canceled"} \/ D = {"rejected"}
  BY <1>1
<1> HIDE DEF D
<1>5. Cardinality(D) \in {0, 1}
  BY <1>2, <1>3, <1>4
<1>6. Cardinality(D) <= 1
  BY <1>5
<1> QED  BY <1>6 DEF D

LEMMA InvAccount == ASSUME WellFormed, ReplayInv  PROVE BatchAccountHolds
<1> DEFINE r == replay
<1>1. /\ Chart /\ Sound(r, Len(bars), {}) /\ r.c = settings
      /\ at.bar \in 0 .. Len(bars) /\ at.todo \subseteq DOMAIN r.orders
      /\ at = Idle /\ ~raised => Len(r.out) = Len(bars)
  BY InvSound
<1>2. /\ DOMAIN r.orders = 1 .. Len(r.orders)
      /\ \A k \in 1 .. Len(r.orders) : SoundOrder(r.orders[k])
      /\ \A k \in r.active : k \in 1 .. Len(r.orders) /\ Undecided(r.orders[k])
      /\ r.size \in Int /\ r.lots \in Seq(Lot) /\ OfSide(r.lots, SideOf(r.size)) /\ r.c \in Config
      /\ Balanced(r, r.size) /\ Locks(r) /\ ~r.missed
  BY <1>1, SoundIs DEF IsSeries, Sound
<1>3. BatchTypeOK
  <2>1. ASSUME NEW k \in DOMAIN r.orders
        PROVE  LET o == r.orders[k]
               IN  /\ o.type \in Types /\ o.submit \in DOMAIN bars /\ o.time \in o.submit .. Len(bars)
                   /\ Cardinality(Done(o)) <= 1
                   /\ o.type \in {"entry", "order"} => o.qty \in Nat /\ o.qty <= o.want
    BY <1>2, OneEnd DEF SoundOrder, IsTrade
  <2>2. r.active \subseteq {k \in DOMAIN r.orders : Done(r.orders[k]) = {}}
    BY <1>2 DEF Undecided, Done
  <2>3. \A l \in ToSet(r.lots) : l.side = SideOf(r.size) /\ l.qty > 0 /\ l.fee >= 0
    <3> SUFFICES ASSUME NEW j \in DOMAIN r.lots
                 PROVE  /\ r.lots[j].side = SideOf(r.size) /\ r.lots[j].qty > 0
                        /\ r.lots[j].fee >= 0
      BY DEF ToSet
    <3>1. j \in 1 .. Len(r.lots) /\ r.lots[j] \in Lot
      BY <1>2
    <3> QED  BY <1>2, <3>1, LotValues DEF OfSide
  <2>4. /\ case \in Cases /\ bars \in Histories[case]
        /\ made \in 0 .. CallLimit[case] + 1 /\ raised \in BOOLEAN
    BY DEF ReplayInv
  <2> QED  BY <1>1, <1>2, <2>1, <2>2, <2>3, <2>4 DEF BatchTypeOK
<1>4. BatchBooksBalance
  BY <1>2 DEF BatchBooksBalance, Balanced, Held, Cost, OpenFees, SizesOf, CostsOf, FeesOf, Total
<1>5. RiskHolds
  BY <1>1, <1>2 DEF RiskHolds, Locks
<1>6. NoOrderMissed
  BY <1>2 DEF NoOrderMissed
<1> QED  BY <1>3, <1>4, <1>5, <1>6 DEF BatchAccountHolds

-----------------------------------------------------------------------------
(* The theorems.                                                           *)

LEMMA InvHolds == ASSUME WellFormed  PROVE BatchSpec => []ReplayInv
<1>1. BatchInit => ReplayInv
  BY InvInit
<1>2. ReplayInv /\ [BatchNext]_batchVars => ReplayInv'
  BY InvStep
<1> QED  BY <1>1, <1>2, PTL DEF BatchSpec

\* The account of the batch replay: whatever the configuration, the chart and the
\* calls of the script, an order comes to one end at most, the position is the sum
\* of its lots, the profit the money that has moved, the commission is carried by
\* the trades, no position grows under a risk lock, no session fills more orders
\* than the limit, and no order that a bar triggers is left out when the book is
\* searched by price.
THEOREM BatchAccountIsRight == BatchSpec => []BatchAccountHolds
<1>1. WellFormed
  BY ReplayAssumption
<1>2. ReplayInv => BatchAccountHolds
  BY <1>1, InvAccount
<1>3. BatchSpec => []ReplayInv
  BY <1>1, InvHolds
<1> QED  BY <1>2, <1>3, PTL

=============================================================================
