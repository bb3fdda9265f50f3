--------------------------- MODULE StrategyProofs ---------------------------
(***************************************************************************)
(* The account of the incremental strategy is right for every configuration, *)
(* every bar and every call: what it books, what it lets through, when it    *)
(* locks.                                                                   *)
(*                                                                         *)
(* An operation is a chain of steps on a book (a read that may liquidate, a *)
(* fill, a close, a scan), and the invariant holds between operations only. *)
(* So every step is given what it keeps of a book: Money, the double entry, *)
(* off by x and y while an order is half executed; Sound, the whole book;   *)
(* After, how flags and lists may move; Calm and Shrinks, that nothing is   *)
(* opened.  The recursive functions of the steps (sums, lots closed in      *)
(* turn, scans) are unfolded once each and followed place by place.         *)
(***************************************************************************)
EXTENDS IncrementalStrategy, RulesProofs

-----------------------------------------------------------------------------
(* Lots, and what sums over them say.                                      *)

Lot == [id: Ids, side: Side, qty: Nat \ {0}, price: Int, fee: Nat]
QtysOf(s, id) == [i \in DOMAIN s |-> IF Matches(s[i], id) THEN s[i].qty ELSE 0]
Owned(s, id) == SumOf(QtysOf(s, id))

LEMMA SumsAreTotals ==
    ASSUME NEW b
    PROVE  /\ Position(b) = Held(b.lots)
           /\ Total(b.lots, LAMBDA l : Sign(l.side) * l.qty * l.price) = Cost(b.lots)
           /\ Total(b.lots, LAMBDA l : l.fee) = OpenFees(b.lots)
           /\ \A id : TargetQty(b, id) = Owned(b.lots, id)
<1>1. Position(b) = Held(b.lots)
  BY DEF Position, Total, Held, SizesOf
<1>2. Total(b.lots, LAMBDA l : Sign(l.side) * l.qty * l.price) = Cost(b.lots)
  BY DEF Total, Cost, CostsOf
<1>3. Total(b.lots, LAMBDA l : l.fee) = OpenFees(b.lots)
  BY DEF Total, OpenFees, FeesOf
<1>4. ASSUME NEW id  PROVE TargetQty(b, id) = Owned(b.lots, id)
  BY DEF TargetQty, Total, Owned, QtysOf
<1> QED  BY <1>1, <1>2, <1>3, <1>4

LEMMA LotsAreLots == AreLots(Lot)
BY DEF AreLots, Lot

LEMMA LotValues ==
    ASSUME NEW l \in Lot
    PROVE  /\ l.id \in Ids /\ l.side \in Side /\ l.qty \in Nat \ {0} /\ l.price \in Int /\ l.fee \in Nat
           /\ Sign(l.side) * l.qty \in Int
           /\ Sign(l.side) * l.qty * l.price \in Int
           /\ \A id : (IF Matches(l, id) THEN l.qty ELSE 0) \in 0 .. l.qty
<1>1. l.id \in Ids /\ l.qty \in Nat
  BY DEF Lot
<1>2. ASSUME NEW id  PROVE (IF Matches(l, id) THEN l.qty ELSE 0) \in 0 .. l.qty
  BY <1>1
<1> QED  BY <1>1, <1>2, LotsAreLots, LotNumbers

LEMMA LotSequences ==
    ASSUME NEW s \in Seq(Lot)
    PROVE  /\ SizesOf(s) \in Seq(Int) /\ Len(SizesOf(s)) = Len(s)
           /\ CostsOf(s) \in Seq(Int) /\ Len(CostsOf(s)) = Len(s)
           /\ FeesOf(s) \in Seq(Int) /\ Len(FeesOf(s)) = Len(s)
           /\ \A id : QtysOf(s, id) \in Seq(Int) /\ Len(QtysOf(s, id)) = Len(s)
<1>1. DOMAIN s = 1 .. Len(s) /\ Len(s) \in Nat /\ \A i \in 1 .. Len(s) : s[i] \in Lot
  OBVIOUS
<1>2. ASSUME NEW id  PROVE QtysOf(s, id) \in Seq(Int) /\ Len(QtysOf(s, id)) = Len(s)
  <2>1. \A i \in 1 .. Len(s) : (IF Matches(s[i], id) THEN s[i].qty ELSE 0) \in Int
    BY <1>1, LotValues
  <2> QED  BY <1>1, <2>1 DEF QtysOf
<1> QED  BY <1>2, LotsAreLots, SequencesOfLots

LEMMA LotSums ==
    ASSUME NEW s \in Seq(Lot)
    PROVE  /\ Held(s) \in Int /\ Cost(s) \in Int /\ OpenFees(s) \in Int
           /\ \A id : Owned(s, id) \in Int
BY LotsAreLots, SumsOfLots, LotSequences, SumsType DEF Owned

LEMMA NoLots ==
    /\ Held(<< >>) = 0 /\ Cost(<< >>) = 0 /\ OpenFees(<< >>) = 0
    /\ \A id : Owned(<< >>, id) = 0
<1>1. ASSUME NEW id  PROVE QtysOf(<< >>, id) = << >>
  BY DEF QtysOf
<1> QED  BY <1>1, SumsOfNone, SumOfNone DEF Owned

LEMMA LotAppended ==
    ASSUME NEW s \in Seq(Lot), NEW l \in Lot
    PROVE  /\ Append(s, l) \in Seq(Lot)
           /\ Held(Append(s, l)) = Held(s) + Sign(l.side) * l.qty
           /\ Cost(Append(s, l)) = Cost(s) + Sign(l.side) * l.qty * l.price
           /\ OpenFees(Append(s, l)) = OpenFees(s) + l.fee
BY LotsAreLots, SumsOfAppend

\* Lots of one side: the position is the number of contracts with their sign,
\* no identifier owns more than all, and some are held if there is a lot.
LEMMA SidedSums ==
    ASSUME NEW s \in Seq(Lot), NEW side \in Side, OfSide(s, side), NEW id
    PROVE  /\ Owned(s, id) \in Nat
           /\ Owned(s, id) <= Owned(s, NoId)
           /\ Held(s) = Sign(side) * Owned(s, NoId)
           /\ s # << >> => Owned(s, NoId) > 0
<1> DEFINE N == Len(s)
           A == Sums(QtysOf(s, id))
           B == Sums(QtysOf(s, NoId))
           C == Sums(SizesOf(s))
           S == {i \in 0 .. N : /\ A[i] \in Nat /\ B[i] \in Nat /\ A[i] <= B[i]
                                /\ C[i] = Sign(side) * B[i]
                                /\ i > 0 => B[i] > 0}
<1>1. N \in Nat /\ DOMAIN s = 1 .. N /\ \A i \in 1 .. N : s[i] \in Lot
  OBVIOUS
<1>2. A[0] = 0 /\ B[0] = 0 /\ C[0] = 0
  BY SumsType, LotSequences
<1>3. 0 \in S
  BY <1>1, <1>2, SideSign
<1>4. ASSUME NEW i \in 1 .. N, i - 1 \in S  PROVE i \in S
  <2>1. s[i] \in Lot /\ s[i].side = side
    BY <1>1 DEF OfSide
  <2> DEFINE a == QtysOf(s, id)[i]
             q == s[i].qty
  <2>2. q \in Nat \ {0}
    BY <2>1, LotValues
  <2>3. QtysOf(s, NoId)[i] = q
    BY <1>1 DEF QtysOf, Matches
  <2>4. a \in 0 .. q
    BY <1>1, <2>2 DEF QtysOf
  <2>5. SizesOf(s)[i] = Sign(side) * q
    BY <1>1, <2>1 DEF SizesOf
  <2>6. A[i] = A[i - 1] + a
    BY LotSequences, SumsType
  <2>7. B[i] = B[i - 1] + q
    BY <2>3, LotSequences, SumsType
  <2>8. C[i] = C[i - 1] + Sign(side) * q
    BY <2>5, LotSequences, SumsType
  <2>9. /\ A[i - 1] \in Nat /\ B[i - 1] \in Nat /\ A[i - 1] <= B[i - 1]
        /\ C[i - 1] = Sign(side) * B[i - 1]
    BY <1>4
  <2> HIDE DEF A, B, C, a, q
  <2>10. Sign(side) * (B[i - 1] + q) = Sign(side) * B[i - 1] + Sign(side) * q
    BY <2>2, <2>9, SideSign
  <2>11. i \in 0 .. N
    OBVIOUS
  <2>12. /\ A[i] \in Nat /\ B[i] \in Nat /\ A[i] <= B[i] /\ B[i] > 0
    BY <2>2, <2>4, <2>6, <2>7, <2>9
  <2> QED  BY <2>7, <2>8, <2>9, <2>10, <2>11, <2>12
<1>5. \A i \in 0 .. N : i \in S
  <2> HIDE DEF S
  <2> QED  BY <1>1, <1>3, <1>4, AllPlaces
<1>6. N \in S
  BY <1>1, <1>5
<1>7. s # << >> => N > 0
  BY <1>1
<1>8. Owned(s, id) = A[N] /\ Owned(s, NoId) = B[N] /\ Held(s) = C[N]
  BY LotSequences DEF Owned, Held, SumOf
<1> HIDE DEF A, B, C, N
<1> QED  BY <1>6, <1>7, <1>8

-----------------------------------------------------------------------------
(* Closing lots.  What each lot gives is taken from what is left to close; *)
(* the profit, the cost of the open lots and the shares of the commission  *)
(* change by what this much is worth.                                      *)

Tally == [left: Nat, lots: Seq(Lot), won: Nat, lost: Int, settled: Int]
Worth(x) == (x.won + x.lost) - Cost(x.lots)
Charged(x) == x.settled + OpenFees(x.lots)

IsFee(fee, rate, total) == fee = rate * total

LEMMA ClosingUnfold ==
    ASSUME NEW b, Len(b.lots) \in Nat, NEW id, NEW q, NEW price, NEW fee, NEW total
    PROVE  LET C == Closing(b, id, q, price, fee, total)
           IN  /\ C[0] = [left |-> q, lots |-> << >>, won |-> b.won, lost |-> b.lost,
                          settled |-> b.settled]
               /\ \A i \in 1 .. Len(b.lots) :
                     C[i] = LotTried(C[i - 1], b.lots[i], id, price, fee, total)
<1> DEFINE N == Len(b.lots)
           start == [left |-> q, lots |-> << >>, won |-> b.won, lost |-> b.lost,
                     settled |-> b.settled]
           Step(r, i) == LotTried(r, b.lots[i], id, price, fee, total)
           Is(f, n) == f = [i \in 0 .. n |-> IF i = 0 THEN start ELSE Step(f[i - 1], i)]
           S == {n \in 0 .. N : \E f : Is(f, n)}
           C == Closing(b, id, q, price, fee, total)
<1>0. N \in Nat
  OBVIOUS
<1>1. C = CHOOSE f : Is(f, N)
  BY DEF Closing
<1> HIDE DEF C, start, Step, N
<1>2. 0 \in S
  <2> DEFINE g == [i \in 0 .. 0 |-> start]
  <2>1. g = [i \in 0 .. 0 |-> IF i = 0 THEN start ELSE Step(g[i - 1], i)]
    OBVIOUS
  <2>2. \E f : Is(f, 0)
    BY <2>1
  <2> QED  BY <1>0, <2>2
<1>3. ASSUME NEW n \in 1 .. N, n - 1 \in S  PROVE n \in S
  <2>1. PICK f : Is(f, n - 1)
    BY <1>3
  <2> DEFINE g == [i \in 0 .. n |-> IF i = n THEN Step(f[n - 1], n) ELSE f[i]]
  <2>2. ASSUME NEW i \in 0 .. n  PROVE g[i] = IF i = 0 THEN start ELSE Step(g[i - 1], i)
    <3>1. CASE i = n
      BY <1>0, <3>1
    <3>2. CASE i # n
      <4>1. i \in 0 .. n - 1 /\ (i # 0 => i - 1 \in 0 .. n /\ i - 1 # n)
        BY <1>0, <3>2
      <4>2. f[i] = IF i = 0 THEN start ELSE Step(f[i - 1], i)
        BY <2>1, <4>1
      <4> QED  BY <3>2, <4>1, <4>2
    <3> QED  BY <3>1, <3>2
  <2>3. g = [i \in 0 .. n |-> IF i = 0 THEN start ELSE Step(g[i - 1], i)]
    BY <2>2
  <2>4. \E h : Is(h, n)
    BY <2>3
  <2> QED  BY <1>0, <2>4
<1>4. N \in S
  <2> HIDE DEF S
  <2>1. \A i \in 0 .. N : i \in S
    BY <1>0, <1>2, <1>3, AllPlaces
  <2> QED  BY <1>0, <2>1
<1>5. Is(C, N)
  BY <1>1, <1>4
<1>6. C[0] = start /\ \A i \in 1 .. N : C[i] = Step(C[i - 1], i)
  BY <1>0, <1>5
<1> QED  BY <1>6 DEF C, start, Step, N

\* What trying lot l makes of tally r.
LotGives(n, r, l, id, price, rate) ==
    LET sg == Sign(l.side)
        own == IF Matches(l, id) THEN l.qty ELSE 0
        d == r.left - n.left
    IN  /\ n \in Tally /\ n.lost <= 0 /\ OfSide(n.lots, l.side)
        /\ d \in 0 .. l.qty
        /\ n.left = Max2(r.left - own, 0)
        /\ Held(n.lots) = Held(r.lots) + sg * l.qty - sg * d
        /\ Worth(n) = Worth(r) - (sg * l.qty) * l.price + sg * (price * d)
        /\ Charged(n) = Charged(r) + l.fee + rate * d

LEMMA LotTriedIs ==
    ASSUME NEW r \in Tally, r.lost <= 0, NEW l \in Lot, OfSide(r.lots, l.side), NEW id,
           NEW price \in Int, NEW rate \in Nat, NEW total \in Nat \ {0},
           NEW fee, IsFee(fee, rate, total)
    PROVE  LotGives(LotTried(r, l, id, price, fee, total), r, l, id, price, rate)
<1> DEFINE n == LotTried(r, l, id, price, fee, total)
           sg == Sign(l.side)
           own == IF Matches(l, id) THEN l.qty ELSE 0
           t == IF Matches(l, id) THEN Min2(l.qty, r.left) ELSE 0
           entryFee == (l.fee * t) \div l.qty
           profit == Profit(l, t, price)
           kept == [l EXCEPT !.qty = @ - t, !.fee = @ - entryFee]
           share == (fee * t) \div total
<1>1. /\ l.side \in Side /\ l.qty \in Nat \ {0} /\ l.price \in Int /\ l.fee \in Nat
      /\ sg \in {1, -1} /\ sg \in Int
  BY LotValues, SideSign
<1>2. /\ r.left \in Nat /\ r.lots \in Seq(Lot) /\ r.won \in Nat /\ r.lost \in Int /\ r.settled \in Int
  BY DEF Tally
<1>3. t \in 0 .. l.qty /\ t <= r.left /\ r.left - t = Max2(r.left - own, 0)
  BY <1>1, <1>2 DEF Min2, Max2
<1>4. /\ n.left = r.left - t
      /\ n.lots = IF t = l.qty THEN r.lots ELSE Append(r.lots, kept)
      /\ n.won = r.won + Max2(profit, 0) /\ n.lost = r.lost + Min2(profit, 0)
      /\ n.settled = r.settled + entryFee + share
      /\ n = [left |-> n.left, lots |-> n.lots, won |-> n.won, lost |-> n.lost,
              settled |-> n.settled]
  BY DEF LotTried
<1>5. profit = (sg * (price - l.price)) * t
  BY DEF Profit
<1> HIDE DEF n, own, t, profit
<1>6. share = rate * t
  BY <1>3, ShareExact DEF IsFee
<1>7. entryFee \in 0 .. l.fee /\ (t = l.qty => entryFee = l.fee)
  BY <1>1, <1>3, ShareBound
<1> HIDE DEF entryFee, share, sg
<1>8. rate * t \in Nat /\ profit \in Int /\ price * t \in Int
  BY <1>1, <1>3, <1>5
<1>9. profit - (sg * (l.qty - t)) * l.price = sg * (price * t) - (sg * l.qty) * l.price
  BY <1>1, <1>3, <1>5, Traded
<1>10. /\ Max2(profit, 0) \in Nat /\ Min2(profit, 0) \in Int /\ Min2(profit, 0) <= 0
       /\ Max2(profit, 0) + Min2(profit, 0) = profit
  BY <1>8 DEF Max2, Min2
<1>11. t # l.qty => kept \in Lot /\ kept.side = l.side /\ kept.qty = l.qty - t
                      /\ kept.price = l.price /\ kept.fee = l.fee - entryFee
  <2> SUFFICES ASSUME t # l.qty
               PROVE  kept \in Lot /\ kept.side = l.side /\ kept.qty = l.qty - t
                        /\ kept.price = l.price /\ kept.fee = l.fee - entryFee
    OBVIOUS
  <2>1. l.qty - t \in Nat \ {0} /\ l.fee - entryFee \in Nat
    BY <1>1, <1>3, <1>7
  <2>2. kept = [l EXCEPT !.qty = l.qty - t, !.fee = l.fee - entryFee]
    OBVIOUS
  <2> HIDE DEF kept
  <2> DEFINE q == l.qty - t
             f == l.fee - entryFee
  <2>3. kept = [l EXCEPT !.qty = q, !.fee = f] /\ q \in Nat \ {0} /\ f \in Nat
    BY <2>1, <2>2
  <2> HIDE DEF q, f
  <2>4. kept \in Lot /\ kept.side = l.side /\ kept.qty = q /\ kept.price = l.price /\ kept.fee = f
    BY <2>3 DEF Lot
  <2> QED  BY <2>4 DEF q, f
<1> HIDE DEF kept
<1>12. n.lots \in Seq(Lot) /\ OfSide(n.lots, l.side)
  BY <1>2, <1>4, <1>11 DEF OfSide
<1>13. /\ n \in Tally /\ n.lost <= 0
  <2>1. /\ n.left \in Nat /\ n.won \in Nat /\ n.lost \in Int /\ n.settled \in Int
        /\ n.lost <= 0
    <3>1. n.left \in Nat
      BY <1>1, <1>2, <1>3, <1>4
    <3>2. n.won \in Nat /\ n.lost \in Int /\ n.lost <= 0
      <4>1. n.won = r.won + Max2(profit, 0) /\ n.lost = r.lost + Min2(profit, 0)
        BY <1>4
      <4> QED  BY <1>2, <1>10, <4>1, SMTT(30)
    <3>3. n.settled \in Int
      <4>1. n.settled = r.settled + entryFee + share
        BY <1>4
      <4> QED  BY <1>1, <1>2, <1>6, <1>7, <1>8, <4>1
    <3> QED  BY <3>1, <3>2, <3>3
  <2> QED  BY <2>1, <1>4, <1>12 DEF Tally
<1>14. /\ Held(r.lots) \in Int /\ Cost(r.lots) \in Int /\ OpenFees(r.lots) \in Int
  BY <1>2, LotSums
<1>15. /\ Held(n.lots) = Held(r.lots) + sg * (l.qty - t)
       /\ Cost(n.lots) = Cost(r.lots) + (sg * (l.qty - t)) * l.price
       /\ OpenFees(n.lots) = OpenFees(r.lots) + (l.fee - entryFee)
  <2>1. CASE t = l.qty
    BY <1>1, <1>4, <1>7, <1>14, <2>1
  <2>2. CASE t # l.qty
    <3>1. n.lots = Append(r.lots, kept)
      BY <1>4, <2>2
    <3>2. /\ Held(n.lots) = Held(r.lots) + Sign(kept.side) * kept.qty
          /\ Cost(n.lots) = Cost(r.lots) + Sign(kept.side) * kept.qty * kept.price
          /\ OpenFees(n.lots) = OpenFees(r.lots) + kept.fee
      BY <1>2, <1>11, <2>2, <3>1, LotAppended
    <3> QED  BY <1>11, <2>2, <3>2 DEF sg
  <2> QED  BY <2>1, <2>2
<1>16. sg * (l.qty - t) = sg * l.qty - sg * t
  BY <1>1, <1>3
<1>17. r.left - n.left = t
  BY <1>2, <1>3, <1>4
<1>18. /\ sg * l.qty \in Int /\ sg * t \in Int /\ (sg * l.qty) * l.price \in Int /\ sg * (price * t) \in Int
       /\ (sg * (l.qty - t)) * l.price \in Int
  BY <1>1, <1>3, <1>8
<1>19. n.won + n.lost = r.won + r.lost + profit
  BY <1>2, <1>4, <1>8, <1>10
<1>20. (n.won + n.lost) - Cost(n.lots)
         = (r.won + r.lost) - Cost(r.lots) - (sg * l.qty) * l.price + sg * (price * t)
  <2> DEFINE x == (sg * (l.qty - t)) * l.price
             y == (sg * l.qty) * l.price
             z == sg * (price * t)
  <2>1. x \in Int /\ y \in Int /\ z \in Int /\ profit - x = z - y
    BY <1>9, <1>18
  <2>2. Cost(n.lots) = Cost(r.lots) + x
    BY <1>15
  <2> HIDE DEF x, y, z
  <2>3. (n.won + n.lost) - Cost(n.lots) = (r.won + r.lost) - Cost(r.lots) - y + z
    <3>1. n.won \in Int /\ n.lost \in Int /\ Cost(n.lots) \in Int
      BY <1>12, <1>13, LotSums DEF Tally
    <3> DEFINE a == n.won + n.lost
               k == Cost(n.lots)
               w == r.won + r.lost
               c == Cost(r.lots)
    <3>2. a = w + profit /\ k = c + x /\ w \in Int /\ c \in Int
      BY <1>2, <1>14, <1>19, <2>2
    <3> HIDE DEF a, k, w, c
    <3>3. a - k = w - c - y + z
      <4>1. a - k = w + profit - c - x
        BY <1>8, <2>1, <3>2
      <4> QED  BY <1>8, <2>1, <3>2, <4>1
    <3> QED  BY <3>3 DEF a, k, w, c
  <2> QED  BY <2>3 DEF y, z
<1>21. n.settled + OpenFees(n.lots) = r.settled + OpenFees(r.lots) + l.fee + rate * t
  <2>1. entryFee \in Int /\ share \in Int
    BY <1>1, <1>6, <1>7, <1>8
  <2>2. n.settled = r.settled + entryFee + share
    BY <1>4
  <2>3. OpenFees(n.lots) = OpenFees(r.lots) + (l.fee - entryFee)
    BY <1>15
  <2> QED  BY <1>1, <1>2, <1>6, <1>14, <2>1, <2>2, <2>3
<1>22. Held(n.lots) = Held(r.lots) + sg * l.qty - sg * t
  BY <1>14, <1>15, <1>16, <1>18
<1>23. n.left = Max2(r.left - own, 0) /\ t \in 0 .. l.qty
  BY <1>3, <1>4
<1>24. Worth(n) = Worth(r) - (sg * l.qty) * l.price + sg * (price * t)
  BY <1>20 DEF Worth
<1>25. Charged(n) = Charged(r) + l.fee + rate * t
  BY <1>21 DEF Charged
<1> QED  BY <1>12, <1>13, <1>17, <1>22, <1>23, <1>24, <1>25 DEF n, sg, own, LotGives

LEMMA ClosingIs ==
    ASSUME NEW b, b.lots \in Seq(Lot), b.won \in Nat, b.lost \in Int, b.lost <= 0,
           b.settled \in Int, NEW side \in Side, OfSide(b.lots, side), NEW id,
           NEW q \in Nat, q <= Owned(b.lots, id),
           NEW price \in Int, NEW rate \in Nat, NEW total \in Nat \ {0},
           NEW fee, IsFee(fee, rate, total)
    PROVE  LET r == Closing(b, id, q, price, fee, total)[Len(b.lots)]
           IN  /\ r \in Tally /\ r.lost <= 0 /\ OfSide(r.lots, side)
               /\ Held(r.lots) = Held(b.lots) - Sign(side) * q
               /\ Worth(r) = Worth(b) + Sign(side) * (price * q)
               /\ Charged(r) = Charged(b) + rate * q
<1> DEFINE N == Len(b.lots)
           C == Closing(b, id, q, price, fee, total)
           A == Sums(QtysOf(b.lots, id))
           P == Sums(SizesOf(b.lots))
           K == Sums(CostsOf(b.lots))
           F == Sums(FeesOf(b.lots))
           sg == Sign(side)
           w == b.won + b.lost
           In(i) == /\ C[i] \in Tally /\ C[i].lost <= 0 /\ OfSide(C[i].lots, side)
                    /\ C[i].left <= q /\ C[i].left = Max2(q - A[i], 0)
           Out(i) == /\ Held(C[i].lots) = P[i] - sg * (q - C[i].left)
                     /\ Worth(C[i]) = (w - K[i]) + sg * (price * (q - C[i].left))
                     /\ Charged(C[i]) = (b.settled + F[i]) + rate * (q - C[i].left)
           S == {i \in 0 .. N : In(i) /\ Out(i)}
<1>1. N \in Nat /\ DOMAIN b.lots = 1 .. N /\ \A i \in 1 .. N : b.lots[i] \in Lot
  OBVIOUS
<1>2. /\ C[0] = [left |-> q, lots |-> << >>, won |-> b.won, lost |-> b.lost,
                 settled |-> b.settled]
      /\ \A i \in 1 .. N : C[i] = LotTried(C[i - 1], b.lots[i], id, price, fee, total)
  <2>1. Len(b.lots) \in Nat
    BY <1>1
  <2> HIDE DEF A, P, K, F, sg, w, In, Out, S, C, N
  <2>2. /\ Closing(b, id, q, price, fee, total)[0]
              = [left |-> q, lots |-> << >>, won |-> b.won, lost |-> b.lost,
                 settled |-> b.settled]
        /\ \A i \in 1 .. Len(b.lots) :
              Closing(b, id, q, price, fee, total)[i]
                = LotTried(Closing(b, id, q, price, fee, total)[i - 1], b.lots[i], id, price, fee, total)
    BY ONLY <2>1, ClosingUnfold
  <2> QED  BY <2>2, Zenon DEF C, N
<1>3. /\ A[0] = 0 /\ P[0] = 0 /\ K[0] = 0 /\ F[0] = 0
      /\ \A i \in 0 .. N : A[i] \in Int /\ P[i] \in Int /\ K[i] \in Int /\ F[i] \in Int
  BY LotSequences, SumsType
<1>4. sg \in {1, -1} /\ sg \in Int /\ w \in Int
  BY SideSign
<1> HIDE DEF C
<1>5. 0 \in S
  <2>1. /\ C[0].left = q /\ C[0].lots = << >> /\ C[0].won = b.won /\ C[0].lost = b.lost
        /\ C[0].settled = b.settled
    BY <1>2
  <2>2. C[0] \in Tally
    BY <1>2 DEF Tally
  <2>3. OfSide(C[0].lots, side)
    BY <2>1 DEF OfSide
  <2>4. In(0)
    BY <1>3, <2>1, <2>2, <2>3 DEF Max2
  <2>5. Out(0)
    <3>1. q - C[0].left = 0 /\ sg * 0 = 0 /\ price * 0 = 0 /\ rate * 0 = 0
      BY <1>4, <2>1
    <3>2. Held(C[0].lots) = 0 /\ Worth(C[0]) = w - 0 /\ Charged(C[0]) = b.settled + 0
      BY <2>1, NoLots DEF Worth, Charged
    <3> HIDE DEF P, K, F, sg, w
    <3> QED  BY <1>3, <1>4, <3>1, <3>2
  <2> QED  BY <1>1, <2>4, <2>5
<1>6. ASSUME NEW i \in 1 .. N, i - 1 \in S  PROVE i \in S
  <2> DEFINE l == b.lots[i]
             r == C[i - 1]
             n == C[i]
             own == IF Matches(l, id) THEN l.qty ELSE 0
             u == q - r.left
             d == r.left - n.left
  <2>1. l \in Lot /\ l.side = side
    BY <1>1 DEF OfSide
  <2>2. /\ r \in Tally /\ r.lost <= 0 /\ OfSide(r.lots, side) /\ r.left <= q
        /\ r.left = Max2(q - A[i - 1], 0)
        /\ Held(r.lots) = P[i - 1] - sg * u
        /\ Worth(r) = (w - K[i - 1]) + sg * (price * u)
        /\ Charged(r) = (b.settled + F[i - 1]) + rate * u
    BY <1>6
  <2>3. n = LotTried(r, l, id, price, fee, total)
    BY <1>2
  <2>4. /\ n \in Tally /\ n.lost <= 0 /\ OfSide(n.lots, side)
        /\ d \in 0 .. l.qty
        /\ n.left = Max2(r.left - own, 0)
        /\ Held(n.lots) = Held(r.lots) + sg * l.qty - sg * d
        /\ Worth(n) = Worth(r) - (sg * l.qty) * l.price + sg * (price * d)
        /\ Charged(n) = Charged(r) + l.fee + rate * d
    <3>1. OfSide(r.lots, l.side)
      BY <2>1, <2>2
    <3>2. LotGives(n, r, l, id, price, rate)
      <4>1. r \in Tally /\ r.lost <= 0 /\ l \in Lot
        BY <2>1, <2>2
      <4> HIDE DEF r, l, n
      <4>2. LotGives(LotTried(r, l, id, price, fee, total), r, l, id, price, rate)
        BY <3>1, <4>1, LotTriedIs
      <4> QED  BY <2>3, <4>2
    <3> HIDE DEF r, l, n
    <3> QED  BY <2>1, <3>2 DEF LotGives
  <2>5. /\ own \in Int /\ own >= 0 /\ sg * l.qty \in Int /\ (sg * l.qty) * l.price \in Int /\ l.fee \in Int
        /\ l.qty \in Nat
    <3>1. own \in 0 .. l.qty
      <4> HIDE DEF l
      <4>1. \A x : (IF Matches(l, x) THEN l.qty ELSE 0) \in 0 .. l.qty
        BY <2>1, LotValues
      <4> QED  BY <4>1
    <3>2. sg * l.qty \in Int /\ (sg * l.qty) * l.price \in Int /\ l.fee \in Int /\ l.qty \in Nat
      <4> HIDE DEF l
      <4>1. /\ Sign(l.side) * l.qty \in Int /\ Sign(l.side) * l.qty * l.price \in Int
            /\ l.fee \in Nat /\ l.qty \in Nat
        BY <2>1, LotValues
      <4>2. Sign(l.side) = sg
        BY <2>1
      <4> HIDE DEF sg
      <4> QED  BY <4>1, <4>2
    <3> HIDE DEF own, l, sg
    <3> QED  BY <3>1, <3>2
  <2>6. /\ A[i] = A[i - 1] + own /\ P[i] = P[i - 1] + sg * l.qty
        /\ K[i] = K[i - 1] + (sg * l.qty) * l.price /\ F[i] = F[i - 1] + l.fee
    <3>1. /\ QtysOf(b.lots, id)[i] = own /\ SizesOf(b.lots)[i] = sg * l.qty
          /\ CostsOf(b.lots)[i] = (sg * l.qty) * l.price /\ FeesOf(b.lots)[i] = l.fee
      BY <1>1, <2>1 DEF QtysOf, SizesOf, CostsOf, FeesOf
    <3> HIDE DEF own, l, sg
    <3>2. /\ A[i] = A[i - 1] + QtysOf(b.lots, id)[i] /\ P[i] = P[i - 1] + SizesOf(b.lots)[i]
          /\ K[i] = K[i - 1] + CostsOf(b.lots)[i] /\ F[i] = F[i - 1] + FeesOf(b.lots)[i]
      BY <1>1, LotSequences, SumsType
    <3> QED  BY <3>1, <3>2
  <2>7. /\ A[i - 1] \in Int /\ P[i - 1] \in Int /\ K[i - 1] \in Int /\ F[i - 1] \in Int
        /\ r.left \in Nat /\ n.left \in Nat /\ i \in 0 .. N
    <3>1. i - 1 \in 0 .. N /\ i \in 0 .. N
      BY <1>1
    <3> QED  BY <1>3, <2>2, <2>4, <3>1 DEF Tally
  <2> HIDE DEF A, P, K, F, sg, w, n, r, l, own
  <2>8. u \in Int /\ d \in Int /\ q - n.left = u + d
    <3> DEFINE x == r.left
               y == n.left
    <3>1. x \in Nat /\ y \in Nat
      BY <2>7
    <3> HIDE DEF x, y
    <3>2. q - x \in Int /\ x - y \in Int /\ q - y = (q - x) + (x - y)
      BY <3>1
    <3> QED  BY <3>2 DEF x, y
  <2> HIDE DEF u, d
  <2>9. /\ sg * (u + d) = sg * u + sg * d /\ sg * u \in Int /\ sg * d \in Int
        /\ price * (u + d) = price * u + price * d /\ price * u \in Int /\ price * d \in Int
        /\ rate * (u + d) = rate * u + rate * d /\ rate * u \in Int /\ rate * d \in Int
    BY <1>4, <2>8
  <2>10. /\ sg * (price * (u + d)) = sg * (price * u) + sg * (price * d)
         /\ sg * (price * u) \in Int /\ sg * (price * d) \in Int
    BY <1>4, <2>8, <2>9
  <2>11. n.left <= q /\ n.left = Max2(q - A[i], 0)
    <3>1. /\ r.left = Max2(q - A[i - 1], 0) /\ n.left = Max2(r.left - own, 0)
          /\ A[i] = A[i - 1] + own
      BY <2>2, <2>4, <2>6
    <3>2. own \in Int /\ own >= 0 /\ A[i - 1] \in Int /\ r.left \in Nat /\ n.left \in Nat /\ r.left <= q
      BY <2>2, <2>5, <2>7
    <3> QED  BY <3>1, <3>2 DEF Max2
  <2>12. Held(n.lots) = P[i] - sg * (u + d)
    <3> DEFINE k == sg * l.qty
               x == sg * u
               y == sg * d
    <3>1. k \in Int /\ x \in Int /\ y \in Int
      BY <2>5, <2>9
    <3>2. Held(n.lots) = Held(r.lots) + k - y /\ Held(r.lots) = P[i - 1] - x /\ P[i] = P[i - 1] + k
      BY <2>2, <2>4, <2>6
    <3>3. sg * (u + d) = x + y
      BY <2>9
    <3> HIDE DEF k, x, y
    <3> QED  BY <2>7, <3>1, <3>2, <3>3
  <2>13. Worth(n) = (w - K[i]) + sg * (price * (u + d))
    <3> DEFINE k == (sg * l.qty) * l.price
               x == sg * (price * u)
               y == sg * (price * d)
    <3>1. k \in Int /\ x \in Int /\ y \in Int
      BY <2>5, <2>10
    <3>2. Worth(n) = Worth(r) - k + y /\ Worth(r) = (w - K[i - 1]) + x /\ K[i] = K[i - 1] + k
      BY <2>2, <2>4, <2>6
    <3>3. sg * (price * (u + d)) = x + y
      BY <2>10
    <3> HIDE DEF k, x, y
    <3> QED  BY <1>4, <2>7, <3>1, <3>2, <3>3, SMTT(30)
  <2>14. Charged(n) = (b.settled + F[i]) + rate * (u + d)
    <3> DEFINE x == rate * u
               y == rate * d
               g == F[i - 1]
               k == l.fee
               z == b.settled
    <3>1. x \in Int /\ y \in Int /\ g \in Int /\ k \in Int /\ z \in Int
      BY <2>5, <2>7, <2>9
    <3>2. Charged(n) = Charged(r) + k + y /\ Charged(r) = (z + g) + x /\ F[i] = g + k
      BY <2>2, <2>4, <2>6
    <3>3. rate * (u + d) = x + y
      BY <2>9
    <3>4. Charged(n) = (z + (g + k)) + (x + y)
      <4> HIDE DEF x, y, g, k, z
      <4> QED  BY <3>1, <3>2
    <3>5. Charged(n) = (z + F[i]) + rate * (u + d)
      <4> HIDE DEF x, y, g, k, z
      <4> QED  BY <3>2, <3>3, <3>4
    <3> QED  BY <3>5 DEF z
  <2>15. In(i) /\ Out(i)
    BY <2>4, <2>8, <2>11, <2>12, <2>13, <2>14 DEF n
  <2> QED  BY <2>7, <2>15
<1>7. \A i \in 0 .. N : i \in S
  <2> HIDE DEF S
  <2> QED  BY <1>1, <1>5, <1>6, AllPlaces
<1>8. In(N) /\ Out(N)
  BY <1>1, <1>7
<1>9. /\ A[N] = Owned(b.lots, id) /\ P[N] = Held(b.lots) /\ K[N] = Cost(b.lots)
      /\ F[N] = OpenFees(b.lots)
  BY LotSequences DEF Owned, Held, Cost, OpenFees, SumOf
<1>10. C[N].left = 0
  BY <1>1, <1>3, <1>8, <1>9 DEF Max2
<1>11. q - C[N].left = q
  BY <1>10
<1>12. /\ Held(C[N].lots) = Held(b.lots) - sg * q
       /\ Worth(C[N]) = Worth(b) + sg * (price * q)
       /\ Charged(C[N]) = Charged(b) + rate * q
  <2> HIDE DEF A, P, K, F, sg
  <2> QED  BY <1>8, <1>9, <1>11 DEF Worth, Charged
<1> QED  BY <1>8, <1>12 DEF C, N, sg

-----------------------------------------------------------------------------
(* The parts of the books, and what an operation leaves of them.           *)

IsBook(b) ==
    b = [pending |-> b.pending, exits |-> b.exits, lots |-> b.lots, won |-> b.won,
         lost |-> b.lost, fees |-> b.fees, peak |-> b.peak, dayPeak |-> b.dayPeak,
         filled |-> b.filled, drawdownLocked |-> b.drawdownLocked,
         dayLocked |-> b.dayLocked, filledLocked |-> b.filledLocked, locked |-> b.locked,
         scanning |-> b.scanning, cash |-> b.cash, settled |-> b.settled, fills |-> b.fills]

SameOrders(b, d) == d.pending = b.pending /\ d.exits = b.exits /\ d.scanning = b.scanning
SameMoney(b, d) ==
    /\ d.lots = b.lots /\ d.won = b.won /\ d.lost = b.lost /\ d.fees = b.fees
    /\ d.cash = b.cash /\ d.settled = b.settled
SameLocks(b, d) ==
    /\ d.drawdownLocked = b.drawdownLocked /\ d.dayLocked = b.dayLocked
    /\ d.filledLocked = b.filledLocked /\ d.locked = b.locked
SameCounts(b, d) == d.peak = b.peak /\ d.dayPeak = b.dayPeak /\ d.filled = b.filled
SameFills(b, d) == d.fills = b.fills

LEMMA SetPending ==
    ASSUME NEW b, IsBook(b), NEW x
    PROVE  LET d == [b EXCEPT !.pending = x]
           IN  /\ IsBook(d) /\ d.pending = x /\ d.exits = b.exits /\ d.scanning = b.scanning
               /\ SameMoney(b, d) /\ SameLocks(b, d) /\ SameCounts(b, d) /\ SameFills(b, d)
BY DEF IsBook, SameMoney, SameLocks, SameCounts, SameFills

LEMMA SetMoney ==
    ASSUME NEW b, IsBook(b), NEW lots, NEW won, NEW lost, NEW settled
    PROVE  LET d == [b EXCEPT !.lots = lots, !.won = won, !.lost = lost, !.settled = settled]
           IN  /\ IsBook(d) /\ d.lots = lots /\ d.won = won /\ d.lost = lost /\ d.settled = settled
               /\ d.fees = b.fees /\ d.cash = b.cash
               /\ SameOrders(b, d) /\ SameLocks(b, d) /\ SameCounts(b, d) /\ SameFills(b, d)
<1> DEFINE d1 == [b EXCEPT !.lots = lots]
           d2 == [d1 EXCEPT !.won = won]
           d3 == [d2 EXCEPT !.lost = lost]
           d4 == [d3 EXCEPT !.settled = settled]
           Same(x) == /\ x.fees = b.fees /\ x.cash = b.cash
                      /\ SameOrders(b, x) /\ SameLocks(b, x) /\ SameCounts(b, x) /\ SameFills(b, x)
<1>1. IsBook(d1) /\ d1.lots = lots /\ Same(d1)
  BY DEF IsBook, SameOrders, SameLocks, SameCounts, SameFills
<1> HIDE DEF d1
<1>2. IsBook(d2) /\ d2.lots = lots /\ d2.won = won /\ Same(d2)
  BY <1>1 DEF IsBook, SameOrders, SameLocks, SameCounts, SameFills
<1> HIDE DEF d2
<1>3. IsBook(d3) /\ d3.lots = lots /\ d3.won = won /\ d3.lost = lost /\ Same(d3)
  BY <1>2 DEF IsBook, SameOrders, SameLocks, SameCounts, SameFills
<1> HIDE DEF d3
<1>4. /\ IsBook(d4) /\ d4.lots = lots /\ d4.won = won /\ d4.lost = lost /\ d4.settled = settled
      /\ Same(d4)
  BY <1>3 DEF IsBook, SameOrders, SameLocks, SameCounts, SameFills
<1>5. d4 = [b EXCEPT !.lots = lots, !.won = won, !.lost = lost, !.settled = settled]
  BY DEF d3, d2, d1
<1> HIDE DEF d4
<1> QED  BY <1>4, <1>5

LEMMA SetPaid ==
    ASSUME NEW b, IsBook(b), NEW fees, NEW cash
    PROVE  LET d == [b EXCEPT !.fees = fees, !.cash = cash]
           IN  /\ IsBook(d) /\ d.fees = fees /\ d.cash = cash
               /\ d.lots = b.lots /\ d.won = b.won /\ d.lost = b.lost /\ d.settled = b.settled
               /\ SameOrders(b, d) /\ SameLocks(b, d) /\ SameCounts(b, d) /\ SameFills(b, d)
<1> DEFINE d1 == [b EXCEPT !.fees = fees]
           d2 == [d1 EXCEPT !.cash = cash]
           Same(x) == /\ x.lots = b.lots /\ x.won = b.won /\ x.lost = b.lost /\ x.settled = b.settled
                      /\ SameOrders(b, x) /\ SameLocks(b, x) /\ SameCounts(b, x) /\ SameFills(b, x)
<1>1. IsBook(d1) /\ d1.fees = fees /\ Same(d1)
  BY DEF IsBook, SameOrders, SameLocks, SameCounts, SameFills
<1> HIDE DEF d1
<1>2. IsBook(d2) /\ d2.fees = fees /\ d2.cash = cash /\ Same(d2)
  BY <1>1 DEF IsBook, SameOrders, SameLocks, SameCounts, SameFills
<1>3. d2 = [b EXCEPT !.fees = fees, !.cash = cash]
  BY DEF d1
<1> HIDE DEF d2
<1> QED  BY <1>2, <1>3

-----------------------------------------------------------------------------
(* The money of an account: x is what its trades have booked beyond the    *)
(* money that changed hands, y the commission charged beyond that of its   *)
(* trades.  Both are 0 but in the middle of a fill.                        *)

Sided(s) == \E side \in Side : OfSide(s, side)
Money(b, x, y) ==
    /\ b.lots \in Seq(Lot) /\ Sided(b.lots)
    /\ b.won \in Nat /\ b.lost \in Int /\ b.lost <= 0
    /\ b.fees \in Nat /\ b.cash \in Int /\ b.settled \in Int
    /\ Worth(b) - b.cash = x
    /\ b.fees - Charged(b) = y

LEMMA WorthIs ==
    ASSUME NEW b, b.lots \in Seq(Lot), b.won \in Nat, b.lost \in Int, b.settled \in Int
    PROVE  Worth(b) \in Int /\ Charged(b) \in Int
<1> DEFINE cost == Cost(b.lots)
           open == OpenFees(b.lots)
           won == b.won
           lost == b.lost
           settled == b.settled
<1>1. cost \in Int /\ open \in Int
  BY LotSums
<1>2. won \in Int /\ lost \in Int /\ settled \in Int
  OBVIOUS
<1>3. Worth(b) = (won + lost) - cost /\ Charged(b) = settled + open
  BY DEF Worth, Charged
<1> HIDE DEF cost, open, won, lost, settled
<1> QED  BY <1>1, <1>2, <1>3

LEMMA WorthSame ==
    ASSUME NEW b, NEW d, d.lots = b.lots, d.won = b.won, d.lost = b.lost, d.settled = b.settled
    PROVE  Worth(d) = Worth(b) /\ Charged(d) = Charged(b)
BY DEF Worth, Charged

LEMMA SidedIs ==
    ASSUME NEW s \in Seq(Lot), Sided(s)
    PROVE  /\ Held(s) \in Int /\ Size(Held(s)) \in Nat
           /\ Size(Held(s)) = Owned(s, NoId)
           /\ Held(s) = 0 <=> s = << >>
           /\ Held(s) > 0 => OfSide(s, "long")
           /\ Held(s) < 0 => OfSide(s, "short")
           /\ \A id : Owned(s, id) \in Nat /\ Owned(s, id) <= Size(Held(s))
<1>1. PICK side \in Side : OfSide(s, side)
  BY DEF Sided
<1>2. ASSUME NEW id
      PROVE  /\ Owned(s, id) \in Nat /\ Owned(s, id) <= Owned(s, NoId)
             /\ Held(s) = Sign(side) * Owned(s, NoId)
             /\ s # << >> => Owned(s, NoId) > 0
  BY <1>1, SidedSums
<1>3. /\ Held(s) = Sign(side) * Owned(s, NoId) /\ s # << >> => Owned(s, NoId) > 0
      /\ Owned(s, NoId) \in Nat
  BY <1>2
<1>4. /\ side = "long" \/ side = "short"
      /\ Sign("long") = 1 /\ Sign("short") = -1 /\ (s = << >> => Held(s) = 0)
  BY NoLots DEF Side, Sign
<1>5. CASE side = "long"
  BY <1>1, <1>2, <1>3, <1>4, <1>5 DEF Size, Max2
<1>6. CASE side = "short"
  BY <1>1, <1>2, <1>3, <1>4, <1>6 DEF Size, Max2
<1> QED  BY <1>4, <1>5, <1>6

\* 1 for a long position, -1 for a short one.
Way(s) == IF Held(s) > 0 THEN 1 ELSE -1

LEMMA ClosedIs ==
    ASSUME NEW b, IsBook(b), NEW x \in Int, NEW y \in Int, Money(b, x, y), Held(b.lots) # 0, NEW id,
           NEW q \in Nat, q <= Owned(b.lots, id),
           NEW price \in Int, NEW rate \in Nat, NEW total \in Nat \ {0},
           NEW fee, IsFee(fee, rate, total)
    PROVE  LET d == Closed(b, id, q, price, fee, total)
           IN  /\ IsBook(d) /\ d.fees = b.fees /\ d.cash = b.cash
               /\ SameOrders(b, d) /\ SameLocks(b, d) /\ SameCounts(b, d) /\ SameFills(b, d)
               /\ Money(d, x + Way(b.lots) * (price * q), y - rate * q)
               /\ Held(d.lots) = Held(b.lots) - Way(b.lots) * q
<1> DEFINE r == Closing(b, id, q, price, fee, total)[Len(b.lots)]
           d == Closed(b, id, q, price, fee, total)
           side == IF Held(b.lots) > 0 THEN "long" ELSE "short"
           w == Way(b.lots)
<1>1. /\ b.lots \in Seq(Lot) /\ Sided(b.lots) /\ b.won \in Nat /\ b.lost \in Int /\ b.lost <= 0
      /\ b.fees \in Nat /\ b.cash \in Int /\ b.settled \in Int
      /\ Worth(b) - b.cash = x /\ b.fees - Charged(b) = y
  BY DEF Money
<1>2. OfSide(b.lots, side) /\ side \in Side /\ Sign(side) = w /\ w \in Int
  BY <1>1, SidedIs DEF Side, Sign, Way
<1>3. /\ r \in Tally /\ r.lost <= 0 /\ OfSide(r.lots, side)
      /\ Held(r.lots) = Held(b.lots) - Sign(side) * q
      /\ Worth(r) = Worth(b) + Sign(side) * (price * q)
      /\ Charged(r) = Charged(b) + rate * q
  <2> HIDE DEF side
  <2> QED  BY <1>1, <1>2, ClosingIs
<1>4. d = [b EXCEPT !.lots = r.lots, !.won = r.won, !.lost = r.lost, !.settled = r.settled]
  BY DEF Closed
<1> HIDE DEF r, d
<1>5. /\ IsBook(d) /\ d.lots = r.lots /\ d.won = r.won /\ d.lost = r.lost /\ d.settled = r.settled
      /\ d.fees = b.fees /\ d.cash = b.cash
      /\ SameOrders(b, d) /\ SameLocks(b, d) /\ SameCounts(b, d) /\ SameFills(b, d)
  <2> DEFINE lots == r.lots
             won == r.won
             lost == r.lost
             settled == r.settled
             e == [b EXCEPT !.lots = lots, !.won = won, !.lost = lost, !.settled = settled]
  <2> HIDE DEF lots, won, lost, settled
  <2>1. /\ IsBook(e) /\ e.lots = lots /\ e.won = won /\ e.lost = lost /\ e.settled = settled
        /\ e.fees = b.fees /\ e.cash = b.cash
        /\ SameOrders(b, e) /\ SameLocks(b, e) /\ SameCounts(b, e) /\ SameFills(b, e)
    BY SetMoney, Zenon
  <2>2. d = e
    BY <1>4 DEF lots, won, lost, settled
  <2> HIDE DEF e
  <2> QED  BY <2>1, <2>2 DEF lots, won, lost, settled
<1>6. Worth(d) = Worth(r) /\ Charged(d) = Charged(r)
  BY <1>5, WorthSame
<1>7. Sided(d.lots) /\ d.lots \in Seq(Lot) /\ d.won \in Nat /\ d.lost \in Int /\ d.settled \in Int
  BY <1>2, <1>3, <1>5 DEF Sided, Tally
<1>8. /\ Worth(b) \in Int /\ Charged(b) \in Int
  BY <1>1, WorthIs
<1>9. /\ w * (price * q) \in Int /\ rate * q \in Int
  BY <1>2
<1>10. Worth(d) - d.cash = x + w * (price * q)
  <2> DEFINE u == w * (price * q)
  <2>1. u \in Int /\ Worth(d) = Worth(b) + u
    BY <1>2, <1>3, <1>6, <1>9
  <2> HIDE DEF u
  <2>2. Worth(d) - d.cash = x + u
    BY <1>1, <1>5, <1>8, <2>1
  <2> QED  BY <2>2 DEF u
<1>11. d.fees - Charged(d) = y - rate * q
  <2> DEFINE u == rate * q
  <2>1. u \in Int /\ Charged(d) = Charged(b) + u
    BY <1>3, <1>6, <1>9
  <2> HIDE DEF u
  <2>2. d.fees - Charged(d) = y - u
    BY <1>1, <1>5, <1>8, <2>1
  <2> QED  BY <2>2 DEF u
<1>12. Money(d, x + w * (price * q), y - rate * q)
  BY <1>1, <1>3, <1>5, <1>7, <1>10, <1>11 DEF Money
<1>13. Held(d.lots) = Held(b.lots) - w * q
  BY <1>2, <1>3, <1>5
<1> QED  BY <1>5, <1>12, <1>13 DEF d

LEMMA ClosingSideIs ==
    ASSUME NEW b, Held(b.lots) \in Int
    PROVE  /\ ClosingSide(b) \in Side /\ Sign(ClosingSide(b)) = -Way(b.lots)
           /\ Way(b.lots) \in {1, -1} /\ Way(b.lots) \in Int
<1>1. Position(b) = Held(b.lots)
  BY SumsAreTotals
<1> QED  BY <1>1 DEF ClosingSide, Side, Sign, Way

LEMMA SlippedIs ==
    ASSUME config \in Config, NEW price \in Int, NEW side \in Side
    PROVE  Slipped(config, price, side) \in Int
<1>1. Sign(side) \in Int /\ config.slip \in Nat
  BY SideSign, ConfigIs
<1> QED  BY <1>1 DEF Slipped

LEMMA SoldIs ==
    ASSUME config \in Config, NEW b, IsBook(b), NEW x \in Int, NEW y \in Int, Money(b, x, y),
           Held(b.lots) # 0, NEW id, NEW q \in Nat \ {0}, q <= Owned(b.lots, id), NEW price \in Int
    PROVE  LET d == Sold(b, id, q, price)
           IN  /\ IsBook(d)
               /\ SameOrders(b, d) /\ SameLocks(b, d) /\ SameCounts(b, d) /\ SameFills(b, d)
               /\ Money(d, x, y)
               /\ Held(d.lots) = Held(b.lots) - Way(b.lots) * q
<1> DEFINE s == ClosingSide(b)
           p == Slipped(config, price, s)
           w == Way(b.lots)
           fee == config.rate * q
           fees == b.fees + fee
           cash == b.cash - Sign(s) * q * p
           a == [b EXCEPT !.fees = fees, !.cash = cash]
           d == Sold(b, id, q, price)
<1>1. /\ b.lots \in Seq(Lot) /\ Sided(b.lots) /\ b.won \in Nat /\ b.lost \in Int /\ b.lost <= 0
      /\ b.fees \in Nat /\ b.cash \in Int /\ b.settled \in Int
      /\ Worth(b) - b.cash = x /\ b.fees - Charged(b) = y
  BY DEF Money
<1>2. Held(b.lots) \in Int /\ Cost(b.lots) \in Int /\ OpenFees(b.lots) \in Int
  BY <1>1, LotSums
<1>3. s \in Side /\ Sign(s) = -w /\ w \in {1, -1} /\ w \in Int
  BY <1>2, ClosingSideIs
<1>4. p \in Int /\ config.rate \in Nat /\ fee \in Nat
  <2>1. config.rate \in Nat
    BY ConfigIs
  <2>2. p \in Int
    <3> HIDE DEF s
    <3> QED  BY <1>3, SlippedIs
  <2> QED  BY <2>1, <2>2
<1>5. d = Closed(a, id, q, p, fee, q)
  BY DEF Sold, Fee
<1> HIDE DEF s, p, w, d
<1>6. cash = b.cash + w * (p * q) /\ w * (p * q) \in Int /\ p * q \in Int
  <2>1. CASE w = 1
    BY <1>1, <1>3, <1>4, <2>1
  <2>2. CASE w = -1
    BY <1>1, <1>3, <1>4, <2>2
  <2> QED  BY <1>3, <2>1, <2>2
<1>7. IsFee(fee, config.rate, q)
  BY DEF IsFee
<1> HIDE DEF fee, fees, cash
<1>8. /\ IsBook(a) /\ a.fees = fees /\ a.cash = cash
      /\ a.lots = b.lots /\ a.won = b.won /\ a.lost = b.lost /\ a.settled = b.settled
      /\ SameOrders(b, a) /\ SameLocks(b, a) /\ SameCounts(b, a) /\ SameFills(b, a)
  BY SetPaid, Zenon
<1> HIDE DEF a
<1> DEFINE u == w * (p * q)
           k == x - u
           m == y + fee
<1>9. Worth(a) = Worth(b) /\ Charged(a) = Charged(b) /\ Worth(b) \in Int /\ Charged(b) \in Int
  BY <1>1, <1>8, WorthIs, WorthSame
<1>10. Money(a, k, m) /\ k \in Int /\ m \in Int
  <2>1. u \in Int /\ a.cash = b.cash + u
    BY <1>6, <1>8
  <2>2. a.fees = b.fees + fee
    BY <1>8 DEF fees
  <2> HIDE DEF u
  <2>3. Worth(a) - a.cash = k /\ k \in Int
    <3> DEFINE g == Worth(b)
               h == b.cash
    <3>1. Worth(a) = g /\ a.cash = h + u /\ g - h = x /\ g \in Int /\ h \in Int /\ u \in Int
      BY <1>1, <1>9, <2>1
    <3>2. k = x - u
      OBVIOUS
    <3> HIDE DEF g, h, k
    <3> QED  BY <3>1, <3>2
  <2>4. a.fees - Charged(a) = m /\ m \in Int
    <3> DEFINE g == Charged(b)
               h == b.fees
    <3>1. Charged(a) = g /\ a.fees = h + fee /\ h - g = y /\ g \in Int /\ h \in Nat /\ fee \in Nat
      BY <1>1, <1>4, <1>9, <2>2
    <3>2. m = y + fee
      OBVIOUS
    <3> HIDE DEF g, h, m
    <3>3. y \in Int
      BY ONLY <3>1
    <3>4. m \in Int
      BY ONLY <3>1, <3>2, <3>3
    <3>5. (h + fee) - g = y + fee
      BY ONLY <3>1, <3>3
    <3>6. a.fees - Charged(a) = (h + fee) - g
      BY ONLY <3>1
    <3> QED  BY ONLY <3>2, <3>4, <3>5, <3>6, Zenon
  <2>5. a.fees \in Nat /\ a.cash \in Int
    BY <1>1, <1>4, <2>1, <2>2
  <2> HIDE DEF k, m
  <2> QED  BY <1>1, <1>8, <2>3, <2>4, <2>5 DEF Money
<1> HIDE DEF k, m
<1> DEFINE e == Closed(a, id, q, p, fee, q)
<1>11. /\ IsBook(e) /\ e.fees = a.fees /\ e.cash = a.cash
       /\ SameOrders(a, e) /\ SameLocks(a, e) /\ SameCounts(a, e) /\ SameFills(a, e)
       /\ Money(e, k + Way(a.lots) * (p * q), m - config.rate * q)
       /\ Held(e.lots) = Held(a.lots) - Way(a.lots) * q
  <2>1. Held(a.lots) # 0 /\ q <= Owned(a.lots, id) /\ q \in Nat
    BY <1>8
  <2> QED  BY <1>4, <1>7, <1>8, <1>10, <2>1, ClosedIs
<1> HIDE DEF e
<1>12. k + Way(a.lots) * (p * q) = x /\ m - config.rate * q = y
  <2>1. Way(a.lots) = w
    BY <1>8 DEF w
  <2>2. k + u = x
    BY <1>6 DEF k
  <2>3. m - fee = y
    BY <1>4 DEF m
  <2> QED  BY <2>1, <2>2, <2>3 DEF fee
<1>13. Money(e, x, y) /\ Held(e.lots) = Held(b.lots) - Way(b.lots) * q
  BY <1>8, <1>11, <1>12
<1>14. SameOrders(b, e) /\ SameLocks(b, e) /\ SameCounts(b, e) /\ SameFills(b, e)
  BY <1>8, <1>11 DEF SameOrders, SameLocks, SameCounts, SameFills
<1>15. d = e
  BY <1>5 DEF e
<1> QED  BY <1>11, <1>13, <1>14, <1>15 DEF d

-----------------------------------------------------------------------------
(* Liquidation.                                                            *)

AllFlagged(s) == [i \in DOMAIN s |-> [s[i] EXCEPT !.canceled = TRUE]]
Liquidated(b, d) ==
    /\ d.lots = << >> /\ d.exits = << >> /\ d.dayLocked = TRUE /\ d.locked = TRUE
    /\ d.pending = (IF b.scanning THEN AllFlagged(b.pending) ELSE << >>)
    /\ d.scanning = b.scanning
    /\ d.drawdownLocked = b.drawdownLocked /\ d.filledLocked = b.filledLocked
    /\ SameCounts(b, d) /\ SameFills(b, d)

LEMMA SetDayLocked ==
    ASSUME NEW b, IsBook(b)
    PROVE  LET d == [b EXCEPT !.dayLocked = TRUE, !.exits = << >>]
           IN  /\ IsBook(d) /\ d.dayLocked = TRUE /\ d.exits = << >>
               /\ d.pending = b.pending /\ d.scanning = b.scanning
               /\ d.drawdownLocked = b.drawdownLocked /\ d.filledLocked = b.filledLocked
               /\ SameMoney(b, d) /\ SameCounts(b, d) /\ SameFills(b, d)
<1> DEFINE d1 == [b EXCEPT !.dayLocked = TRUE]
           d2 == [d1 EXCEPT !.exits = << >>]
           Same(x) == /\ x.pending = b.pending /\ x.scanning = b.scanning
                      /\ x.drawdownLocked = b.drawdownLocked /\ x.filledLocked = b.filledLocked
                      /\ SameMoney(b, x) /\ SameCounts(b, x) /\ SameFills(b, x)
<1>1. IsBook(d1) /\ d1.dayLocked = TRUE /\ Same(d1)
  <2> DEFINE t == TRUE
             e == [b EXCEPT !.dayLocked = t]
  <2> HIDE DEF t
  <2>1. IsBook(e) /\ e.dayLocked = t /\ Same(e)
    BY DEF IsBook, SameMoney, SameCounts, SameFills
  <2>2. d1 = e
    BY DEF t
  <2> HIDE DEF d1, e
  <2> QED  BY <2>1, <2>2 DEF t
<1> HIDE DEF d1
<1>2. IsBook(d2) /\ d2.dayLocked = TRUE /\ d2.exits = << >> /\ Same(d2)
  BY <1>1 DEF IsBook, SameMoney, SameCounts, SameFills
<1>3. d2 = [b EXCEPT !.dayLocked = TRUE, !.exits = << >>]
  BY DEF d1
<1> HIDE DEF d2
<1> QED  BY <1>2, <1>3

LEMMA LockSyncedIs ==
    ASSUME NEW b, IsBook(b)
    PROVE  LET d == LockSynced(b)
           IN  /\ IsBook(d) /\ d.locked = (b.drawdownLocked \/ b.dayLocked \/ b.filledLocked)
               /\ d.drawdownLocked = b.drawdownLocked /\ d.dayLocked = b.dayLocked
               /\ d.filledLocked = b.filledLocked
               /\ SameOrders(b, d) /\ SameMoney(b, d) /\ SameCounts(b, d) /\ SameFills(b, d)
BY DEF LockSynced, IsBook, SameMoney, SameOrders, SameCounts, SameFills

LEMMA AllCanceledIs ==
    ASSUME NEW b, IsBook(b)
    PROVE  LET d == AllCanceled(b)
           IN  /\ IsBook(d) /\ d.exits = b.exits /\ d.scanning = b.scanning
               /\ d.pending = (IF b.scanning THEN AllFlagged(b.pending) ELSE << >>)
               /\ SameMoney(b, d) /\ SameLocks(b, d) /\ SameCounts(b, d) /\ SameFills(b, d)
<1> DEFINE s == IF b.scanning THEN AllFlagged(b.pending) ELSE << >>
           e == [b EXCEPT !.pending = s]
<1>1. AllCanceled(b) = e
  BY DEF AllCanceled, AllFlagged
<1> HIDE DEF s
<1>2. /\ IsBook(e) /\ e.pending = s /\ e.exits = b.exits /\ e.scanning = b.scanning
      /\ SameMoney(b, e) /\ SameLocks(b, e) /\ SameCounts(b, e) /\ SameFills(b, e)
  BY SetPending, Zenon
<1> HIDE DEF e
<1> QED  BY <1>1, <1>2 DEF s

LEMMA MoneySame ==
    ASSUME NEW b, NEW d, SameMoney(b, d), NEW x, NEW y, Money(b, x, y)
    PROVE  Money(d, x, y)
BY DEF Money, SameMoney, Worth, Charged

LEMMA NothingToLose ==
    ASSUME NEW b, b.lots = << >>, NEW v
    PROVE  ~MustLiquidate(b, v) /\ Sync(b, v) = b
<1>1. Position(b) = 0
  BY SumsAreTotals, NoLots
<1> QED  BY <1>1 DEF MustLiquidate, Sync

LEMMA SyncIs ==
    ASSUME config \in Config, NEW v \in OkBar, NEW b, IsBook(b),
           NEW x \in Int, NEW y \in Int, Money(b, x, y)
    PROVE  LET d == Sync(b, v)
           IN  /\ IsBook(d) /\ Money(d, x, y) /\ ~MustLiquidate(d, v)
               /\ \/ d = b
                  \/ MustLiquidate(b, v) /\ Liquidated(b, d)
<1> DEFINE d == Sync(b, v)
<1>1. CASE ~MustLiquidate(b, v)
  BY <1>1 DEF Sync
<1>2. CASE MustLiquidate(b, v)
  <2> DEFINE b1 == AllCanceled(b)
             b2 == [b1 EXCEPT !.dayLocked = TRUE, !.exits = << >>]
             q == Size(Position(b))
             p == RiskPrice(b, v)
             b3 == Sold(b2, NoId, q, p)
             b4 == LockSynced(b3)
  <2>1. d = b4
    BY <1>2 DEF Sync
  <2>2. Position(b) = Held(b.lots) /\ Held(b.lots) # 0
    BY <1>2, SumsAreTotals DEF MustLiquidate
  <2>3. b.lots \in Seq(Lot) /\ Sided(b.lots)
    BY DEF Money
  <2>4. /\ Held(b.lots) \in Int /\ q \in Nat \ {0} /\ q = Owned(b.lots, NoId)
        /\ Held(b.lots) - Way(b.lots) * q = 0
    <3>1. Held(b.lots) \in Int /\ q = Size(Held(b.lots)) /\ q = Owned(b.lots, NoId)
      BY <2>2, <2>3, SidedIs
    <3> HIDE DEF q
    <3>2. q \in Nat \ {0} /\ Held(b.lots) - Way(b.lots) * q = 0
      BY <2>2, <3>1 DEF Size, Max2, Way
    <3> QED  BY <3>1, <3>2
  <2>5. p \in Int
    BY BarIs DEF RiskPrice
  <2>6. /\ IsBook(b1) /\ b1.exits = b.exits /\ b1.scanning = b.scanning
        /\ b1.pending = (IF b.scanning THEN AllFlagged(b.pending) ELSE << >>)
        /\ SameMoney(b, b1) /\ SameLocks(b, b1) /\ SameCounts(b, b1) /\ SameFills(b, b1)
    BY AllCanceledIs
  <2> HIDE DEF b1
  <2>7. /\ IsBook(b2) /\ b2.dayLocked = TRUE /\ b2.exits = << >>
        /\ b2.pending = b1.pending /\ b2.scanning = b1.scanning
        /\ b2.drawdownLocked = b1.drawdownLocked /\ b2.filledLocked = b1.filledLocked
        /\ SameMoney(b1, b2) /\ SameCounts(b1, b2) /\ SameFills(b1, b2)
    BY <2>6, SetDayLocked
  <2> HIDE DEF b2
  <2>8. Money(b2, x, y) /\ b2.lots = b.lots
    <3>1. SameMoney(b, b2)
      BY <2>6, <2>7 DEF SameMoney
    <3>2. Money(b2, x, y)
      BY <3>1, MoneySame
    <3> QED  BY <3>1, <3>2 DEF SameMoney
  <2> HIDE DEF q, p
  <2>9. /\ IsBook(b3)
        /\ SameOrders(b2, b3) /\ SameLocks(b2, b3) /\ SameCounts(b2, b3) /\ SameFills(b2, b3)
        /\ Money(b3, x, y)
        /\ Held(b3.lots) = Held(b2.lots) - Way(b2.lots) * q
    <3>1. Held(b2.lots) # 0 /\ q <= Owned(b2.lots, NoId)
      BY <2>2, <2>4, <2>8
    <3> HIDE DEF b3
    <3> QED  BY <2>4, <2>5, <2>7, <2>8, <3>1, SoldIs DEF b3
  <2> HIDE DEF b3
  <2>10. b3.lots = << >>
    <3>1. Held(b3.lots) = 0 /\ b3.lots \in Seq(Lot) /\ Sided(b3.lots)
      BY <2>4, <2>8, <2>9 DEF Money
    <3> QED  BY <3>1, SidedIs
  <2>11. /\ IsBook(b4) /\ b4.locked = (b3.drawdownLocked \/ b3.dayLocked \/ b3.filledLocked)
         /\ b4.drawdownLocked = b3.drawdownLocked /\ b4.dayLocked = b3.dayLocked
         /\ b4.filledLocked = b3.filledLocked
         /\ SameOrders(b3, b4) /\ SameMoney(b3, b4) /\ SameCounts(b3, b4) /\ SameFills(b3, b4)
    BY <2>9, LockSyncedIs
  <2> HIDE DEF b4
  <2>12. Money(b4, x, y)
    BY <2>9, <2>11, MoneySame
  <2>13. b4.lots = << >> /\ ~MustLiquidate(b4, v)
    <3>1. b4.lots = << >>
      BY <2>10, <2>11 DEF SameMoney
    <3> QED  BY <3>1, NothingToLose
  <2>14. b4.dayLocked = TRUE /\ b4.locked = TRUE
    <3>1. b3.dayLocked = TRUE
      BY <2>7, <2>9 DEF SameLocks
    <3> QED  BY <2>11, <3>1
  <2>15. /\ b4.exits = << >> /\ b4.scanning = b.scanning
         /\ b4.pending = (IF b.scanning THEN AllFlagged(b.pending) ELSE << >>)
    BY <2>6, <2>7, <2>9, <2>11 DEF SameOrders
  <2>16. b4.drawdownLocked = b.drawdownLocked /\ b4.filledLocked = b.filledLocked
    BY <2>6, <2>7, <2>9, <2>11 DEF SameLocks
  <2>17. SameCounts(b, b4) /\ SameFills(b, b4)
    BY <2>6, <2>7, <2>9, <2>11 DEF SameCounts, SameFills
  <2>18. Liquidated(b, b4)
    BY <2>13, <2>14, <2>15, <2>16, <2>17 DEF Liquidated
  <2> QED  BY <1>2, <2>1, <2>11, <2>12, <2>13, <2>18
<1> QED  BY <1>1, <1>2

-----------------------------------------------------------------------------
(* What the books are at every moment: the orders, the fills, the counters *)
(* and the locks.                                                          *)

SoundOrder ==
    {o \in Order : /\ ~o.canceled => o.qty > 0
                   /\ o.market => o.limit = NoPrice /\ o.stop = NoPrice}
SoundFill(c, v) ==
    {f \in Fill :
        /\ c.maxSize # Unlimited /\ f.kind = "entry" => Size(f.after) <= c.maxSize
        /\ ~f.market /\ ~f.both => v.low <= f.price /\ f.price <= v.high
        /\ f.both => v.low - c.verify <= f.price /\ f.price <= v.high + c.verify
        /\ f.canceled => f.locked}
Counts(c, b) ==
    /\ b.peak \in Nat /\ b.dayPeak \in Int /\ b.filled \in Nat
    /\ b.drawdownLocked \in BOOLEAN /\ b.dayLocked \in BOOLEAN
    /\ b.filledLocked \in BOOLEAN /\ b.locked \in BOOLEAN /\ b.scanning \in BOOLEAN
    /\ c.maxFilled # Unlimited => b.filled <= MayFill(c)
    /\ c.maxFilled # Unlimited /\ b.filled = MayFill(c) => b.filledLocked
Locks(b) == b.locked = (b.drawdownLocked \/ b.dayLocked \/ b.filledLocked)
Sound(c, v, b, x, y) ==
    /\ IsBook(b) /\ Money(b, x, y)
    /\ b.pending \in Seq(SoundOrder) /\ b.exits \in Seq(Exits[c])
    /\ b.fills \in Seq(SoundFill(c, v))
    /\ Counts(c, b)

LEMMA MapIsSeq ==
    ASSUME NEW n \in Nat, NEW T, NEW f, f = [i \in 1 .. n |-> f[i]], \A i \in 1 .. n : f[i] \in T
    PROVE  f \in Seq(T) /\ Len(f) = n
OBVIOUS

LEMMA OrderIs ==
    ASSUME NEW o \in Order
    PROVE  /\ o.kind \in {"entry", "order"} /\ o.id \in Ids /\ o.side \in Side
           /\ o.qty \in Nat /\ o.want \in Nat /\ o.left \in Nat
           /\ o.limit \in Nat \cup {NoPrice} /\ o.stop \in Nat \cup {NoPrice}
           /\ o.oca \in {"none", "cancel", "reduce"} /\ o.price \in Nat /\ o.time \in Nat
           /\ o.market \in BOOLEAN /\ o.late \in BOOLEAN /\ o.canceled \in BOOLEAN
           /\ o.armed \in BOOLEAN
BY DEF Order

LEMMA FlagOrder ==
    ASSUME NEW o \in SoundOrder, NEW canceled \in BOOLEAN
    PROVE  [o EXCEPT !.canceled = canceled] \in Order
BY DEF SoundOrder, Order

LEMMA FlaggedSound ==
    ASSUME NEW s \in Seq(SoundOrder)
    PROVE  AllFlagged(s) \in Seq(SoundOrder) /\ Len(AllFlagged(s)) = Len(s)
<1> DEFINE f == AllFlagged(s)
<1>1. DOMAIN s = 1 .. Len(s) /\ Len(s) \in Nat /\ \A i \in 1 .. Len(s) : s[i] \in SoundOrder
  OBVIOUS
<1>2. ASSUME NEW i \in 1 .. Len(s)  PROVE f[i] \in SoundOrder
  <2> DEFINE o == s[i]
             n == [o EXCEPT !.canceled = TRUE]
  <2>1. f[i] = n /\ o \in SoundOrder
    BY <1>1 DEF AllFlagged
  <2> HIDE DEF o, f
  <2>2. n \in Order
    BY <2>1, FlagOrder
  <2>3. n.canceled = TRUE /\ n.market = o.market /\ n.limit = o.limit /\ n.stop = o.stop
    BY <2>1 DEF SoundOrder, Order
  <2> HIDE DEF n
  <2>4. n \in SoundOrder
    BY <2>1, <2>2, <2>3 DEF SoundOrder
  <2> QED  BY <2>1, <2>4
<1>3. f = [i \in 1 .. Len(s) |-> f[i]]
  BY <1>1 DEF AllFlagged
<1> HIDE DEF f
<1> QED  BY <1>1, <1>2, <1>3, MapIsSeq DEF f

LEMMA SyncSound ==
    ASSUME config \in Config, NEW v \in OkBar, NEW b,
           NEW x \in Int, NEW y \in Int, Sound(config, v, b, x, y)
    PROVE  LET d == Sync(b, v)
           IN  /\ Sound(config, v, d, x, y) /\ ~MustLiquidate(d, v)
               /\ d = b \/ (MustLiquidate(b, v) /\ Liquidated(b, d))
<1> DEFINE d == Sync(b, v)
<1>1. /\ IsBook(d) /\ Money(d, x, y) /\ ~MustLiquidate(d, v)
      /\ d = b \/ (MustLiquidate(b, v) /\ Liquidated(b, d))
  BY SyncIs DEF Sound
<1> HIDE DEF d
<1>2. CASE d = b
  BY <1>1, <1>2 DEF d
<1>3. CASE MustLiquidate(b, v) /\ Liquidated(b, d)
  <2>1. d.exits \in Seq(Exits[config]) /\ d.fills \in Seq(SoundFill(config, v))
    BY <1>3 DEF Liquidated, Sound, SameFills
  <2>2. d.pending \in Seq(SoundOrder)
    <3>1. AllFlagged(b.pending) \in Seq(SoundOrder)
      BY FlaggedSound DEF Sound
    <3>2. << >> \in Seq(SoundOrder)
      OBVIOUS
    <3> QED  BY <1>3, <3>1, <3>2 DEF Liquidated
  <2>3. Counts(config, d)
    BY <1>3 DEF Liquidated, Sound, SameCounts, Counts
  <2> QED  BY <1>1, <1>3, <2>1, <2>2, <2>3 DEF Sound, d
<1> QED  BY <1>1, <1>2, <1>3

-----------------------------------------------------------------------------
(* Fills.                                                                  *)

Steady(b, d) == SameOrders(b, d) /\ SameLocks(b, d) /\ SameCounts(b, d) /\ SameFills(b, d)

LEMMA SteadySound ==
    ASSUME NEW c, NEW v, NEW b, NEW d, NEW x, NEW y, NEW x2, NEW y2,
           Sound(c, v, b, x, y), IsBook(d), Steady(b, d), Money(d, x2, y2)
    PROVE  Sound(c, v, d, x2, y2)
BY DEF Sound, Steady, SameOrders, SameLocks, SameCounts, SameFills, Counts

LEMMA LiquidatedSince ==
    ASSUME NEW b, NEW e, NEW d, Steady(b, e), Liquidated(e, d)
    PROVE  Liquidated(b, d)
BY DEF Steady, SameOrders, SameLocks, SameCounts, SameFills, Liquidated

\* How an order of a side with sign sg trades when the position is P.
Deal(n, sg, P) ==
    /\ n.traded \in Nat \ {0} /\ n.closed \in Nat /\ n.opened \in Nat
    /\ n.traded = n.closed + n.opened
    /\ n.closed # 0 => sg * P < 0 /\ n.closed <= Size(P)
    /\ n.opened > 0 => \/ n.closed = 0 /\ sg * P >= 0
                       \/ n.closed # 0 /\ n.closed = Size(P)

LEMMA ContractsAre ==
    ASSUME NEW o \in Order, o.qty > 0, NEW P \in Int
    PROVE  LET n == Contracts(o, P)
               sg == Sign(o.side)
               next == PositionAfter(o.kind, o.side, o.qty, P)
           IN  /\ Deal(n, sg, P)
               /\ next \in Int /\ next = P + sg * n.traded
               /\ n.opened > 0 => sg * next > 0
               /\ o.kind = "entry" => n.opened = o.qty
<1> DEFINE sg == Sign(o.side)
           n == Contracts(o, P)
           q == o.qty
           next == PositionAfter(o.kind, o.side, o.qty, P)
<1>1. /\ o.side \in Side /\ sg \in {1, -1} /\ sg \in Int /\ q \in Nat \ {0}
      /\ o.kind \in {"entry", "order"}
  BY OrderIs, SideSign
<1>2. Opposed(o.side, P) <=> sg * P < 0
  BY DEF Opposed
<1>3. Size(P) \in Nat /\ (sg * P < 0 => Size(P) = -(sg * P) /\ Size(P) > 0)
  BY <1>1 DEF Size, Max2
<1> DEFINE tr == n.traded
           cl == n.closed
           op == n.opened
           IsDeal == /\ tr \in Nat \ {0} /\ cl \in Nat /\ op \in Nat /\ tr = cl + op
                     /\ cl # 0 => sg * P < 0 /\ cl <= Size(P)
                     /\ op > 0 => \/ cl = 0 /\ sg * P >= 0
                                  \/ cl # 0 /\ cl = Size(P)
                     /\ next \in Int /\ next = P + sg * tr /\ (op > 0 => sg * next > 0)
<1>4. CASE o.kind = "entry"
  <2>1. tr = Size(next - P) /\ cl = (IF sg * P < 0 THEN Size(P) ELSE 0) /\ op = q
    BY <1>2, <1>4 DEF Contracts
  <2>2. next = IF sg * P < 0 THEN sg * q ELSE P + sg * q
    BY <1>2, <1>4 DEF PositionAfter
  <2> HIDE DEF sg, n, next, q, tr, cl, op
  <2>3. ASSUME sg = 1  PROVE IsDeal
    <3>1. Size(P) \in Nat /\ (P < 0 => Size(P) = -P)
      BY <1>3, <2>3
    <3>2. CASE P < 0
      BY <1>1, <2>1, <2>2, <2>3, <3>1, <3>2 DEF Size, Max2
    <3>3. CASE P >= 0
      BY <1>1, <2>1, <2>2, <2>3, <3>1, <3>3 DEF Size, Max2
    <3> QED  BY <3>2, <3>3
  <2>4. ASSUME sg = -1  PROVE IsDeal
    <3>1. Size(P) \in Nat /\ (P > 0 => Size(P) = P)
      BY <1>3, <2>4
    <3>2. CASE P > 0
      BY <1>1, <2>1, <2>2, <2>4, <3>1, <3>2 DEF Size, Max2
    <3>3. CASE P <= 0
      BY <1>1, <2>1, <2>2, <2>4, <3>1, <3>3 DEF Size, Max2
    <3> QED  BY <3>2, <3>3
  <2>5. IsDeal
    BY <1>1, <2>3, <2>4
  <2> QED  BY <2>1, <2>5 DEF Deal, sg, n, next, q, tr, cl, op
<1>5. CASE o.kind = "order"
  <2> DEFINE closing == IF sg * P < 0 THEN Min2(Size(P), q) ELSE 0
  <2>1. tr = q /\ cl = closing /\ op = q - closing
    BY <1>2, <1>5 DEF Contracts
  <2>2. next = P + sg * q
    BY <1>5 DEF PositionAfter
  <2>3. closing \in Nat /\ closing <= q /\ (sg * P >= 0 => closing = 0)
        /\ (sg * P < 0 => closing <= Size(P) /\ closing > 0
              /\ (closing = q \/ closing = Size(P)))
    BY <1>1, <1>3 DEF Min2
  <2> HIDE DEF sg, n, next, q, closing, tr, cl, op
  <2>4. ASSUME sg = 1  PROVE IsDeal
    BY <1>1, <1>3, <2>1, <2>2, <2>3, <2>4
  <2>5. ASSUME sg = -1  PROVE IsDeal
    BY <1>1, <1>3, <2>1, <2>2, <2>3, <2>5
  <2>6. IsDeal
    BY <1>1, <2>4, <2>5
  <2> QED  BY <1>5, <2>6 DEF Deal, sg, n, next, q, tr, cl, op
<1> QED  BY <1>1, <1>4, <1>5

LEMMA PaidIs ==
    ASSUME config \in Config, NEW v, NEW b, Sound(config, v, b, 0, 0), NEW o \in Order,
           NEW n, n.traded \in Nat, NEW price \in Int
    PROVE  LET d == Paid(b, o, n, price)
           IN  /\ Sound(config, v, d, (Sign(o.side) * n.traded) * price, config.rate * n.traded)
               /\ Steady(b, d) /\ d.lots = b.lots
<1> DEFINE fee == config.rate * n.traded
           gap == (Sign(o.side) * n.traded) * price
           fees == b.fees + fee
           cash == b.cash - gap
           d == [b EXCEPT !.fees = fees, !.cash = cash]
<1>1. Paid(b, o, n, price) = d
  BY DEF Paid, Fee
<1>2. fee \in Nat /\ gap \in Int
  BY ConfigIs, OrderIs, SideSign
<1>3. /\ IsBook(b) /\ b.lots \in Seq(Lot) /\ b.fees \in Nat /\ b.cash \in Int
      /\ b.won \in Nat /\ b.lost \in Int /\ b.settled \in Int
      /\ Worth(b) - b.cash = 0 /\ b.fees - Charged(b) = 0
  BY DEF Sound, Money
<1>4. Worth(b) \in Int /\ Charged(b) \in Int
  <2>1. Cost(b.lots) \in Int /\ OpenFees(b.lots) \in Int
    BY <1>3, LotSums
  <2> QED  BY <1>3, <2>1 DEF Worth, Charged
<1> HIDE DEF fees, cash, fee, gap
<1>5. /\ IsBook(d) /\ d.fees = fees /\ d.cash = cash
      /\ d.lots = b.lots /\ d.won = b.won /\ d.lost = b.lost /\ d.settled = b.settled
      /\ SameOrders(b, d) /\ SameLocks(b, d) /\ SameCounts(b, d) /\ SameFills(b, d)
  BY <1>3, SetPaid, Zenon
<1> HIDE DEF d
<1>6. Worth(d) = Worth(b) /\ Charged(d) = Charged(b)
  BY <1>5 DEF Worth, Charged
<1>7. Worth(d) - d.cash = gap /\ d.cash \in Int
  BY <1>2, <1>3, <1>4, <1>5, <1>6 DEF cash
<1>8. d.fees - Charged(d) = fee /\ d.fees \in Nat
  BY <1>2, <1>3, <1>4, <1>5, <1>6 DEF fees
<1>9. Money(d, gap, fee)
  BY <1>5, <1>7, <1>8 DEF Sound, Money
<1>10. Steady(b, d)
  BY <1>5 DEF Steady
<1>11. Sound(config, v, d, gap, fee)
  BY <1>5, <1>9, <1>10, SteadySound
<1> QED  BY <1>1, <1>5, <1>10, <1>11 DEF gap, fee

LEMMA CoveredIs ==
    ASSUME config \in Config, NEW v \in OkBar, NEW b, NEW sg \in {1, -1}, NEW n,
           Deal(n, sg, Held(b.lots)), NEW price \in Int,
           Sound(config, v, b, (sg * n.traded) * price, config.rate * n.traded)
    PROVE  LET d == Covered(b, n, v, price)
           IN  /\ Sound(config, v, d, (sg * n.opened) * price, config.rate * n.opened)
               /\ n.opened > 0 => d.lots = IF n.closed = 0 THEN b.lots ELSE << >>
               /\ Steady(b, d) \/ (n.opened = 0 /\ Liquidated(b, d))
<1> DEFINE d == Covered(b, n, v, price)
           P == Held(b.lots)
           tr == n.traded
           cl == n.closed
           op == n.opened
           rate == config.rate
           x == (sg * tr) * price
           y == rate * tr
           x2 == (sg * op) * price
           y2 == rate * op
<1>1. /\ tr \in Nat \ {0} /\ cl \in Nat /\ op \in Nat /\ tr = cl + op
      /\ cl # 0 => sg * P < 0 /\ cl <= Size(P)
      /\ op > 0 => (cl = 0 \/ (cl # 0 /\ cl = Size(P)))
  BY DEF Deal
<1>2. b.lots \in Seq(Lot) /\ Sided(b.lots) /\ IsBook(b) /\ Money(b, x, y)
  BY DEF Sound, Money
<1>3. /\ P \in Int /\ Size(P) = Owned(b.lots, NoId)
  BY <1>2, SidedIs
<1>4. rate \in Nat /\ sg \in Int
  BY ConfigIs
<1> HIDE DEF rate, P, tr, cl, op
<1>5. x \in Int /\ y \in Int /\ x2 \in Int /\ y2 \in Int
  BY <1>1, <1>4
<1>6. CASE cl = 0
  <2>1. d = b /\ tr = op
    BY <1>1, <1>6 DEF Covered, cl
  <2> QED  BY <1>6, <2>1 DEF Steady, SameOrders, SameLocks, SameCounts, SameFills, cl, tr, op, rate
<1>7. CASE cl # 0
  <2> DEFINE fee == rate * tr
             e == Closed(b, NoId, cl, price, fee, tr)
             w == Way(b.lots)
  <2>1. d = Sync(e, v)
    BY <1>7 DEF Covered, Fee, rate, tr, cl
  <2>2. IsFee(fee, rate, tr)
    BY DEF IsFee
  <2>3. w = -sg /\ P # 0
    BY <1>1, <1>3, <1>7 DEF Way, P
  <2> HIDE DEF fee, e, d, x, y, x2, y2
  <2>4. /\ IsBook(e) /\ Steady(b, e)
        /\ Money(e, x + Way(b.lots) * (price * cl), y - rate * cl)
        /\ Held(e.lots) = P - Way(b.lots) * cl
    <3>1. Held(b.lots) # 0 /\ cl <= Owned(b.lots, NoId)
      BY <1>1, <1>3, <1>7, <2>3 DEF P
    <3>2. /\ IsBook(e)
          /\ SameOrders(b, e) /\ SameLocks(b, e) /\ SameCounts(b, e) /\ SameFills(b, e)
          /\ Money(e, x + Way(b.lots) * (price * cl), y - rate * cl)
          /\ Held(e.lots) = Held(b.lots) - Way(b.lots) * cl
      BY <1>1, <1>2, <1>4, <1>5, <2>2, <3>1, ClosedIs DEF e
    <3> QED  BY <3>2 DEF Steady, P
  <2>5. x + Way(b.lots) * (price * cl) = x2 /\ y - rate * cl = y2
    <3>1. x = (sg * tr) * price /\ x2 = (sg * op) * price /\ y = rate * tr /\ y2 = rate * op
      BY DEF x, y, x2, y2
    <3>2. Way(b.lots) = -sg
      BY <2>3
    <3>3. y - rate * cl = y2
      BY <1>1, <1>4, <3>1
    <3>4. CASE sg = 1
      BY <1>1, <3>1, <3>2, <3>3, <3>4
    <3>5. CASE sg = -1
      BY <1>1, <3>1, <3>2, <3>3, <3>5
    <3> QED  BY <3>4, <3>5
  <2>6. Sound(config, v, e, x2, y2)
    <3>1. Sound(config, v, b, x, y)
      BY DEF x, y, rate, tr
    <3> QED  BY <2>4, <2>5, <3>1, SteadySound
  <2>7. /\ Sound(config, v, d, x2, y2)
        /\ d = e \/ (MustLiquidate(e, v) /\ Liquidated(e, d))
    BY <1>5, <2>1, <2>6, SyncSound
  <2>8. ASSUME op > 0  PROVE d = e /\ d.lots = << >>
    <3>1. cl = Size(P)
      BY <1>1, <1>7, <2>8
    <3>2. Held(e.lots) = 0
      BY <1>1, <1>3, <2>3, <2>4, <3>1 DEF Size, Max2
    <3>3. e.lots \in Seq(Lot) /\ Sided(e.lots)
      BY <2>6 DEF Sound, Money
    <3>4. e.lots = << >>
      BY <3>2, <3>3, SidedIs
    <3> QED  BY <2>1, <3>4, NothingToLose
  <2>9. Steady(b, d) \/ (op = 0 /\ Liquidated(b, d))
    <3>1. CASE d = e
      BY <2>4, <3>1
    <3>2. CASE d # e
      BY <1>1, <2>4, <2>7, <2>8, <3>2, LiquidatedSince
    <3> QED  BY <3>1, <3>2
  <2> QED  BY <1>7, <2>7, <2>8, <2>9 DEF d, x2, y2, op, cl, rate
<1> QED  BY <1>6, <1>7

LEMMA SetLots ==
    ASSUME NEW b, IsBook(b), NEW x
    PROVE  LET d == [b EXCEPT !.lots = x]
           IN  /\ IsBook(d) /\ d.lots = x /\ d.won = b.won /\ d.lost = b.lost
               /\ d.fees = b.fees /\ d.cash = b.cash /\ d.settled = b.settled /\ Steady(b, d)
BY DEF IsBook, SameOrders, SameLocks, SameCounts, SameFills, Steady

LEMMA OpenedIs ==
    ASSUME config \in Config, NEW v, NEW b, NEW o \in Order, NEW n, NEW next \in Int,
           n.traded \in Nat \ {0}, n.closed \in Nat, n.opened \in Nat,
           n.traded = n.closed + n.opened,
           NEW price \in Int,
           n.opened > 0 => Sign(o.side) * next > 0 /\ OfSide(b.lots, o.side),
           NEW w, NEW u, Sound(config, v, b, w, u),
           w = (Sign(o.side) * n.opened) * price, u = config.rate * n.opened
    PROVE  LET d == Opened(b, o, n, next, price)
           IN  /\ Sound(config, v, d, 0, 0) /\ Steady(b, d)
               /\ n.opened = 0 => d = b
               /\ n.opened > 0 => Held(d.lots) = Held(b.lots) + Sign(o.side) * n.opened
<1> DEFINE d == Opened(b, o, n, next, price)
           rate == config.rate
           fee == rate * n.traded
           side == IF next > 0 THEN "long" ELSE "short"
           lot == [id |-> o.id, side |-> side, qty |-> n.opened, price |-> price,
                   fee |-> Max2(fee - (fee * n.closed) \div n.traded, 0)]
           sg == Sign(o.side)
<1>1. rate \in Nat /\ sg \in {1, -1} /\ sg \in Int /\ o.side \in Side /\ o.id \in Ids
  BY ConfigIs, OrderIs, SideSign
<1>2. CASE n.opened = 0
  <2>1. d = b
    BY <1>2 DEF Opened
  <2>2. (sg * n.opened) * price = 0 /\ rate * n.opened = 0
    BY <1>1, <1>2
  <2>3. Sound(config, v, b, 0, 0)
    BY <2>2
  <2> QED  BY <1>2, <2>1, <2>3 DEF Steady, SameOrders, SameLocks, SameCounts, SameFills
<1>3. CASE n.opened # 0
  <2>1. n.opened > 0 /\ sg * next > 0 /\ next # 0
    BY <1>1, <1>3
  <2>2. side = o.side
    BY <1>1, <2>1 DEF Side, Sign
  <2>3. Max2(fee - (fee * n.closed) \div n.traded, 0) = rate * n.opened /\ rate * n.opened \in Nat
    <3>1. (fee * n.closed) \div n.traded = rate * n.closed
      BY <1>1, ShareExact
    <3>2. fee - rate * n.closed = rate * n.opened /\ rate * n.opened \in Nat
      BY <1>1
    <3> HIDE DEF fee
    <3> QED  BY <3>1, <3>2 DEF Max2
  <2> DEFINE m == (sg * n.opened) * price
             lots == Append(b.lots, lot)
             e == [b EXCEPT !.lots = lots]
  <2>4. d = e
    BY <2>1 DEF Opened, Fee
  <2>5. lot \in Lot /\ lot.side = o.side /\ lot.qty = n.opened /\ lot.price = price /\ lot.fee = u
    <3>1. lot = [id |-> o.id, side |-> o.side, qty |-> n.opened, price |-> price, fee |-> u]
      BY <2>2, <2>3
    <3> HIDE DEF lot
    <3>2. u \in Nat
      BY <2>3
    <3> QED  BY <1>1, <2>1, <3>1, <3>2 DEF Lot
  <2> HIDE DEF lot
  <2>6. /\ IsBook(b) /\ b.lots \in Seq(Lot) /\ Money(b, m, u)
    BY DEF Sound, Money
  <2>7. /\ Held(b.lots) \in Int /\ Cost(b.lots) \in Int /\ OpenFees(b.lots) \in Int
    BY <2>6, LotSums
  <2>8. /\ lots \in Seq(Lot)
        /\ Held(lots) = Held(b.lots) + sg * n.opened
        /\ Cost(lots) = Cost(b.lots) + m
        /\ OpenFees(lots) = OpenFees(b.lots) + u
    BY <2>5, <2>6, LotAppended
  <2>9. Sided(lots)
    <3>1. OfSide(b.lots, o.side)
      BY <2>1
    <3>2. OfSide(lots, o.side)
      BY <2>5, <2>6, <3>1 DEF OfSide
    <3> QED  BY <1>1, <3>2 DEF Sided
  <2> HIDE DEF lots
  <2>10. /\ IsBook(e) /\ e.lots = lots /\ e.won = b.won /\ e.lost = b.lost
         /\ e.fees = b.fees /\ e.cash = b.cash /\ e.settled = b.settled /\ Steady(b, e)
    BY <2>6, SetLots
  <2> HIDE DEF e, d
  <2>11. m \in Int /\ u \in Nat
    BY <1>1, <2>3
  <2> HIDE DEF m
  <2>12. /\ b.won \in Nat /\ b.lost \in Int /\ b.lost <= 0
         /\ b.fees \in Nat /\ b.cash \in Int /\ b.settled \in Int
         /\ ((b.won + b.lost) - Cost(b.lots)) - b.cash = m
         /\ b.fees - (b.settled + OpenFees(b.lots)) = u
    BY <2>6 DEF Money, Worth, Charged
  <2>13. ((e.won + e.lost) - Cost(e.lots)) - e.cash = 0
    <3> DEFINE g == b.won + b.lost
               h == b.cash
               k == Cost(b.lots)
    <3>1. e.won + e.lost = g /\ Cost(e.lots) = k + m /\ e.cash = h /\ (g - k) - h = m
      BY <2>8, <2>10, <2>12
    <3>2. g \in Int /\ h \in Int /\ k \in Int
      BY <2>7, <2>12
    <3> HIDE DEF g, h, k
    <3> QED  BY <2>11, <3>1, <3>2
  <2>14. e.fees - (e.settled + OpenFees(e.lots)) = 0
    <3> DEFINE g == b.fees
               h == b.settled
               k == OpenFees(b.lots)
    <3>1. e.fees = g /\ OpenFees(e.lots) = k + u /\ e.settled = h /\ g - (h + k) = u
      BY <2>8, <2>10, <2>12
    <3>2. g \in Int /\ h \in Int /\ k \in Int
      BY <2>7, <2>12
    <3> HIDE DEF g, h, k
    <3> QED  BY <2>11, <3>1, <3>2
  <2>15. Money(e, 0, 0)
    BY <2>8, <2>9, <2>10, <2>12, <2>13, <2>14 DEF Money, Worth, Charged
  <2>16. Sound(config, v, e, 0, 0)
    BY <2>10, <2>15, SteadySound
  <2> QED  BY <1>3, <2>4, <2>8, <2>10, <2>16 DEF d
<1> QED  BY <1>2, <1>3

Empty(b) == b.lots = << >> /\ b.pending = << >> /\ b.exits = << >>
\* What no fill undoes: locks stay and scans keep their places; an account that
\* is locked for the day outside of a scan is left without lots and orders.
After(b, d) ==
    /\ d.scanning = b.scanning /\ (b.scanning => Len(d.pending) = Len(b.pending))
    /\ Locks(b) => Locks(d)
    /\ d.drawdownLocked = b.drawdownLocked
    /\ b.dayLocked => d.dayLocked
    /\ b.filledLocked => d.filledLocked
    /\ ~b.scanning /\ ~b.dayLocked /\ d.dayLocked => Empty(d)
\* An operation that opens nothing.
Calm(b, d) == After(b, d) /\ (~b.scanning /\ Empty(b) => Empty(d))

LEMMA LiquidatedIsCalm ==
    ASSUME NEW b, b.pending \in Seq(SoundOrder), NEW d, Liquidated(b, d)
    PROVE  Calm(b, d) /\ (~b.scanning => Empty(d))
<1>1. ~b.scanning => Empty(d)
  BY DEF Liquidated, Empty
<1>2. d.scanning = b.scanning /\ d.drawdownLocked = b.drawdownLocked
      /\ d.filledLocked = b.filledLocked /\ d.dayLocked = TRUE /\ d.locked = TRUE
  BY DEF Liquidated
<1>3. b.scanning => Len(d.pending) = Len(b.pending)
  BY FlaggedSound DEF Liquidated
<1> QED  BY <1>1, <1>2, <1>3 DEF Calm, After, Locks

LEMMA AfterCalm ==
    ASSUME NEW b, NEW d, NEW e, After(b, d), Calm(d, e)
    PROVE  After(b, e)
BY DEF After, Calm, Locks

LEMMA CalmCalm ==
    ASSUME NEW b, NEW d, NEW e, Calm(b, d), Calm(d, e)
    PROVE  Calm(b, e)
BY DEF After, Calm, Locks

LEMMA AfterSame ==
    ASSUME NEW b, NEW d, SameLocks(b, d), d.scanning = b.scanning,
           b.scanning => Len(d.pending) = Len(b.pending)
    PROVE  After(b, d)
BY DEF After, SameLocks, Locks

LEMMA SyncIsCalm ==
    ASSUME NEW b, b.pending \in Seq(SoundOrder), NEW d, d = b \/ Liquidated(b, d)
    PROVE  Calm(b, d)
<1>1. CASE d = b
  BY <1>1 DEF Calm, After
<1>2. CASE Liquidated(b, d)
  BY <1>2, LiquidatedIsCalm
<1> QED  BY <1>1, <1>2

-----------------------------------------------------------------------------

LEMMA SetFills ==
    ASSUME NEW b, IsBook(b), NEW x
    PROVE  LET d == [b EXCEPT !.fills = x]
           IN  /\ IsBook(d) /\ d.fills = x
               /\ SameOrders(b, d) /\ SameMoney(b, d) /\ SameLocks(b, d) /\ SameCounts(b, d)
BY DEF IsBook, SameOrders, SameMoney, SameLocks, SameCounts

LEMMA NotedIs ==
    ASSUME NEW c, NEW v, NEW b, Sound(c, v, b, 0, 0), NEW f \in Fill,
           NEW P, P = Held(b.lots), [f EXCEPT !.after = P] \in SoundFill(c, v)
    PROVE  LET d == Noted(b, f)
           IN  /\ Sound(c, v, d, 0, 0) /\ Calm(b, d)
<1> DEFINE g == [f EXCEPT !.after = P]
           fills == Append(b.fills, g)
           d == [b EXCEPT !.fills = fills]
<1>1. Noted(b, f) = d
  <2>1. Position(b) = P
    BY SumsAreTotals
  <2> QED  BY <2>1 DEF Noted
<1>2. IsBook(b) /\ b.fills \in Seq(SoundFill(c, v)) /\ Money(b, 0, 0)
  BY DEF Sound
<1>3. fills \in Seq(SoundFill(c, v))
  <2> HIDE DEF g
  <2>1. g \in SoundFill(c, v)
    BY DEF g
  <2> QED  BY <1>2, <2>1
<1> HIDE DEF fills
<1>4. /\ IsBook(d) /\ d.fills = fills
      /\ SameOrders(b, d) /\ SameMoney(b, d) /\ SameLocks(b, d) /\ SameCounts(b, d)
  BY <1>2, SetFills
<1> HIDE DEF d
<1>5. Money(d, 0, 0)
  BY <1>2, <1>4, MoneySame
<1>6. Sound(c, v, d, 0, 0)
  BY <1>3, <1>4, <1>5 DEF Sound, SameOrders, SameLocks, SameCounts, Counts
<1>7. After(b, d)
  BY <1>4, AfterSame DEF SameOrders
<1>8. Calm(b, d)
  BY <1>4, <1>7 DEF Calm, SameOrders, SameMoney, Empty
<1> QED  BY <1>1, <1>6, <1>8

LEMMA ReducedOrder ==
    ASSUME NEW o \in SoundOrder, NEW q \in Nat, NEW t \in BOOLEAN, ~t => q > 0
    PROVE  [o EXCEPT !.qty = q, !.canceled = t] \in SoundOrder
<1> DEFINE a == [o EXCEPT !.qty = q]
           n == [a EXCEPT !.canceled = t]
<1>1. a \in Order /\ a.market = o.market /\ a.limit = o.limit /\ a.stop = o.stop /\ a.qty = q
  BY DEF SoundOrder, Order
<1> HIDE DEF a
<1>2. n \in Order
  BY <1>1 DEF Order
<1>3. n.market = o.market /\ n.limit = o.limit /\ n.stop = o.stop /\ n.qty = q /\ n.canceled = t
  BY <1>1 DEF Order
<1>4. n = [o EXCEPT !.qty = q, !.canceled = t]
  BY DEF a
<1> HIDE DEF n
<1>5. n \in SoundOrder
  BY <1>2, <1>3 DEF SoundOrder
<1> QED  BY <1>4, <1>5

LEMMA OcaAppliedIs ==
    ASSUME NEW c, NEW v, NEW b, Sound(c, v, b, 0, 0), NEW o \in Order, NEW self
    PROVE  LET d == OcaApplied(b, o, self)
           IN  /\ Sound(c, v, d, 0, 0) /\ Calm(b, d)
               /\ SameMoney(b, d) /\ SameCounts(b, d) /\ SameLocks(b, d)
<1> DEFINE s == b.pending
           sibling(i) == /\ i # self /\ ~b.pending[i].canceled
                         /\ o.group # NoGroup /\ o.oca # "none"
                         /\ b.pending[i].group = o.group /\ b.pending[i].oca = o.oca
           left(i) == IF o.oca = "cancel" THEN b.pending[i].qty
                      ELSE Max2(b.pending[i].qty - o.qty, 0)
           f == [i \in DOMAIN s |->
                   IF sibling(i)
                   THEN [s[i] EXCEPT !.qty = left(i),
                                     !.canceled = o.oca = "cancel" \/ left(i) = 0]
                   ELSE s[i]]
           d == [b EXCEPT !.pending = f]
<1>1. OcaApplied(b, o, self) = d
  BY DEF OcaApplied
<1>2. /\ IsBook(b) /\ Money(b, 0, 0) /\ s \in Seq(SoundOrder)
      /\ DOMAIN s = 1 .. Len(s) /\ Len(s) \in Nat /\ \A i \in 1 .. Len(s) : s[i] \in SoundOrder
  BY DEF Sound
<1>3. ASSUME NEW i \in 1 .. Len(s)  PROVE f[i] \in SoundOrder
  <2> DEFINE p == s[i]
             q == left(i)
             t == o.oca = "cancel" \/ q = 0
             n == [p EXCEPT !.qty = q, !.canceled = t]
  <2>1. f[i] = IF sibling(i) THEN n ELSE p
    BY <1>2
  <2>2. p \in SoundOrder /\ p \in Order
    BY <1>2 DEF SoundOrder
  <2>3. p.qty \in Nat /\ o.qty \in Nat
    BY <2>2, OrderIs
  <2>4. q \in Nat /\ t \in BOOLEAN
    BY <2>3 DEF Max2
  <2>5. sibling(i) /\ ~t => q > 0
    BY <2>4
  <2> HIDE DEF p, q, t, f
  <2>6. sibling(i) => n \in SoundOrder
    BY <2>2, <2>4, <2>5, ReducedOrder
  <2> QED  BY <2>1, <2>2, <2>6
<1>4. f \in Seq(SoundOrder) /\ Len(f) = Len(s)
  <2>1. f = [i \in 1 .. Len(s) |-> f[i]]
    BY <1>2
  <2> HIDE DEF f
  <2> QED  BY <1>2, <1>3, <2>1, MapIsSeq
<1> HIDE DEF f
<1>5. /\ IsBook(d) /\ d.pending = f /\ d.exits = b.exits /\ d.scanning = b.scanning
      /\ SameMoney(b, d) /\ SameLocks(b, d) /\ SameCounts(b, d) /\ SameFills(b, d)
  BY <1>2, SetPending
<1> HIDE DEF d
<1>6. Money(d, 0, 0)
  BY <1>2, <1>5, MoneySame
<1>7. Sound(c, v, d, 0, 0)
  BY <1>4, <1>5, <1>6 DEF Sound, SameLocks, SameCounts, SameFills, Counts
<1>8. After(b, d)
  BY <1>4, <1>5, AfterSame
<1>9. Empty(b) => Empty(d)
  <2>1. s = << >> => f = << >>
    BY <1>4
  <2> QED  BY <1>5, <2>1 DEF Empty, SameMoney
<1> QED  BY <1>1, <1>5, <1>7, <1>8, <1>9 DEF Calm

LEMMA MustSame ==
    ASSUME NEW b, NEW d, SameMoney(b, d), d.dayPeak = b.dayPeak, NEW v
    PROVE  MustLiquidate(d, v) <=> MustLiquidate(b, v)
<1>1. Position(d) = Position(b)
  BY SumsAreTotals DEF SameMoney
<1>2. RiskPrice(d, v) = RiskPrice(b, v)
  BY <1>1 DEF RiskPrice
<1> DEFINE p == RiskPrice(b, v)
<1> HIDE DEF p
<1>3. Equity(d, p) = Equity(b, p)
  BY DEF Equity, Total, SameMoney
<1> QED  BY <1>1, <1>2, <1>3 DEF MustLiquidate, p

LEMMA SetFilled ==
    ASSUME NEW b, IsBook(b), NEW n, NEW t
    PROVE  LET d == [b EXCEPT !.filled = n, !.filledLocked = t]
           IN  /\ IsBook(d) /\ d.filled = n /\ d.filledLocked = t
               /\ d.drawdownLocked = b.drawdownLocked /\ d.dayLocked = b.dayLocked
               /\ d.locked = b.locked /\ d.peak = b.peak /\ d.dayPeak = b.dayPeak
               /\ SameOrders(b, d) /\ SameMoney(b, d) /\ SameFills(b, d)
<1> DEFINE d1 == [b EXCEPT !.filled = n]
           d2 == [d1 EXCEPT !.filledLocked = t]
           Same(d) == /\ d.drawdownLocked = b.drawdownLocked /\ d.dayLocked = b.dayLocked
                      /\ d.locked = b.locked /\ d.peak = b.peak /\ d.dayPeak = b.dayPeak
                      /\ SameOrders(b, d) /\ SameMoney(b, d) /\ SameFills(b, d)
<1>1. IsBook(d1) /\ d1.filled = n /\ Same(d1)
  BY DEF IsBook, SameOrders, SameMoney, SameFills
<1> HIDE DEF d1
<1>2. IsBook(d2) /\ d2.filled = n /\ d2.filledLocked = t /\ Same(d2)
  BY <1>1 DEF IsBook, SameOrders, SameMoney, SameFills
<1>3. d2 = [b EXCEPT !.filled = n, !.filledLocked = t]
  BY DEF d1
<1> HIDE DEF d2
<1> QED  BY <1>2, <1>3

LEMMA SetFilledOnly ==
    ASSUME NEW b, IsBook(b), NEW n
    PROVE  LET d == [b EXCEPT !.filled = n]
           IN  /\ IsBook(d) /\ d.filled = n /\ d.peak = b.peak /\ d.dayPeak = b.dayPeak
               /\ SameOrders(b, d) /\ SameMoney(b, d) /\ SameLocks(b, d) /\ SameFills(b, d)
BY DEF IsBook, SameOrders, SameMoney, SameLocks, SameFills

\* How many orders fill before a limit locks, the limit 0 included.
LEMMA MayFillIs ==
    ASSUME NEW c \in Config
    PROVE  /\ MayFill(c) \in Nat /\ MayFill(c) > 0
           /\ \A n \in Nat : n > 0 => (FilledHit(c, n) <=> c.maxFilled # Unlimited /\ n >= MayFill(c))
           /\ FilledHit(c, 0) \in BOOLEAN
<1>1. c.maxFilled \in Nat \cup {Unlimited}
  BY ConfigIs
<1> QED  BY <1>1 DEF MayFill, FilledHit, Max2, Unlimited

LEMMA CountedIs ==
    ASSUME config \in Config, NEW v, NEW b, Sound(config, v, b, 0, 0),
           config.maxFilled # Unlimited => b.filled < MayFill(config)
    PROVE  LET d == Counted(b)
           IN  /\ Sound(config, v, d, 0, 0) /\ Calm(b, d) /\ SameMoney(b, d) /\ d.dayPeak = b.dayPeak
<1> DEFINE d == Counted(b)
           n == b.filled + 1
<1>1. /\ IsBook(b) /\ Money(b, 0, 0) /\ b.filled \in Nat /\ n \in Nat /\ n > 0 /\ MayFill(config) \in Nat
      /\ Counts(config, b) /\ (FilledHit(config, n) <=> config.maxFilled # Unlimited /\ n >= MayFill(config))
  BY MayFillIs DEF Sound, Counts
<1>2. CASE FilledHit(config, n)
  <2> DEFINE t == TRUE
             e == [b EXCEPT !.filled = n, !.filledLocked = t]
             g == LockSynced(e)
  <2>1. d = g
    BY <1>2 DEF Counted
  <2> HIDE DEF n, t
  <2>2. /\ IsBook(e) /\ e.filled = n /\ e.filledLocked = t
        /\ e.drawdownLocked = b.drawdownLocked /\ e.dayLocked = b.dayLocked
        /\ e.locked = b.locked /\ e.peak = b.peak /\ e.dayPeak = b.dayPeak
        /\ SameOrders(b, e) /\ SameMoney(b, e) /\ SameFills(b, e)
    BY <1>1, SetFilled, Zenon
  <2> HIDE DEF e
  <2>3. /\ IsBook(g) /\ g.locked = (e.drawdownLocked \/ e.dayLocked \/ e.filledLocked)
        /\ g.drawdownLocked = e.drawdownLocked /\ g.dayLocked = e.dayLocked
        /\ g.filledLocked = e.filledLocked
        /\ SameOrders(e, g) /\ SameMoney(e, g) /\ SameCounts(e, g) /\ SameFills(e, g)
    BY <2>2, LockSyncedIs
  <2> HIDE DEF d, g
  <2>4. /\ SameOrders(b, g) /\ SameMoney(b, g) /\ SameFills(b, g)
        /\ g.peak = b.peak /\ g.dayPeak = b.dayPeak /\ g.filled = n
    BY <2>2, <2>3 DEF SameOrders, SameMoney, SameFills, SameCounts
  <2>5. /\ g.drawdownLocked = b.drawdownLocked /\ g.dayLocked = b.dayLocked
        /\ g.filledLocked = TRUE /\ g.locked = TRUE
    BY <2>2, <2>3 DEF t
  <2>6. Money(g, 0, 0)
    BY <1>1, <2>4, MoneySame
  <2>7. config.maxFilled # Unlimited => n <= MayFill(config)
    BY <1>1 DEF n
  <2>8. Counts(config, g)
    BY <1>1, <2>3, <2>4, <2>5, <2>7 DEF Counts, SameOrders
  <2>9. Sound(config, v, g, 0, 0)
    BY <2>3, <2>4, <2>6, <2>8 DEF Sound, SameOrders, SameFills
  <2>10. Calm(b, g)
    BY <2>4, <2>5 DEF Calm, After, Empty, SameOrders, SameMoney, Locks
  <2> QED  BY <2>1, <2>4, <2>9, <2>10 DEF d
<1>3. CASE ~FilledHit(config, n)
  <2> DEFINE g == [b EXCEPT !.filled = n]
  <2>1. d = g
    BY <1>3 DEF Counted
  <2>2. config.maxFilled # Unlimited => n < MayFill(config)
    BY <1>1, <1>3
  <2> HIDE DEF n
  <2>3. /\ IsBook(g) /\ g.filled = n /\ g.peak = b.peak /\ g.dayPeak = b.dayPeak
        /\ SameOrders(b, g) /\ SameMoney(b, g) /\ SameLocks(b, g) /\ SameFills(b, g)
    BY <1>1, SetFilledOnly
  <2> HIDE DEF d, g
  <2>4. Money(g, 0, 0)
    BY <1>1, <2>3, MoneySame
  <2>5. Counts(config, g)
    BY <1>1, <2>2, <2>3 DEF Counts, SameOrders, SameLocks
  <2>6. Sound(config, v, g, 0, 0)
    BY <2>3, <2>4, <2>5 DEF Sound, SameOrders, SameFills
  <2>7. Calm(b, g)
    BY <2>3 DEF Calm, After, Empty, SameOrders, SameMoney, SameLocks, Locks
  <2> QED  BY <2>1, <2>3, <2>6, <2>7 DEF d
<1> QED  BY <1>2, <1>3

-----------------------------------------------------------------------------
(* A fill as a whole.                                                      *)

\* An order is due at a price of the bar.
Due(c, v, o, price) ==
    LET both == o.limit # NoPrice /\ o.stop # NoPrice
    IN  /\ price \in Nat
        /\ both => v.low - c.verify <= price /\ price <= v.high + c.verify
        /\ ~both /\ (o.limit # NoPrice \/ o.stop # NoPrice) => v.low <= price /\ price <= v.high
\* An entry leaves the position P within its cap.
Room(c, o, P) ==
    o.kind = "entry" /\ c.maxSize # Unlimited => o.qty <= c.maxSize - Max2(Sign(o.side) * P, 0)

LEMMA FillSound ==
    ASSUME config \in Config, NEW v \in OkBar, NEW b, Counts(config, b), NEW o \in Order, o.qty > 0,
           NEW price, Due(config, v, o, price), NEW P \in Int, NEW Q \in Int,
           o.kind = "entry" /\ config.maxSize # Unlimited => Size(Q) <= config.maxSize,
           NEW t \in BOOLEAN, t => b.locked
    PROVE  LET f == [kind |-> o.kind, market |-> ~(o.limit # NoPrice \/ o.stop # NoPrice),
                     both |-> o.limit # NoPrice /\ o.stop # NoPrice,
                     qty |-> o.qty, left |-> o.left, price |-> price,
                     before |-> P, after |-> P, locked |-> b.locked, canceled |-> t]
           IN  f \in Fill /\ [f EXCEPT !.after = Q] \in SoundFill(config, v)
<1> DEFINE market == ~(o.limit # NoPrice \/ o.stop # NoPrice)
           both == o.limit # NoPrice /\ o.stop # NoPrice
           lock == b.locked
           kind == o.kind
           qty == o.qty
           left == o.left
           f == [kind |-> kind, market |-> market, both |-> both,
                 qty |-> qty, left |-> left, price |-> price,
                 before |-> P, after |-> P, locked |-> lock, canceled |-> t]
           g == [f EXCEPT !.after = Q]
<1>1. kind \in {"entry", "order"} /\ qty \in Nat \ {0} /\ left \in Nat /\ price \in Nat
  BY OrderIs DEF Due
<1>2. market \in BOOLEAN /\ both \in BOOLEAN /\ lock \in BOOLEAN
  BY DEF Counts
<1>3. /\ ~market /\ ~both => v.low <= price /\ price <= v.high
      /\ both => v.low - config.verify <= price /\ price <= v.high + config.verify
  BY DEF Due
<1> HIDE DEF market, both, lock, kind, qty, left
<1>4. f \in Fill
  BY <1>1, <1>2 DEF Fill
<1>5. g = [kind |-> kind, market |-> market, both |-> both,
           qty |-> qty, left |-> left, price |-> price,
           before |-> P, after |-> Q, locked |-> lock, canceled |-> t]
  OBVIOUS
<1> HIDE DEF g
<1>6. g \in Fill
  BY <1>1, <1>2, <1>5 DEF Fill
<1>7. g \in SoundFill(config, v)
  <2>1. t => lock
    BY DEF lock
  <2>2. kind = "entry" /\ config.maxSize # Unlimited => Size(Q) <= config.maxSize
    BY DEF kind
  <2> QED  BY <1>3, <1>5, <1>6, <2>1, <2>2 DEF SoundFill
<1> QED  BY <1>4, <1>7 DEF g, market, both, lock, kind, qty, left

LEMMA SettledIs ==
    ASSUME config \in Config, NEW v \in OkBar, NEW b, Sound(config, v, b, 0, 0), ~MustLiquidate(b, v),
           config.maxFilled # Unlimited => b.filled < MayFill(config), NEW o \in Order, NEW self
    PROVE  LET d == Settled(b, o, self)
           IN  Sound(config, v, d, 0, 0) /\ ~MustLiquidate(d, v) /\ Calm(b, d)
<1> DEFINE a == IF o.kind = "order" /\ ~o.late THEN b ELSE OcaApplied(b, o, self)
           d == Counted(a)
<1>1. Settled(b, o, self) = d
  BY DEF Settled
<1>2. Sound(config, v, a, 0, 0) /\ Calm(b, a) /\ SameMoney(b, a) /\ SameCounts(b, a)
  <2>1. CASE o.kind = "order" /\ ~o.late
    BY <2>1 DEF Calm, After, SameMoney, SameCounts
  <2>2. CASE ~(o.kind = "order" /\ ~o.late)
    <3>1. a = OcaApplied(b, o, self)
      BY <2>2
    <3> HIDE DEF a
    <3> QED  BY <3>1, OcaAppliedIs
  <2> QED  BY <2>1, <2>2
<1> HIDE DEF a
<1>3. config.maxFilled # Unlimited => a.filled < MayFill(config)
  BY <1>2 DEF SameCounts
<1>4. Sound(config, v, d, 0, 0) /\ Calm(a, d) /\ SameMoney(a, d) /\ d.dayPeak = a.dayPeak
  BY <1>2, <1>3, CountedIs
<1> HIDE DEF d
<1>5. SameMoney(b, d) /\ d.dayPeak = b.dayPeak
  BY <1>2, <1>4 DEF SameMoney, SameCounts
<1>6. ~MustLiquidate(d, v)
  BY <1>5, MustSame
<1>7. Calm(b, d)
  BY <1>2, <1>4, CalmCalm
<1> QED  BY <1>1, <1>4, <1>6, <1>7

LEMMA ExecutedIs ==
    ASSUME config \in Config, NEW v \in OkBar, NEW b, Sound(config, v, b, 0, 0),
           config.maxFilled # Unlimited => b.filled < MayFill(config),
           NEW o \in Order, o.qty > 0, NEW price, Due(config, v, o, price),
           Room(config, o, Held(b.lots)),
           NEW self \in 0 .. Len(b.pending), self # 0 /\ b.pending[self].canceled => b.locked
    PROVE  LET d == Executed(b, o, v, price, self)
           IN  Sound(config, v, d, 0, 0) /\ ~MustLiquidate(d, v) /\ After(b, d)
<1> DEFINE P == Position(b)
           n == Contracts(o, P)
           p == Slipped(config, price, o.side)
           t == self # 0 /\ b.pending[self].canceled
           fill == [kind |-> o.kind, market |-> ~(o.limit # NoPrice \/ o.stop # NoPrice),
                    both |-> o.limit # NoPrice /\ o.stop # NoPrice,
                    qty |-> o.qty, left |-> o.left, price |-> price,
                    before |-> P, after |-> P, locked |-> b.locked, canceled |-> t]
           next == PositionAfter(o.kind, o.side, o.qty, P)
           b1 == Paid(b, o, n, p)
           b2 == Covered(b1, n, v, p)
           b3 == Opened(b2, o, n, next, p)
           b4 == Noted(b3, fill)
           b5 == Sync(b4, v)
           d == Settled(b5, o, self)
           sg == Sign(o.side)
<1>1. Executed(b, o, v, price, self) = d
  BY DEF Executed
<1>2. P = Held(b.lots)
  BY SumsAreTotals
<1>3. /\ b.lots \in Seq(Lot) /\ Sided(b.lots) /\ b.pending \in Seq(SoundOrder) /\ Counts(config, b)
      /\ b.filled \in Nat
  BY DEF Sound, Money, Counts
<1>4. P \in Int /\ (P > 0 => OfSide(b.lots, "long")) /\ (P < 0 => OfSide(b.lots, "short"))
      /\ (P = 0 => b.lots = << >>)
  BY <1>2, <1>3, SidedIs
<1>5. t \in BOOLEAN
  <2>1. self # 0 => b.pending[self] \in SoundOrder
    BY <1>3
  <2>2. self # 0 => b.pending[self].canceled \in BOOLEAN
    BY <2>1, OrderIs DEF SoundOrder
  <2> QED  BY <2>2
<1>6. /\ o.side \in Side /\ sg \in {1, -1} /\ sg \in Int /\ o.kind \in {"entry", "order"} /\ o.qty \in Nat
      /\ (sg = 1 => o.side = "long") /\ (sg = -1 => o.side = "short")
  BY OrderIs, SideSign DEF Sign, Side
<1>7. price \in Nat /\ price \in Int
  BY DEF Due
<1>8. p \in Int
  BY <1>6, <1>7, SlippedIs
<1> HIDE DEF P
<1>9. /\ Deal(n, sg, P) /\ next \in Int /\ next = P + sg * n.traded
      /\ n.opened > 0 => sg * next > 0
      /\ o.kind = "entry" => n.opened = o.qty
  BY <1>4, ContractsAre
<1> HIDE DEF n, next, p
<1>10. /\ n.traded \in Nat \ {0} /\ n.closed \in Nat /\ n.opened \in Nat /\ n.traded = n.closed + n.opened
       /\ n.closed # 0 => sg * P < 0 /\ n.closed <= Size(P)
       /\ n.opened > 0 => \/ n.closed = 0 /\ sg * P >= 0
                          \/ n.closed # 0 /\ n.closed = Size(P)
  BY <1>9 DEF Deal
<1>11. /\ Sound(config, v, b1, (sg * n.traded) * p, config.rate * n.traded)
       /\ Steady(b, b1) /\ b1.lots = b.lots
  BY <1>8, <1>10, PaidIs
<1> HIDE DEF b1, sg
<1>12. /\ Sound(config, v, b2, (sg * n.opened) * p, config.rate * n.opened)
       /\ n.opened > 0 => b2.lots = IF n.closed = 0 THEN b1.lots ELSE << >>
       /\ Steady(b1, b2) \/ (n.opened = 0 /\ Liquidated(b1, b2))
  <2>1. Deal(n, sg, Held(b1.lots))
    BY <1>2, <1>9, <1>11
  <2> QED  BY <1>6, <1>8, <1>11, <2>1, CoveredIs
<1> HIDE DEF b2
<1>13. n.opened > 0 => sg * next > 0 /\ OfSide(b2.lots, o.side)
  <2>1. ASSUME n.opened > 0, n.closed = 0  PROVE OfSide(b2.lots, o.side)
    <3>1. b2.lots = b.lots /\ sg * P >= 0
      BY <1>10, <1>11, <1>12, <2>1
    <3>2. OfSide(<< >>, o.side)
      BY DEF OfSide
    <3> QED  BY <1>4, <1>6, <3>1, <3>2
  <2>2. ASSUME n.opened > 0, n.closed # 0  PROVE OfSide(b2.lots, o.side)
    BY <1>12, <2>2 DEF OfSide
  <2> QED  BY <1>9, <2>1, <2>2
<1>14. /\ Sound(config, v, b3, 0, 0) /\ Steady(b2, b3)
       /\ n.opened = 0 => b3 = b2
       /\ n.opened > 0 => Held(b3.lots) = Held(b2.lots) + sg * n.opened
  <2>1. Sign(o.side) = sg
    BY DEF sg
  <2> DEFINE w == (Sign(o.side) * n.opened) * p
             u == config.rate * n.opened
  <2>2. /\ n.traded \in Nat \ {0} /\ n.closed \in Nat /\ n.opened \in Nat
        /\ n.traded = n.closed + n.opened /\ next \in Int /\ p \in Int
        /\ n.opened > 0 => Sign(o.side) * next > 0 /\ OfSide(b2.lots, o.side)
        /\ Sound(config, v, b2, w, u)
        /\ w = (Sign(o.side) * n.opened) * p /\ u = config.rate * n.opened
    BY <1>8, <1>9, <1>10, <1>12, <1>13, <2>1
  <2>3. config \in Config /\ o \in Order
    OBVIOUS
  <2> HIDE DEF w, u
  <2>4. LET x == Opened(b2, o, n, next, p)
        IN  /\ Sound(config, v, x, 0, 0) /\ Steady(b2, x)
            /\ n.opened = 0 => x = b2
            /\ n.opened > 0 => Held(x.lots) = Held(b2.lots) + Sign(o.side) * n.opened
    BY ONLY <2>2, <2>3, OpenedIs
  <2> QED  BY <2>1, <2>4
<1> HIDE DEF b3
<1>15. After(b, b3) /\ SameCounts(b, b3)
  <2>1. CASE Steady(b1, b2)
    <3>1. Steady(b, b3)
      BY <1>11, <1>14, <2>1 DEF Steady, SameOrders, SameLocks, SameCounts, SameFills
    <3> QED  BY <3>1, AfterSame DEF Steady, SameOrders
  <2>2. CASE n.opened = 0 /\ Liquidated(b1, b2)
    <3>1. Liquidated(b, b3)
      BY <1>11, <1>14, <2>2, LiquidatedSince
    <3> QED  BY <1>3, <3>1, LiquidatedIsCalm DEF Calm, Liquidated
  <2> QED  BY <1>12, <2>1, <2>2
<1> DEFINE Q == Held(b3.lots)
<1>16. Q \in Int
  BY <1>14, LotSums DEF Sound, Money
<1>17. o.kind = "entry" /\ config.maxSize # Unlimited => Size(Q) <= config.maxSize
  <2> SUFFICES ASSUME o.kind = "entry", config.maxSize # Unlimited  PROVE Size(Q) <= config.maxSize
    OBVIOUS
  <2>1. o.qty <= config.maxSize - Max2(sg * P, 0) /\ config.maxSize \in Nat
    BY <1>2, ConfigIs DEF Room, sg
  <2>2. n.opened = o.qty /\ n.opened > 0
    BY <1>6, <1>9
  <2>3. CASE n.closed = 0
    <3>1. Q = P + sg * o.qty /\ sg * P >= 0
      BY <1>2, <1>10, <1>11, <1>12, <1>14, <2>2, <2>3
    <3> HIDE DEF Q
    <3>2. CASE sg = 1
      BY <1>4, <1>6, <2>1, <3>1, <3>2 DEF Size, Max2
    <3>3. CASE sg = -1
      BY <1>4, <1>6, <2>1, <3>1, <3>3 DEF Size, Max2
    <3> QED  BY <1>6, <3>2, <3>3
  <2>4. CASE n.closed # 0
    <3>1. Q = sg * o.qty /\ sg * P \in Int
      <4>1. b2.lots = << >> /\ Held(<< >>) = 0
        BY <1>12, <2>2, <2>4, NoLots
      <4> QED  BY <1>4, <1>6, <1>14, <2>2, <4>1
    <3> HIDE DEF Q
    <3>2. CASE sg = 1
      BY <1>4, <1>6, <2>1, <3>1, <3>2 DEF Size, Max2
    <3>3. CASE sg = -1
      BY <1>4, <1>6, <2>1, <3>1, <3>3 DEF Size, Max2
    <3> QED  BY <1>6, <3>2, <3>3
  <2> QED  BY <2>3, <2>4
<1> HIDE DEF Q, t
<1>18. fill \in Fill /\ [fill EXCEPT !.after = Q] \in SoundFill(config, v)
  <2>1. t => b.locked
    BY DEF t
  <2> QED  BY <1>3, <1>4, <1>5, <1>16, <1>17, <2>1, FillSound
<1> HIDE DEF fill
<1>19. Sound(config, v, b4, 0, 0) /\ Calm(b3, b4)
  <2>1. Q = Held(b3.lots)
    BY DEF Q
  <2> QED  BY <1>14, <1>18, <2>1, NotedIs
<1>20. b4.filled = b.filled
  <2>1. b4.filled = b3.filled
    <3> DEFINE fills == Append(b3.fills, [fill EXCEPT !.after = Position(b3)])
               e == [b3 EXCEPT !.fills = fills]
    <3>1. b4 = e
      BY DEF Noted
    <3> HIDE DEF fills
    <3>2. SameCounts(b3, e)
      BY <1>14, SetFills DEF Sound
    <3> QED  BY <3>1, <3>2 DEF SameCounts
  <2> QED  BY <1>15, <2>1 DEF SameCounts
<1> HIDE DEF b4
<1>21. /\ Sound(config, v, b5, 0, 0) /\ ~MustLiquidate(b5, v)
       /\ b5 = b4 \/ (MustLiquidate(b4, v) /\ Liquidated(b4, b5))
  BY <1>19, SyncSound
<1> HIDE DEF b5
<1>22. Calm(b4, b5) /\ b5.filled = b4.filled
  <2>1. b4.pending \in Seq(SoundOrder)
    BY <1>19 DEF Sound
  <2> QED  BY <1>21, <2>1, SyncIsCalm DEF Liquidated, SameCounts
<1>23. config.maxFilled # Unlimited => b5.filled < MayFill(config)
  BY <1>20, <1>22
<1>24. Sound(config, v, d, 0, 0) /\ ~MustLiquidate(d, v) /\ Calm(b5, d)
  BY <1>21, <1>23, SettledIs
<1> HIDE DEF d
<1>25. After(b, d)
  BY <1>15, <1>19, <1>22, <1>24, CalmCalm, AfterCalm
<1> QED  BY <1>1, <1>24, <1>25

-----------------------------------------------------------------------------
(* Triggers.                                                               *)

LEMMA TriggerIs ==
    ASSUME NEW c \in Config, NEW v \in OkBar, NEW o \in SoundOrder
    PROVE  LET r == Trigger(c, o, v)
           IN  /\ r.armed \in BOOLEAN
               /\ r.price # NoPrice => Due(c, v, o, r.price)
<1>1. /\ o \in Order /\ o.price \in Nat /\ o.side \in Side /\ Price(o.limit) /\ Price(o.stop)
      /\ o.market => o.limit = NoPrice /\ o.stop = NoPrice
  BY OrderIs DEF SoundOrder, Price
<1> QED  BY <1>1, TriggerPrice DEF Due

LEMMA DueWithin ==
    ASSUME NEW c \in Config, NEW v \in OkBar, NEW w \in OkBar, v.low <= w.low, w.high <= v.high,
           NEW o, NEW price, Due(c, w, o, price)
    PROVE  Due(c, v, o, price)
<1>1. /\ v.high \in Nat /\ v.low \in Nat /\ w.high \in Nat /\ w.low \in Nat /\ c.verify \in Nat
      /\ price \in Nat
  BY BarIs, ConfigIs DEF Due
<1> QED  BY <1>1 DEF Due

LEMMA AfterScan ==
    ASSUME NEW b, NEW d, NEW e, After(b, d), After(d, e), b.scanning
    PROVE  After(b, e)
BY DEF After, Locks

LEMMA SizedOrder ==
    ASSUME NEW o \in SoundOrder, NEW left \in Nat, NEW q \in Nat, q > 0
    PROVE  LET n == [o EXCEPT !.left = left, !.qty = q]
           IN  /\ n \in SoundOrder /\ n.qty = q /\ n.kind = o.kind /\ n.side = o.side
               /\ n.limit = o.limit /\ n.stop = o.stop /\ n.canceled = o.canceled
<1> DEFINE a == [o EXCEPT !.left = left]
           n == [a EXCEPT !.qty = q]
           Same(x) == /\ x.kind = o.kind /\ x.side = o.side /\ x.market = o.market
                      /\ x.limit = o.limit /\ x.stop = o.stop /\ x.canceled = o.canceled
<1>1. a \in Order /\ Same(a)
  BY DEF SoundOrder, Order
<1> HIDE DEF a
<1>2. n \in Order /\ n.qty = q /\ Same(n)
  BY <1>1 DEF Order
<1>3. n = [o EXCEPT !.left = left, !.qty = q]
  BY DEF a
<1> HIDE DEF n
<1>4. n \in SoundOrder
  BY <1>2 DEF SoundOrder
<1> QED  BY <1>2, <1>3, <1>4

LEMMA ArmedOrder ==
    ASSUME NEW o \in SoundOrder, NEW t \in BOOLEAN
    PROVE  LET n == [o EXCEPT !.armed = t]
           IN  /\ n \in SoundOrder /\ n.qty = o.qty /\ n.kind = o.kind /\ n.side = o.side
               /\ n.limit = o.limit /\ n.stop = o.stop /\ n.canceled = o.canceled
<1> DEFINE n == [o EXCEPT !.armed = t]
<1>1. /\ n \in Order /\ n.qty = o.qty /\ n.kind = o.kind /\ n.side = o.side /\ n.market = o.market
      /\ n.limit = o.limit /\ n.stop = o.stop /\ n.canceled = o.canceled
  BY DEF SoundOrder, Order
<1> HIDE DEF n
<1>2. n \in SoundOrder
  BY <1>1 DEF SoundOrder
<1> QED  BY <1>1, <1>2 DEF n

LEMMA UnlockedHasRoom ==
    ASSUME NEW c, NEW v, NEW b, Sound(c, v, b, 0, 0), c \in Config, Locks(b), ~b.locked
    PROVE  c.maxFilled # Unlimited => b.filled < MayFill(c)
<1>1. ~b.filledLocked
  BY DEF Sound, Counts, Locks
<1>2. b.filled \in Nat /\ MayFill(c) \in Nat
  BY MayFillIs DEF Sound, Counts
<1> QED  BY <1>1, <1>2 DEF Sound, Counts

LEMMA TriggeredIs ==
    ASSUME config \in Config, NEW v \in OkBar, NEW b, Sound(config, v, b, 0, 0), ~MustLiquidate(b, v),
           config.maxFilled # Unlimited => b.filled < MayFill(config),
           NEW o \in SoundOrder, ~o.canceled, NEW price, Due(config, v, o, price),
           NEW self \in 0 .. Len(b.pending), self # 0 /\ b.pending[self].canceled => b.locked
    PROVE  LET r == Triggered(b, o, v, price, self)
           IN  /\ Sound(config, v, r.book, 0, 0) /\ ~MustLiquidate(r.book, v) /\ After(b, r.book)
               /\ ~r.done => r.book = b /\ r.order \in SoundOrder /\ r.order.qty > 0
<1> DEFINE r == Triggered(b, o, v, price, self)
           P == Position(b)
           q == IF o.kind = "entry" THEN Capped(config, o.side, P, o.want) ELSE o.qty
           left == o.qty
           sized == [o EXCEPT !.left = left, !.qty = q]
           next == PositionAfter(o.kind, o.side, q, P)
           refused == o.kind = "entry" /\ (DirectionRefused(config, o.side) \/ q = 0)
           allowed == MarginAllows(b, v, next, Slipped(config, price, o.side))
           full == Filled(b, sized, v, price, self)
<1>1. /\ o \in Order /\ o.qty \in Nat /\ o.qty > 0 /\ o.want \in Nat /\ o.side \in Side
  BY OrderIs DEF SoundOrder
<1>2. P = Held(b.lots) /\ P \in Int
  BY SumsAreTotals, LotSums DEF Sound, Money
<1>3. r = IF refused THEN Outcome(TRUE, b, o)
          ELSE IF ~allowed THEN Outcome(FALSE, b, sized)
          ELSE Outcome(TRUE, full, sized)
  BY DEF Triggered
<1> HIDE DEF P
<1>4. /\ q \in Nat
      /\ o.kind = "entry" /\ config.maxSize # Unlimited /\ q # 0
           => q <= config.maxSize - Max2(Sign(o.side) * P, 0)
  BY <1>1, <1>2, CappedIs
<1>5. ~refused => q > 0
  BY <1>1, <1>4
<1> HIDE DEF q, r, allowed, left, full
<1>6. After(b, b)
  BY DEF After
<1>7. CASE refused
  <2>1. r = Outcome(TRUE, b, o)
    BY <1>3, <1>7
  <2>2. r.done = TRUE /\ r.book = b
    BY <2>1 DEF Outcome
  <2> QED  BY <1>6, <2>2 DEF r
<1>8. CASE ~refused
  <2> HIDE DEF refused
  <2>1. /\ sized \in SoundOrder /\ sized.qty = q /\ sized.kind = o.kind /\ sized.side = o.side
        /\ sized.limit = o.limit /\ sized.stop = o.stop /\ sized.canceled = o.canceled
    <3>1. left \in Nat /\ q > 0
      BY <1>1, <1>5, <1>8 DEF left
    <3> QED  BY <1>4, <3>1, SizedOrder
  <2> HIDE DEF sized
  <2>2. CASE ~allowed
    <3>1. r = Outcome(FALSE, b, sized)
      BY <1>3, <1>8, <2>2
    <3>2. r.done = FALSE /\ r.book = b /\ r.order = sized
      BY <3>1 DEF Outcome
    <3> QED  BY <1>5, <1>6, <1>8, <2>1, <3>2 DEF r
  <2>3. CASE allowed
    <3>1. r = Outcome(TRUE, full, sized)
      BY <1>3, <1>8, <2>3
    <3>2. r.done = TRUE /\ r.book = full
      BY <3>1 DEF Outcome
    <3>3. full = Executed(b, sized, v, price, self)
      BY DEF full, Filled, Sync
    <3>4. sized \in Order /\ sized.qty > 0
      BY <1>5, <1>8, <2>1 DEF SoundOrder
    <3>5. Due(config, v, sized, price)
      BY <2>1 DEF Due
    <3>6. Room(config, sized, Held(b.lots))
      BY <1>2, <1>4, <1>5, <1>8, <2>1 DEF Room
    <3>7. Sound(config, v, full, 0, 0) /\ ~MustLiquidate(full, v) /\ After(b, full)
      BY <3>3, <3>4, <3>5, <3>6, ExecutedIs
    <3> QED  BY <3>2, <3>7 DEF r
  <2> QED  BY <2>2, <2>3
<1> QED  BY <1>7, <1>8

LEMMA TryFillIs ==
    ASSUME config \in Config, NEW v \in OkBar, NEW w \in OkBar, v.low <= w.low, w.high <= v.high,
           NEW b, Sound(config, v, b, 0, 0), Locks(b),
           NEW o \in SoundOrder, NEW self \in 0 .. Len(b.pending),
           self # 0 => b.scanning /\ o = b.pending[self],
           b.scanning \/ ~MustLiquidate(b, v)
    PROVE  LET r == TryFill(b, o, v, w, self)
           IN  /\ Sound(config, v, r.book, 0, 0) /\ After(b, r.book)
               /\ ~r.done => r.order \in SoundOrder /\ r.order.qty > 0
               /\ ~MustLiquidate(b, v) => ~MustLiquidate(r.book, v) /\ (~r.done => r.book = b)
               /\ b.locked => r.book = b
<1> DEFINE r == TryFill(b, o, v, w, self)
           trigger == Trigger(config, o, w)
           t == o.armed \/ trigger.armed
           armed == [o EXCEPT !.armed = t]
           d == Sync(b, v)
           rest == Triggered(d, armed, v, trigger.price, self)
<1>1. r = IF o.canceled THEN Outcome(TRUE, b, o)
          ELSE IF b.locked THEN Outcome(FALSE, b, o)
          ELSE IF trigger.price = NoPrice THEN Outcome(FALSE, b, armed)
          ELSE rest
  BY DEF TryFill
<1>2. /\ trigger.armed \in BOOLEAN
      /\ trigger.price # NoPrice => Due(config, w, o, trigger.price)
  BY TriggerIs
<1>3. o.armed \in BOOLEAN /\ (~o.canceled => o.qty > 0)
  BY OrderIs DEF SoundOrder
<1>4. t \in BOOLEAN
  BY <1>2, <1>3
<1> HIDE DEF t, trigger
<1>5. /\ armed \in SoundOrder /\ armed.qty = o.qty /\ armed.kind = o.kind /\ armed.side = o.side
      /\ armed.limit = o.limit /\ armed.stop = o.stop /\ armed.canceled = o.canceled
  BY <1>4, ArmedOrder
<1> HIDE DEF armed, r, rest
<1>6. After(b, b)
  BY DEF After
<1>7. CASE o.canceled
  <2>1. r.done = TRUE /\ r.book = b
    BY <1>1, <1>7 DEF Outcome
  <2> QED  BY <1>6, <2>1 DEF r
<1>8. CASE ~o.canceled /\ b.locked
  <2>1. r.done = FALSE /\ r.book = b /\ r.order = o
    BY <1>1, <1>8 DEF Outcome
  <2> QED  BY <1>3, <1>6, <1>8, <2>1 DEF r
<1>9. CASE ~o.canceled /\ ~b.locked /\ trigger.price = NoPrice
  <2>1. r.done = FALSE /\ r.book = b /\ r.order = armed
    BY <1>1, <1>9 DEF Outcome
  <2> QED  BY <1>3, <1>5, <1>6, <1>9, <2>1 DEF r
<1>10. CASE ~o.canceled /\ ~b.locked /\ trigger.price # NoPrice
  <2>1. r = rest
    BY <1>1, <1>10
  <2>2. config.maxFilled # Unlimited => b.filled < MayFill(config)
    BY <1>10, UnlockedHasRoom
  <2>3. /\ Sound(config, v, d, 0, 0) /\ ~MustLiquidate(d, v)
        /\ d = b \/ (MustLiquidate(b, v) /\ Liquidated(b, d))
    BY SyncSound
  <2> HIDE DEF d
  <2>4. b.pending \in Seq(SoundOrder) /\ d.pending \in Seq(SoundOrder)
    BY <2>3 DEF Sound
  <2>5. Calm(b, d)
    BY <2>3, <2>4, SyncIsCalm
  <2>6. config.maxFilled # Unlimited => d.filled < MayFill(config)
    BY <2>2, <2>3 DEF Liquidated, SameCounts
  <2>7. self \in 0 .. Len(d.pending)
    BY <2>4, <2>5 DEF Calm, After
  <2>8. self # 0 /\ d.pending[self].canceled => d.locked
    <3>1. CASE d = b
      BY <1>10, <3>1
    <3>2. CASE Liquidated(b, d)
      BY <3>2 DEF Liquidated
    <3> QED  BY <2>3, <3>1, <3>2
  <2>9. Due(config, v, armed, trigger.price)
    <3>1. Due(config, w, armed, trigger.price)
      BY <1>2, <1>5, <1>10 DEF Due
    <3> QED  BY <3>1, DueWithin
  <2> DEFINE price == trigger.price
  <2> HIDE DEF price
  <2>10. LET s == Triggered(d, armed, v, price, self)
         IN  /\ Sound(config, v, s.book, 0, 0) /\ ~MustLiquidate(s.book, v) /\ After(d, s.book)
             /\ ~s.done => s.book = d /\ s.order \in SoundOrder /\ s.order.qty > 0
    <3>1. Due(config, v, armed, price) /\ ~armed.canceled
      BY <1>5, <1>10, <2>9 DEF price
    <3> QED  BY <1>5, <2>3, <2>6, <2>7, <2>8, <3>1, TriggeredIs
  <2>11. /\ Sound(config, v, r.book, 0, 0) /\ ~MustLiquidate(r.book, v) /\ After(d, r.book)
         /\ ~r.done => r.book = d /\ r.order \in SoundOrder /\ r.order.qty > 0
    BY <2>1, <2>10 DEF rest, price
  <2>12. After(b, r.book)
    <3>1. CASE b.scanning
      BY <2>5, <2>11, <3>1, AfterScan DEF Calm
    <3>2. CASE ~MustLiquidate(b, v)
      BY <2>3, <2>11, <3>2
    <3> QED  BY <3>1, <3>2
  <2> QED  BY <1>10, <2>3, <2>11, <2>12 DEF r
<1> QED  BY <1>7, <1>8, <1>9, <1>10

-----------------------------------------------------------------------------
(* The scan of the pending orders.                                         *)

\* A locked account trades nothing but to close.
Frozen(b, d) == b.locked => d.locked /\ SameMoney(b, d)

LEMMA FrozenSince ==
    ASSUME NEW b, NEW d, NEW e, Frozen(b, d), Frozen(d, e)
    PROVE  Frozen(b, e)
BY DEF Frozen, SameMoney

LEMMA NotedOrder ==
    ASSUME NEW b, IsBook(b), b.pending \in Seq(SoundOrder), NEW i \in 1 .. Len(b.pending),
           NEW o \in SoundOrder, o.qty > 0
    PROVE  LET d == [b EXCEPT !.pending[i].armed = o.armed, !.pending[i].qty = o.qty]
           IN  /\ IsBook(d) /\ d.pending \in Seq(SoundOrder) /\ Len(d.pending) = Len(b.pending)
               /\ d.exits = b.exits /\ d.scanning = b.scanning
               /\ SameMoney(b, d) /\ SameLocks(b, d) /\ SameCounts(b, d) /\ SameFills(b, d)
<1> DEFINE s == b.pending
           armed == o.armed
           qty == o.qty
           m == [s[i] EXCEPT !.armed = armed]
           n == [m EXCEPT !.qty = qty]
           t == [s EXCEPT ![i] = n]
           d == [b EXCEPT !.pending = t]
           e == [b EXCEPT !.pending[i].armed = armed, !.pending[i].qty = qty]
<1>1. s[i] \in SoundOrder /\ armed \in BOOLEAN /\ qty \in Nat /\ qty > 0
  BY OrderIs DEF SoundOrder
<1>2. n \in SoundOrder
  <2> HIDE DEF s, armed, qty
  <2>1. m \in SoundOrder
    BY <1>1, ArmedOrder
  <2> HIDE DEF m
  <2>2. n \in Order
    BY <1>1, <2>1 DEF SoundOrder, Order
  <2>3. n.qty = qty /\ n.market = m.market /\ n.limit = m.limit /\ n.stop = m.stop
    BY <2>1 DEF SoundOrder, Order
  <2> HIDE DEF n
  <2> QED  BY <1>1, <2>1, <2>2, <2>3 DEF SoundOrder
<1>3. t \in Seq(SoundOrder) /\ Len(t) = Len(s)
  <2> HIDE DEF n, s
  <2>1. s \in Seq(SoundOrder) /\ i \in 1 .. Len(s)
    BY DEF s
  <2> QED  BY <1>2, <2>1
<1>4. e = d
  <2> DEFINE t1 == [s EXCEPT ![i] = m]
             d1 == [b EXCEPT !.pending = t1]
             d2 == [d1 EXCEPT !.pending[i].qty = qty]
  <2>1. e = d2
    OBVIOUS
  <2>2. d1.pending = t1
    BY DEF IsBook
  <2>3. d2 = [d1 EXCEPT !.pending = [t1 EXCEPT ![i] = [t1[i] EXCEPT !.qty = qty]]]
    BY <2>2
  <2>4. i \in DOMAIN s
    OBVIOUS
  <2>5. t1[i] = m
    BY <2>4
  <2>6. [t1 EXCEPT ![i] = n] = t
    BY <2>4
  <2>7. d2 = [d1 EXCEPT !.pending = t]
    BY <2>3, <2>5, <2>6
  <2>8. [d1 EXCEPT !.pending = t] = d
    <3> HIDE DEF t, t1
    <3> QED  OBVIOUS
  <2> QED  BY <2>1, <2>7, <2>8
<1> HIDE DEF t
<1>5. /\ IsBook(d) /\ d.pending = t /\ d.exits = b.exits /\ d.scanning = b.scanning
      /\ SameMoney(b, d) /\ SameLocks(b, d) /\ SameCounts(b, d) /\ SameFills(b, d)
  BY SetPending
<1> HIDE DEF d
<1>6. /\ IsBook(e) /\ e.pending \in Seq(SoundOrder) /\ Len(e.pending) = Len(s)
      /\ e.exits = b.exits /\ e.scanning = b.scanning
      /\ SameMoney(b, e) /\ SameLocks(b, e) /\ SameCounts(b, e) /\ SameFills(b, e)
  <2> HIDE DEF e
  <2> QED  BY <1>3, <1>4, <1>5
<1> QED  BY <1>6

LEMMA TryIs ==
    ASSUME config \in Config, NEW v \in OkBar, NEW w \in OkBar, v.low <= w.low, w.high <= v.high,
           NEW scan, scan = [book |-> scan.book, kept |-> scan.kept],
           Sound(config, v, scan.book, 0, 0), Locks(scan.book), scan.book.scanning,
           NEW N, N = Len(scan.book.pending), scan.kept \in Seq(1 .. N), NEW i \in 1 .. N, NEW due
    PROVE  LET r == Try(scan, i, due, v, w)
           IN  /\ r = [book |-> r.book, kept |-> r.kept]
               /\ Sound(config, v, r.book, 0, 0) /\ After(scan.book, r.book)
               /\ Frozen(scan.book, r.book) /\ r.kept \in Seq(1 .. N)
<1> DEFINE b == scan.book
           kept == scan.kept
           o == b.pending[i]
           t == TryFill(b, o, v, w, i)
           r == Try(scan, i, due, v, w)
           longer == Append(kept, i)
<1>1. longer \in Seq(1 .. N)
  OBVIOUS
<1>2. b.pending \in Seq(SoundOrder) /\ Len(b.pending) \in Nat /\ o \in SoundOrder
  BY DEF Sound
<1>3. After(b, b) /\ Frozen(b, b)
  BY DEF After, Frozen, SameMoney
<1> HIDE DEF longer
<1>4. CASE i \notin due
  <2>1. r = [scan EXCEPT !.kept = longer]
    BY <1>4 DEF Try, longer
  <2>2. r = [book |-> b, kept |-> longer]
    BY <2>1
  <2> HIDE DEF r
  <2> QED  BY <1>1, <1>3, <2>2 DEF r
<1>5. CASE i \in due
  <2>1. r = Tried(scan, i, t)
    BY <1>5 DEF Try
  <2> HIDE DEF r
  <2>2. /\ Sound(config, v, t.book, 0, 0) /\ After(b, t.book)
        /\ ~t.done => t.order \in SoundOrder /\ t.order.qty > 0
        /\ b.locked => t.book = b
    <3>1. i \in 0 .. Len(b.pending) /\ i # 0
      BY <1>2
    <3> HIDE DEF o, b, t
    <3>2. LET u == TryFill(b, o, v, w, i)
          IN  /\ Sound(config, v, u.book, 0, 0) /\ After(b, u.book)
              /\ ~u.done => u.order \in SoundOrder /\ u.order.qty > 0
              /\ ~MustLiquidate(b, v) => ~MustLiquidate(u.book, v) /\ (~u.done => u.book = b)
              /\ b.locked => u.book = b
      BY <1>2, <3>1, TryFillIs DEF o, b
    <3> QED  BY <3>2 DEF t
  <2> HIDE DEF t
  <2> DEFINE e == t.book
             x == t.order
  <2>3. Frozen(b, e)
    BY <2>2 DEF Frozen, SameMoney
  <2>4. CASE t.done
    <3>1. r = [scan EXCEPT !.book = e]
      BY <2>1, <2>4 DEF Tried
    <3> HIDE DEF e
    <3>2. r = [book |-> e, kept |-> kept]
      BY <3>1
    <3> QED  BY <2>2, <2>3, <3>2 DEF r, e
  <2>5. CASE ~t.done
    <3> DEFINE d == [e EXCEPT !.pending[i].armed = x.armed, !.pending[i].qty = x.qty]
    <3>1. r = [book |-> d, kept |-> longer]
      BY <2>1, <2>5 DEF Tried, longer
    <3>2. Len(e.pending) = N /\ e.scanning
      BY <2>2 DEF After
    <3> HIDE DEF d
    <3>3. /\ IsBook(d) /\ d.pending \in Seq(SoundOrder) /\ Len(d.pending) = Len(e.pending)
          /\ d.exits = e.exits /\ d.scanning = e.scanning
          /\ SameMoney(e, d) /\ SameLocks(e, d) /\ SameCounts(e, d) /\ SameFills(e, d)
      <4>1. IsBook(e) /\ e.pending \in Seq(SoundOrder) /\ i \in 1 .. Len(e.pending)
        BY <2>2, <3>2 DEF Sound
      <4>2. x \in SoundOrder /\ x.qty > 0
        BY <2>2, <2>5
      <4> HIDE DEF e, x
      <4> QED  BY <4>1, <4>2, NotedOrder DEF d
    <3>4. Sound(config, v, d, 0, 0)
      <4>1. Money(d, 0, 0)
        BY <2>2, <3>3, MoneySame DEF Sound
      <4> QED  BY <2>2, <3>3, <4>1 DEF Sound, SameLocks, SameCounts, SameFills, Counts
    <3>5. After(e, d)
      BY <3>3, AfterSame
    <3>6. After(b, d)
      BY <2>2, <3>5, AfterScan
    <3>7. Frozen(e, d)
      BY <3>3 DEF Frozen, SameLocks
    <3>8. Frozen(b, d)
      BY <2>3, <3>7, FrozenSince
    <3> QED  BY <1>1, <3>1, <3>4, <3>6, <3>8 DEF r
  <2> QED  BY <2>4, <2>5
<1> QED  BY <1>4, <1>5

LEMMA ScanUnfold ==
    ASSUME NEW b, Len(b.pending) \in Nat, NEW due, NEW v, NEW w
    PROVE  LET C == Scan(b, due, v, w)
           IN  /\ C[0] = [book |-> [b EXCEPT !.scanning = TRUE], kept |-> << >>]
               /\ \A i \in 1 .. Len(b.pending) : C[i] = Try(C[i - 1], i, due, v, w)
<1> DEFINE N == Len(b.pending)
           start == [book |-> [b EXCEPT !.scanning = TRUE], kept |-> << >>]
           Step(r, i) == Try(r, i, due, v, w)
           Is(f, n) == f = [i \in 0 .. n |-> IF i = 0 THEN start ELSE Step(f[i - 1], i)]
           S == {n \in 0 .. N : \E f : Is(f, n)}
           C == Scan(b, due, v, w)
<1>0. N \in Nat
  OBVIOUS
<1>1. C = CHOOSE f : Is(f, N)
  BY DEF Scan
<1> HIDE DEF C, start, Step, N
<1>2. 0 \in S
  <2> DEFINE g == [i \in 0 .. 0 |-> start]
  <2>1. g = [i \in 0 .. 0 |-> IF i = 0 THEN start ELSE Step(g[i - 1], i)]
    OBVIOUS
  <2>2. \E f : Is(f, 0)
    BY <2>1
  <2> QED  BY <1>0, <2>2
<1>3. ASSUME NEW n \in 1 .. N, n - 1 \in S  PROVE n \in S
  <2>1. PICK f : Is(f, n - 1)
    BY <1>3
  <2> DEFINE g == [i \in 0 .. n |-> IF i = n THEN Step(f[n - 1], n) ELSE f[i]]
  <2>2. ASSUME NEW i \in 0 .. n  PROVE g[i] = IF i = 0 THEN start ELSE Step(g[i - 1], i)
    <3>1. CASE i = n
      BY <1>0, <3>1
    <3>2. CASE i # n
      <4>1. i \in 0 .. n - 1 /\ (i # 0 => i - 1 \in 0 .. n /\ i - 1 # n)
        BY <1>0, <3>2
      <4>2. f[i] = IF i = 0 THEN start ELSE Step(f[i - 1], i)
        BY <2>1, <4>1
      <4> QED  BY <3>2, <4>1, <4>2
    <3> QED  BY <3>1, <3>2
  <2>3. g = [i \in 0 .. n |-> IF i = 0 THEN start ELSE Step(g[i - 1], i)]
    BY <2>2
  <2>4. \E h : Is(h, n)
    BY <2>3
  <2> QED  BY <1>0, <2>4
<1>4. N \in S
  <2> HIDE DEF S
  <2>1. \A i \in 0 .. N : i \in S
    BY <1>0, <1>2, <1>3, AllPlaces
  <2> QED  BY <1>0, <2>1
<1>5. Is(C, N)
  BY <1>1, <1>4
<1>6. C[0] = start /\ \A i \in 1 .. N : C[i] = Step(C[i - 1], i)
  BY <1>0, <1>5
<1> QED  BY <1>6 DEF C, start, Step, N

LEMMA SetScanning ==
    ASSUME NEW b, IsBook(b), NEW t
    PROVE  LET d == [b EXCEPT !.scanning = t]
           IN  /\ IsBook(d) /\ d.scanning = t /\ d.pending = b.pending /\ d.exits = b.exits
               /\ SameMoney(b, d) /\ SameLocks(b, d) /\ SameCounts(b, d) /\ SameFills(b, d)
BY DEF IsBook, SameMoney, SameLocks, SameCounts, SameFills

LEMMA SetScanned ==
    ASSUME NEW b, IsBook(b), NEW t, NEW s
    PROVE  LET d == [b EXCEPT !.scanning = t, !.pending = s]
           IN  /\ IsBook(d) /\ d.scanning = t /\ d.pending = s /\ d.exits = b.exits
               /\ SameMoney(b, d) /\ SameLocks(b, d) /\ SameCounts(b, d) /\ SameFills(b, d)
<1> DEFINE d1 == [b EXCEPT !.scanning = t]
           d2 == [d1 EXCEPT !.pending = s]
           Same(d) == /\ d.exits = b.exits /\ d.scanning = t
                      /\ SameMoney(b, d) /\ SameLocks(b, d) /\ SameCounts(b, d) /\ SameFills(b, d)
<1>1. IsBook(d1) /\ Same(d1)
  BY SetScanning
<1>2. d2 = [b EXCEPT !.scanning = t, !.pending = s]
  OBVIOUS
<1> HIDE DEF d1
<1>3. IsBook(d2) /\ d2.pending = s /\ Same(d2)
  BY <1>1 DEF IsBook, SameMoney, SameLocks, SameCounts, SameFills
<1> HIDE DEF d2
<1> QED  BY <1>2, <1>3

LEMMA BooksMoved ==
    ASSUME NEW c, NEW v, NEW b, NEW d, Sound(c, v, b, 0, 0), IsBook(d),
           SameMoney(b, d), SameLocks(b, d), SameCounts(b, d),
           d.fills \in Seq(SoundFill(c, v)), d.pending \in Seq(SoundOrder), d.exits \in Seq(Exits[c]),
           d.scanning \in BOOLEAN
    PROVE  /\ Sound(c, v, d, 0, 0) /\ (Locks(b) => Locks(d)) /\ Frozen(b, d)
           /\ \A u : MustLiquidate(d, u) <=> MustLiquidate(b, u)
<1>1. Money(d, 0, 0)
  BY MoneySame DEF Sound
<1>2. Counts(c, d)
  BY DEF Sound, Counts, SameLocks, SameCounts
<1>3. Sound(c, v, d, 0, 0)
  BY <1>1, <1>2 DEF Sound
<1>4. (Locks(b) => Locks(d)) /\ Frozen(b, d)
  BY DEF Locks, SameLocks, Frozen
<1>5. \A u : MustLiquidate(d, u) <=> MustLiquidate(b, u)
  BY MustSame DEF SameCounts
<1> QED  BY <1>3, <1>4, <1>5

LEMMA ScannedIs ==
    ASSUME config \in Config, NEW v \in OkBar, NEW w \in OkBar, v.low <= w.low, w.high <= v.high,
           NEW b, Sound(config, v, b, 0, 0), Locks(b), ~b.scanning, NEW due
    PROVE  LET d == Scanned(b, due, v, w)
           IN  Sound(config, v, d, 0, 0) /\ Locks(d) /\ ~d.scanning /\ Frozen(b, d)
<1> DEFINE N == Len(b.pending)
           C == Scan(b, due, v, w)
           d == Scanned(b, due, v, w)
           t == TRUE
           b1 == [b EXCEPT !.scanning = t]
           Good(r) == /\ r = [book |-> r.book, kept |-> r.kept]
                      /\ Sound(config, v, r.book, 0, 0) /\ Locks(r.book) /\ r.book.scanning
                      /\ Len(r.book.pending) = N /\ r.kept \in Seq(1 .. N) /\ Frozen(b, r.book)
           S == {i \in 0 .. N : Good(C[i])}
<1>1. /\ IsBook(b) /\ b.pending \in Seq(SoundOrder) /\ N \in Nat
      /\ b.exits \in Seq(Exits[config]) /\ b.fills \in Seq(SoundFill(config, v))
  BY DEF Sound
<1>2. /\ C[0] = [book |-> b1, kept |-> << >>]
      /\ \A i \in 1 .. N : C[i] = Try(C[i - 1], i, due, v, w)
  BY <1>1, ScanUnfold
<1>3. d = Rest(C[N])
  BY DEF Scanned
<1> HIDE DEF C, N, d, t
<1>4. 0 \in S
  <2>1. /\ IsBook(b1) /\ b1.scanning = t /\ b1.pending = b.pending /\ b1.exits = b.exits
        /\ SameMoney(b, b1) /\ SameLocks(b, b1) /\ SameCounts(b, b1) /\ SameFills(b, b1)
    BY <1>1, SetScanning
  <2> HIDE DEF b1
  <2>2. b1.scanning = TRUE
    BY <2>1 DEF t
  <2>3. Sound(config, v, b1, 0, 0) /\ Locks(b1) /\ Frozen(b, b1)
    <3>1. b1.fills \in Seq(SoundFill(config, v)) /\ b1.pending \in Seq(SoundOrder)
          /\ b1.exits \in Seq(Exits[config]) /\ b1.scanning \in BOOLEAN
      BY <1>1, <2>1, <2>2 DEF SameFills
    <3> QED  BY <2>1, <3>1, BooksMoved
  <2>4. << >> \in Seq(1 .. N)
    OBVIOUS
  <2>5. C[0].book = b1 /\ C[0].kept = << >>
    BY <1>2
  <2>6. Good(C[0])
    BY <1>2, <2>1, <2>2, <2>3, <2>4, <2>5 DEF N
  <2> QED  BY <1>1, <2>6
<1>5. ASSUME NEW i \in 1 .. N, i - 1 \in S  PROVE i \in S
  <2> DEFINE p == C[i - 1]
             r == C[i]
  <2>1. Good(p)
    BY <1>5
  <2>2. r = Try(p, i, due, v, w)
    BY <1>2
  <2> HIDE DEF p, r
  <2>3. /\ r = [book |-> r.book, kept |-> r.kept]
        /\ Sound(config, v, r.book, 0, 0) /\ After(p.book, r.book)
        /\ Frozen(p.book, r.book) /\ r.kept \in Seq(1 .. N)
    BY <2>1, <2>2, TryIs
  <2>4. Locks(r.book) /\ r.book.scanning /\ Len(r.book.pending) = N
    BY <2>1, <2>3 DEF After
  <2>5. Frozen(b, r.book)
    BY <2>1, <2>3, FrozenSince
  <2>6. Good(r)
    BY <2>3, <2>4, <2>5
  <2>7. i \in 0 .. N
    BY <1>1
  <2> QED  BY <2>6, <2>7 DEF r
<1>6. Good(C[N])
  <2>1. \A i \in 0 .. N : i \in S
    <3> HIDE DEF S
    <3> QED  BY <1>1, <1>4, <1>5, AllPlaces
  <2>2. N \in 0 .. N
    BY <1>1
  <2> QED  BY <2>1, <2>2
<1> DEFINE g == C[N].book
           kept == C[N].kept
           s == [i \in DOMAIN kept |-> g.pending[kept[i]]]
           f == FALSE
           e == [g EXCEPT !.scanning = f, !.pending = s]
<1>7. d = e
  BY <1>3 DEF Rest
<1>8. s \in Seq(SoundOrder)
  <2>1. g.pending \in Seq(SoundOrder) /\ Len(g.pending) = N /\ kept \in Seq(1 .. N)
    BY <1>6 DEF Sound
  <2> HIDE DEF g, kept
  <2>2. /\ DOMAIN kept = 1 .. Len(kept) /\ Len(kept) \in Nat
        /\ \A i \in 1 .. Len(kept) : kept[i] \in 1 .. N
    BY <2>1
  <2>3. \A i \in 1 .. Len(kept) : g.pending[kept[i]] \in SoundOrder
    BY <2>1, <2>2
  <2> QED  BY <2>2, <2>3
<1>9. Sound(config, v, g, 0, 0) /\ Locks(g) /\ Frozen(b, g) /\ IsBook(g)
  BY <1>6 DEF Sound
<1> HIDE DEF g, s, f
<1>10. /\ IsBook(e) /\ e.scanning = f /\ e.pending = s /\ e.exits = g.exits
       /\ SameMoney(g, e) /\ SameLocks(g, e) /\ SameCounts(g, e) /\ SameFills(g, e)
  BY <1>9, SetScanned, Zenon
<1> HIDE DEF e
<1>11. e.scanning = FALSE
  BY <1>10 DEF f
<1>12. Sound(config, v, e, 0, 0) /\ Locks(e) /\ Frozen(g, e)
  <2>1. e.fills \in Seq(SoundFill(config, v)) /\ e.pending \in Seq(SoundOrder)
        /\ e.exits \in Seq(Exits[config]) /\ e.scanning \in BOOLEAN
    BY <1>8, <1>9, <1>10, <1>11 DEF Sound, SameFills
  <2> QED  BY <1>9, <1>10, <2>1, BooksMoved
<1>13. Frozen(b, e)
  BY <1>9, <1>12, FrozenSince
<1> QED  BY <1>7, <1>11, <1>12, <1>13 DEF d

-----------------------------------------------------------------------------
(* Exits.                                                                  *)

\* The position becomes smaller or stays, and never turns.
Shrinks(b, d) ==
    /\ Held(b.lots) >= 0 => 0 <= Held(d.lots) /\ Held(d.lots) <= Held(b.lots)
    /\ Held(b.lots) <= 0 => Held(b.lots) <= Held(d.lots) /\ Held(d.lots) <= 0

LEMMA HeldIs ==
    ASSUME NEW c, NEW v, NEW b, NEW x, NEW y, Sound(c, v, b, x, y)
    PROVE  Held(b.lots) \in Int
BY LotSums DEF Sound, Money

LEMMA ShrinksOn ==
    ASSUME NEW b, NEW d, NEW e, Held(b.lots) \in Int, Held(d.lots) \in Int, Held(e.lots) \in Int,
           Shrinks(b, d), Shrinks(d, e)
    PROVE  Shrinks(b, e)
<1> DEFINE h == Held(b.lots)
           k == Held(d.lots)
           m == Held(e.lots)
<1>1. /\ h \in Int /\ k \in Int /\ m \in Int
      /\ h >= 0 => 0 <= k /\ k <= h
      /\ h <= 0 => h <= k /\ k <= 0
      /\ k >= 0 => 0 <= m /\ m <= k
      /\ k <= 0 => k <= m /\ m <= 0
  BY DEF Shrinks
<1> HIDE DEF h, k, m
<1>2. /\ h >= 0 => 0 <= m /\ m <= h
      /\ h <= 0 => h <= m /\ m <= 0
  BY <1>1
<1> QED  BY <1>2 DEF h, m, Shrinks

LEMMA ShrinksSame ==
    ASSUME NEW b, NEW d, Held(b.lots) \in Int, d.lots = b.lots \/ d.lots = << >>
    PROVE  Shrinks(b, d)
<1>1. Held(<< >>) = 0
  BY NoLots
<1> QED  BY <1>1 DEF Shrinks

LEMMA ExitFillSound ==
    ASSUME NEW c \in Config, NEW v \in OkBar, NEW q \in Nat \ {0}, NEW target \in Nat,
           NEW price \in Nat, v.low <= price, price <= v.high, NEW P \in Int, NEW Q \in Int
    PROVE  [kind |-> "exit", market |-> FALSE, both |-> FALSE, qty |-> q, left |-> target,
            price |-> price, before |-> P, after |-> Q, locked |-> FALSE, canceled |-> FALSE]
              \in SoundFill(c, v)
<1> DEFINE f == [kind |-> "exit", market |-> FALSE, both |-> FALSE, qty |-> q, left |-> target,
                 price |-> price, before |-> P, after |-> Q, locked |-> FALSE, canceled |-> FALSE]
<1>1. f \in Fill
  BY DEF Fill
<1>2. f.kind # "entry" /\ f.both = FALSE /\ f.canceled = FALSE /\ f.price = price
  OBVIOUS
<1> HIDE DEF f
<1>3. f \in SoundFill(c, v)
  BY <1>1, <1>2 DEF SoundFill
<1> QED  BY <1>3 DEF f

\* What the arguments of an exit are.
IsExit(x) ==
    Price(x.limit) /\ Price(x.stop) /\ x.qty \in Nat \cup {NoQty}

LEMMA ExitsAre ==
    ASSUME config \in Configs, NEW x \in Exits[config]
    PROVE  IsExit(x)
BY ConstantsAssumption DEF IsExit, Price

LEMMA ExitAtIs ==
    ASSUME config \in Config, NEW v \in OkBar, NEW b, Sound(config, v, b, 0, 0), ~MustLiquidate(b, v),
           NEW x, IsExit(x), NEW price, price # NoPrice => price \in Nat /\ v.low <= price /\ price <= v.high
    PROVE  LET r == ExitAt(b, x, v, price)
           IN  /\ Sound(config, v, r.book, 0, 0) /\ ~MustLiquidate(r.book, v)
               /\ Calm(b, r.book) /\ Shrinks(b, r.book)
<1> DEFINE r == ExitAt(b, x, v, price)
           target == TargetQty(b, x.from)
           P == Position(b)
           want == Requested(target, x.qty)
           q == Min2(Min2(target, Size(P)), want)
           sold == Sold(b, x.from, q, price)
           fill == ExitFill(b, sold, q, target, price)
           fills == Append(sold.fills, fill)
           e == [sold EXCEPT !.fills = fills]
           d == Sync(e, v)
<1>1. r = IF P = 0 \/ price = NoPrice \/ q = 0 THEN Outcome(FALSE, b, x) ELSE Outcome(TRUE, d, x)
  BY DEF ExitAt
<1>2. /\ IsBook(b) /\ Money(b, 0, 0) /\ b.lots \in Seq(Lot) /\ Sided(b.lots)
      /\ b.fills \in Seq(SoundFill(config, v)) /\ b.pending \in Seq(SoundOrder)
  BY DEF Sound, Money
<1>3. /\ P = Held(b.lots) /\ P \in Int /\ Size(P) \in Nat /\ target \in Nat
      /\ target = Owned(b.lots, x.from)
  <2>1. P = Held(b.lots) /\ target = Owned(b.lots, x.from)
    BY SumsAreTotals
  <2> HIDE DEF P, target
  <2> QED  BY <1>2, <2>1, SidedIs
<1> HIDE DEF r, d
<1>4. CASE P = 0 \/ price = NoPrice \/ q = 0
  <2>1. r.book = b
    BY <1>1, <1>4 DEF Outcome
  <2>2. Calm(b, b)
    BY DEF Calm, After
  <2>3. Shrinks(b, b)
    BY <1>3, ShrinksSame
  <2> QED  BY <2>1, <2>2, <2>3 DEF r
<1>5. CASE P # 0 /\ price # NoPrice /\ q # 0
  <2>1. r.book = d
    BY <1>1, <1>5 DEF Outcome
  <2>2. want \in Nat
    <3> HIDE DEF target
    <3> QED  BY <1>3 DEF Requested, IsExit
  <2> HIDE DEF P, target, want
  <2>3. q \in Nat \ {0} /\ q <= target /\ q <= Size(P)
    BY <1>3, <1>5, <2>2 DEF Min2
  <2> HIDE DEF q
  <2>4. price \in Nat /\ price \in Int /\ v.low <= price /\ price <= v.high
    BY <1>5
  <2>5. /\ IsBook(sold)
        /\ SameOrders(b, sold) /\ SameLocks(b, sold) /\ SameCounts(b, sold) /\ SameFills(b, sold)
        /\ Money(sold, 0, 0)
        /\ Held(sold.lots) = Held(b.lots) - Way(b.lots) * q
    BY <1>2, <1>3, <1>5, <2>3, <2>4, SoldIs
  <2> HIDE DEF sold
  <2>6. Held(sold.lots) \in Int /\ Position(sold) = Held(sold.lots)
    BY <2>5, LotSums, SumsAreTotals DEF Money
  <2>7. Shrinks(b, sold)
    <3> DEFINE h == Held(b.lots)
               k == Held(sold.lots)
    <3>1. /\ h \in Int /\ h # 0 /\ q \in Nat /\ q <= Size(h)
          /\ k = h - Way(b.lots) * q
      BY <1>3, <1>5, <2>3, <2>5
    <3>2. Way(b.lots) = IF h > 0 THEN 1 ELSE -1
      BY DEF Way
    <3> HIDE DEF h, k
    <3>3. /\ h >= 0 => 0 <= k /\ k <= h
          /\ h <= 0 => h <= k /\ k <= 0
      <4>1. CASE h > 0
        BY <3>1, <3>2, <4>1 DEF Size, Max2
      <4>2. CASE h < 0
        BY <3>1, <3>2, <4>2 DEF Size, Max2
      <4> QED  BY <3>1, <4>1, <4>2
    <3> QED  BY <3>3 DEF h, k, Shrinks
  <2>8. fill \in SoundFill(config, v)
    <3>1. fill = [kind |-> "exit", market |-> FALSE, both |-> FALSE, qty |-> q, left |-> target,
                  price |-> price, before |-> P, after |-> Held(sold.lots), locked |-> FALSE,
                  canceled |-> FALSE]
      BY <2>6 DEF ExitFill, P
    <3> HIDE DEF fill
    <3> QED  BY <1>3, <2>3, <2>4, <2>6, <3>1, ExitFillSound
  <2> HIDE DEF fill
  <2>9. fills \in Seq(SoundFill(config, v))
    <3>1. sold.fills \in Seq(SoundFill(config, v))
      BY <1>2, <2>5 DEF SameFills
    <3> QED  BY <2>8, <3>1
  <2> HIDE DEF fills
  <2>10. /\ IsBook(e) /\ e.fills = fills
         /\ SameOrders(sold, e) /\ SameMoney(sold, e) /\ SameLocks(sold, e) /\ SameCounts(sold, e)
    BY <2>5, SetFills
  <2> HIDE DEF e
  <2>11. Sound(config, v, e, 0, 0)
    <3>1. Money(e, 0, 0)
      BY <2>5, <2>10, MoneySame
    <3>2. SameOrders(b, e) /\ SameLocks(b, e) /\ SameCounts(b, e)
      BY <2>5, <2>10 DEF SameOrders, SameLocks, SameCounts
    <3> QED  BY <2>9, <2>10, <3>1, <3>2 DEF Sound, SameOrders, SameLocks, SameCounts, Counts
  <2>12. Calm(b, e)
    <3>1. SameOrders(b, e) /\ SameLocks(b, e)
      BY <2>5, <2>10 DEF SameOrders, SameLocks
    <3>2. After(b, e)
      BY <3>1, AfterSame DEF SameOrders
    <3>3. b.lots # << >>
      BY <1>3, <1>5, NoLots
    <3> QED  BY <3>2, <3>3 DEF Calm, Empty
  <2>13. Sound(config, v, d, 0, 0) /\ ~MustLiquidate(d, v) /\ (d = e \/ Liquidated(e, d))
    BY <2>11, SyncSound DEF d
  <2>14. e.pending \in Seq(SoundOrder)
    BY <2>11 DEF Sound
  <2>15. Calm(e, d)
    BY <2>13, <2>14, SyncIsCalm
  <2>16. Calm(b, d)
    BY <2>12, <2>15, CalmCalm
  <2>17. Held(b.lots) \in Int /\ Held(e.lots) \in Int /\ Held(d.lots) \in Int
    BY <2>11, <2>13, HeldIs
  <2>18. Shrinks(b, e)
    BY <2>7, <2>10 DEF Shrinks, SameMoney
  <2>19. Shrinks(e, d)
    <3>1. d.lots = e.lots \/ d.lots = << >>
      BY <2>13 DEF Liquidated
    <3> QED  BY <2>17, <3>1, ShrinksSame
  <2>20. Shrinks(b, d)
    BY <2>17, <2>18, <2>19, ShrinksOn
  <2> QED  BY <2>1, <2>13, <2>16, <2>20 DEF r
<1> QED  BY <1>4, <1>5

LEMMA TryExitIs ==
    ASSUME config \in Config, NEW v \in OkBar, NEW b, Sound(config, v, b, 0, 0), NEW x, IsExit(x)
    PROVE  LET r == TryExit(b, x, v)
           IN  /\ Sound(config, v, r.book, 0, 0) /\ ~MustLiquidate(r.book, v)
               /\ Calm(b, r.book) /\ Shrinks(b, r.book)
<1> DEFINE r == TryExit(b, x, v)
           read == Sync(b, v)
           price == ExitPrice(config, x, ClosingSide(read), v)
           full == ExitAt(read, x, v, price)
<1>1. r = IF b.lots = << >> THEN Outcome(FALSE, b, x) ELSE full
  BY DEF TryExit
<1>2. Held(b.lots) \in Int
  BY HeldIs
<1> HIDE DEF r, full
<1>3. CASE b.lots = << >>
  <2>1. r.book = b
    BY <1>1, <1>3 DEF Outcome
  <2>2. Calm(b, b)
    BY DEF Calm, After
  <2>3. Shrinks(b, b) /\ ~MustLiquidate(b, v)
    BY <1>2, <1>3, ShrinksSame, NothingToLose
  <2> QED  BY <2>1, <2>2, <2>3 DEF r
<1>4. CASE b.lots # << >>
  <2>1. /\ Sound(config, v, read, 0, 0) /\ ~MustLiquidate(read, v)
        /\ read = b \/ Liquidated(b, read)
    BY SyncSound
  <2> HIDE DEF read
  <2>2. ClosingSide(read) \in Side
    BY <2>1, HeldIs, ClosingSideIs
  <2>3. price # NoPrice => price \in Nat /\ v.low <= price /\ price <= v.high
    <3> DEFINE s == ClosingSide(read)
    <3>1. s \in Side
      BY <2>2
    <3> HIDE DEF s
    <3>2. ExitPrice(config, x, s, v) # NoPrice =>
            LET p == ExitPrice(config, x, s, v) IN p \in Nat /\ v.low <= p /\ p <= v.high
      BY <3>1, ExitPriceIs DEF IsExit
    <3> QED  BY <3>2 DEF s
  <2> HIDE DEF price
  <2>4. /\ Sound(config, v, full.book, 0, 0) /\ ~MustLiquidate(full.book, v)
        /\ Calm(read, full.book) /\ Shrinks(read, full.book)
    BY <2>1, <2>3, ExitAtIs DEF full
  <2>5. Calm(b, read) /\ Shrinks(b, read)
    <3>1. b.pending \in Seq(SoundOrder)
      BY DEF Sound
    <3>2. read.lots = b.lots \/ read.lots = << >>
      BY <2>1 DEF Liquidated
    <3> QED  BY <1>2, <2>1, <3>1, <3>2, SyncIsCalm, ShrinksSame
  <2>6. Held(read.lots) \in Int /\ Held(full.book.lots) \in Int
    BY <2>1, <2>4, HeldIs
  <2>7. Calm(b, full.book)
    BY <2>4, <2>5, CalmCalm
  <2>8. Shrinks(b, full.book)
    <3> DEFINE e == full.book
    <3>1. Shrinks(read, e) /\ Held(e.lots) \in Int
      BY <2>4, <2>6
    <3> HIDE DEF e
    <3>2. Shrinks(b, e)
      BY <1>2, <2>5, <2>6, <3>1, ShrinksOn
    <3> QED  BY <3>2 DEF e
  <2>9. r = full
    BY <1>1, <1>4
  <2> QED  BY <2>4, <2>7, <2>8, <2>9 DEF r
<1> QED  BY <1>3, <1>4

LEMMA SetExits ==
    ASSUME NEW b, IsBook(b), NEW x
    PROVE  LET d == [b EXCEPT !.exits = x]
           IN  /\ IsBook(d) /\ d.exits = x /\ d.pending = b.pending /\ d.scanning = b.scanning
               /\ SameMoney(b, d) /\ SameLocks(b, d) /\ SameCounts(b, d) /\ SameFills(b, d)
BY DEF IsBook, SameMoney, SameLocks, SameCounts, SameFills

LEMMA ExitScanUnfold ==
    ASSUME NEW b, Len(b.exits) \in Nat, NEW v
    PROVE  LET C == ExitScan(b, v)
           IN  /\ C[0] = [book |-> b, kept |-> << >>]
               /\ \A i \in 1 .. Len(b.exits) : C[i] = ExitTried(C[i - 1], b.exits[i], TryExit(C[i - 1].book, b.exits[i], v))
<1> DEFINE N == Len(b.exits)
           start == [book |-> b, kept |-> << >>]
           Step(r, i) == ExitTried(r, b.exits[i], TryExit(r.book, b.exits[i], v))
           Is(f, n) == f = [i \in 0 .. n |-> IF i = 0 THEN start ELSE Step(f[i - 1], i)]
           S == {n \in 0 .. N : \E f : Is(f, n)}
           C == ExitScan(b, v)
<1>0. N \in Nat
  OBVIOUS
<1>1. C = CHOOSE f : Is(f, N)
  BY DEF ExitScan
<1> HIDE DEF C, start, Step, N
<1>2. 0 \in S
  <2> DEFINE g == [i \in 0 .. 0 |-> start]
  <2>1. g = [i \in 0 .. 0 |-> IF i = 0 THEN start ELSE Step(g[i - 1], i)]
    OBVIOUS
  <2>2. \E f : Is(f, 0)
    BY <2>1
  <2> QED  BY <1>0, <2>2
<1>3. ASSUME NEW n \in 1 .. N, n - 1 \in S  PROVE n \in S
  <2>1. PICK f : Is(f, n - 1)
    BY <1>3
  <2> DEFINE g == [i \in 0 .. n |-> IF i = n THEN Step(f[n - 1], n) ELSE f[i]]
  <2>2. ASSUME NEW i \in 0 .. n  PROVE g[i] = IF i = 0 THEN start ELSE Step(g[i - 1], i)
    <3>1. CASE i = n
      BY <1>0, <3>1
    <3>2. CASE i # n
      <4>1. i \in 0 .. n - 1 /\ (i # 0 => i - 1 \in 0 .. n /\ i - 1 # n)
        BY <1>0, <3>2
      <4>2. f[i] = IF i = 0 THEN start ELSE Step(f[i - 1], i)
        BY <2>1, <4>1
      <4> QED  BY <3>2, <4>1, <4>2
    <3> QED  BY <3>1, <3>2
  <2>3. g = [i \in 0 .. n |-> IF i = 0 THEN start ELSE Step(g[i - 1], i)]
    BY <2>2
  <2>4. \E h : Is(h, n)
    BY <2>3
  <2> QED  BY <1>0, <2>4
<1>4. N \in S
  <2> HIDE DEF S
  <2>1. \A i \in 0 .. N : i \in S
    BY <1>0, <1>2, <1>3, AllPlaces
  <2> QED  BY <1>0, <2>1
<1>5. Is(C, N)
  BY <1>1, <1>4
<1>6. C[0] = start /\ \A i \in 1 .. N : C[i] = Step(C[i - 1], i)
  BY <1>0, <1>5
<1> QED  BY <1>6 DEF C, start, Step, N

LEMMA LockedStays ==
    ASSUME NEW b, NEW d, After(b, d), Locks(b), b.locked
    PROVE  d.locked
BY DEF After, Locks

LEMMA ExitsScannedIs ==
    ASSUME config \in Config, config \in Configs, NEW v \in OkBar,
           NEW b, Sound(config, v, b, 0, 0), Locks(b), ~b.scanning
    PROVE  LET d == ExitsScanned(b, v)
           IN  /\ Sound(config, v, d, 0, 0) /\ Locks(d) /\ ~d.scanning
               /\ Shrinks(b, d) /\ (b.locked => d.locked)
<1> DEFINE N == Len(b.exits)
           C == ExitScan(b, v)
           T == Exits[config]
           d == ExitsScanned(b, v)
           Good(r) == /\ Sound(config, v, r.book, 0, 0) /\ Locks(r.book) /\ ~r.book.scanning
                      /\ r.kept \in Seq(T) /\ Shrinks(b, r.book) /\ (b.locked => r.book.locked)
           S == {i \in 0 .. N : Good(C[i])}
<1>1. IsBook(b) /\ b.exits \in Seq(T) /\ N \in Nat /\ \A i \in 1 .. N : b.exits[i] \in T
  BY DEF Sound
<1>2. /\ C[0] = [book |-> b, kept |-> << >>]
      /\ \A i \in 1 .. N : C[i] = ExitTried(C[i - 1], b.exits[i], TryExit(C[i - 1].book, b.exits[i], v))
  BY <1>1, ExitScanUnfold
<1>3. d = ExitsKept(C[N])
  BY DEF ExitsScanned
<1>4. Held(b.lots) \in Int
  BY HeldIs
<1> HIDE DEF C, N, d
<1>5. 0 \in S
  <2>1. C[0].book = b /\ C[0].kept = << >>
    BY <1>2
  <2>2. << >> \in Seq(T)
    OBVIOUS
  <2>3. Shrinks(b, b)
    BY <1>4, ShrinksSame
  <2> HIDE DEF T
  <2>4. Good(C[0])
    BY <2>1, <2>2, <2>3
  <2> QED  BY <1>1, <2>4
<1>6. ASSUME NEW i \in 1 .. N, i - 1 \in S  PROVE i \in S
  <2> DEFINE p == C[i - 1]
             r == C[i]
             x == b.exits[i]
             g == p.book
             t == TryExit(g, x, v)
  <2>1. Good(p) /\ x \in T
    BY <1>1, <1>6
  <2>2. r = ExitTried(p, x, t)
    BY <1>2
  <2>3. IsExit(x)
    BY <2>1, ExitsAre
  <2> HIDE DEF p, r, x
  <2>4. /\ Sound(config, v, t.book, 0, 0)
        /\ Calm(g, t.book) /\ Shrinks(g, t.book)
    <3>1. Sound(config, v, g, 0, 0)
      BY <2>1
    <3> HIDE DEF g
    <3> QED  BY <2>3, <3>1, TryExitIs
  <2> HIDE DEF t
  <2>5. r.book = t.book /\ r.kept = (IF t.done THEN p.kept ELSE Append(p.kept, x))
    BY <2>2 DEF ExitTried
  <2> DEFINE e == t.book
  <2>6. /\ Sound(config, v, e, 0, 0) /\ Calm(g, e) /\ Shrinks(g, e)
        /\ Sound(config, v, g, 0, 0) /\ Locks(g) /\ ~g.scanning /\ Shrinks(b, g) /\ (b.locked => g.locked)
    BY <2>1, <2>4
  <2> HIDE DEF e, g
  <2>7. Locks(e) /\ ~e.scanning
    BY <2>6 DEF Calm, After
  <2>8. b.locked => e.locked
    BY <2>6, LockedStays DEF Calm
  <2>9. Shrinks(b, e)
    <3>1. Held(g.lots) \in Int /\ Held(e.lots) \in Int
      BY <2>6, HeldIs
    <3> QED  BY <1>4, <2>6, <3>1, ShrinksOn
  <2>10. r.kept \in Seq(T)
    <3>1. p.kept \in Seq(T) /\ x \in T
      BY <2>1
    <3> HIDE DEF T
    <3> QED  BY <2>5, <3>1
  <2> HIDE DEF T
  <2>11. Good(r)
    BY <2>5, <2>6, <2>7, <2>8, <2>9, <2>10 DEF e
  <2>12. i \in 0 .. N
    BY <1>1
  <2> QED  BY <2>11, <2>12 DEF r
<1>7. Good(C[N])
  <2>1. \A i \in 0 .. N : i \in S
    <3> HIDE DEF S
    <3> QED  BY <1>1, <1>5, <1>6, AllPlaces
  <2>2. N \in 0 .. N
    BY <1>1
  <2> QED  BY <2>1, <2>2
<1> DEFINE g == C[N].book
           kept == C[N].kept
           e == [g EXCEPT !.exits = kept]
<1>8. d = e
  BY <1>3 DEF ExitsKept
<1>9. /\ Sound(config, v, g, 0, 0) /\ Locks(g) /\ ~g.scanning /\ IsBook(g)
      /\ kept \in Seq(T) /\ Shrinks(b, g) /\ (b.locked => g.locked)
  BY <1>7 DEF Sound
<1> HIDE DEF g, kept
<1>10. /\ IsBook(e) /\ e.exits = kept /\ e.pending = g.pending /\ e.scanning = g.scanning
       /\ SameMoney(g, e) /\ SameLocks(g, e) /\ SameCounts(g, e) /\ SameFills(g, e)
  BY <1>9, SetExits
<1> HIDE DEF e
<1>11. Sound(config, v, e, 0, 0) /\ Locks(e)
  <2>1. e.fills \in Seq(SoundFill(config, v)) /\ e.pending \in Seq(SoundOrder)
        /\ e.exits \in Seq(Exits[config]) /\ e.scanning \in BOOLEAN
    BY <1>9, <1>10 DEF Sound, SameFills, Counts
  <2> QED  BY <1>9, <1>10, <2>1, BooksMoved
<1>12. Shrinks(b, e)
  BY <1>9, <1>10 DEF Shrinks, SameMoney
<1>13. b.locked => e.locked
  BY <1>9, <1>10 DEF SameLocks
<1> QED  BY <1>8, <1>9, <1>10, <1>11, <1>12, <1>13 DEF d

-----------------------------------------------------------------------------
(* Taking members out of a sequence.                                       *)

KeptOf(s, gone) ==
    LET kept[i \in 0 .. Len(s)] ==
            IF i = 0 THEN << >>
            ELSE IF s[i] \in gone THEN kept[i - 1] ELSE Append(kept[i - 1], s[i])
    IN  kept

LEMMA OmittingUnfold ==
    ASSUME NEW s, Len(s) \in Nat, NEW gone
    PROVE  LET C == KeptOf(s, gone)
           IN  /\ C[0] = << >>
               /\ \A i \in 1 .. Len(s) : C[i] = (IF s[i] \in gone THEN C[i - 1] ELSE Append(C[i - 1], s[i]))
<1> DEFINE N == Len(s)
           start == << >>
           Step(r, i) == (IF s[i] \in gone THEN r ELSE Append(r, s[i]))
           Is(f, n) == f = [i \in 0 .. n |-> IF i = 0 THEN start ELSE Step(f[i - 1], i)]
           S == {n \in 0 .. N : \E f : Is(f, n)}
           C == KeptOf(s, gone)
<1>0. N \in Nat
  OBVIOUS
<1>1. C = CHOOSE f : Is(f, N)
  BY DEF KeptOf
<1> HIDE DEF C, start, Step, N
<1>2. 0 \in S
  <2> DEFINE g == [i \in 0 .. 0 |-> start]
  <2>1. g = [i \in 0 .. 0 |-> IF i = 0 THEN start ELSE Step(g[i - 1], i)]
    OBVIOUS
  <2>2. \E f : Is(f, 0)
    BY <2>1
  <2> QED  BY <1>0, <2>2
<1>3. ASSUME NEW n \in 1 .. N, n - 1 \in S  PROVE n \in S
  <2>1. PICK f : Is(f, n - 1)
    BY <1>3
  <2> DEFINE g == [i \in 0 .. n |-> IF i = n THEN Step(f[n - 1], n) ELSE f[i]]
  <2>2. ASSUME NEW i \in 0 .. n  PROVE g[i] = IF i = 0 THEN start ELSE Step(g[i - 1], i)
    <3>1. CASE i = n
      BY <1>0, <3>1
    <3>2. CASE i # n
      <4>1. i \in 0 .. n - 1 /\ (i # 0 => i - 1 \in 0 .. n /\ i - 1 # n)
        BY <1>0, <3>2
      <4>2. f[i] = IF i = 0 THEN start ELSE Step(f[i - 1], i)
        BY <2>1, <4>1
      <4> QED  BY <3>2, <4>1, <4>2
    <3> QED  BY <3>1, <3>2
  <2>3. g = [i \in 0 .. n |-> IF i = 0 THEN start ELSE Step(g[i - 1], i)]
    BY <2>2
  <2>4. \E h : Is(h, n)
    BY <2>3
  <2> QED  BY <1>0, <2>4
<1>4. N \in S
  <2> HIDE DEF S
  <2>1. \A i \in 0 .. N : i \in S
    BY <1>0, <1>2, <1>3, AllPlaces
  <2> QED  BY <1>0, <2>1
<1>5. Is(C, N)
  BY <1>1, <1>4
<1>6. C[0] = start /\ \A i \in 1 .. N : C[i] = Step(C[i - 1], i)
  BY <1>0, <1>5
<1> QED  BY <1>6 DEF C, start, Step, N

LEMMA OmittingIs ==
    ASSUME NEW T, NEW s \in Seq(T), NEW gone
    PROVE  /\ Omitting(s, gone) \in Seq(T)
           /\ s = << >> => Omitting(s, gone) = << >>
<1> DEFINE N == Len(s)
           C == KeptOf(s, gone)
           S == {i \in 0 .. N : C[i] \in Seq(T)}
<1>1. N \in Nat /\ \A i \in 1 .. N : s[i] \in T
  OBVIOUS
<1>2. /\ C[0] = << >>
      /\ \A i \in 1 .. N : C[i] = IF s[i] \in gone THEN C[i - 1] ELSE Append(C[i - 1], s[i])
  BY <1>1, OmittingUnfold
<1>3. Omitting(s, gone) = C[N]
  BY DEF Omitting, KeptOf
<1> HIDE DEF C, N
<1>4. 0 \in S
  <2>1. << >> \in Seq(T)
    OBVIOUS
  <2>2. C[0] = << >> /\ 0 \in 0 .. N
    BY <1>1, <1>2
  <2>3. C[0] \in Seq(T)
    BY <2>1, <2>2, Zenon
  <2> QED  BY <2>2, <2>3
<1>5. ASSUME NEW i \in 1 .. N, i - 1 \in S  PROVE i \in S
  <2> DEFINE p == C[i - 1]
             x == s[i]
  <2>1. p \in Seq(T) /\ x \in T /\ i \in 0 .. N
    BY <1>1, <1>5
  <2>2. C[i] = IF x \in gone THEN p ELSE Append(p, x)
    BY <1>2
  <2> HIDE DEF p, x
  <2>3. C[i] \in Seq(T)
    BY <2>1, <2>2
  <2> QED  BY <2>1, <2>3
<1>6. \A i \in 0 .. N : i \in S
  <2> HIDE DEF S
  <2> QED  BY <1>1, <1>4, <1>5, AllPlaces
<1>7. N \in 0 .. N
  BY <1>1
<1>8. s = << >> => N = 0
  BY DEF N
<1> QED  BY <1>2, <1>3, <1>6, <1>7, <1>8

-----------------------------------------------------------------------------
(* Peaks and days.                                                         *)

LEMMA EquityIs ==
    ASSUME config \in Config, NEW b, NEW x, NEW y, Money(b, x, y), NEW price \in Int
    PROVE  Equity(b, price) \in Int
<1> DEFINE s == b.lots
           gains == [i \in DOMAIN s |-> Profit(s[i], s[i].qty, price)]
           gain == SumOf(gains)
<1>1. s \in Seq(Lot) /\ b.won \in Nat /\ b.lost \in Int /\ b.fees \in Nat
  BY DEF Money
<1>2. gains \in Seq(Int)
  <2> HIDE DEF s
  <2>1. DOMAIN s = 1 .. Len(s) /\ Len(s) \in Nat /\ \A i \in 1 .. Len(s) : s[i] \in Lot
    BY <1>1
  <2>2. ASSUME NEW i \in 1 .. Len(s)  PROVE Profit(s[i], s[i].qty, price) \in Int
    <3> DEFINE l == s[i]
    <3>1. l \in Lot
      BY <2>1
    <3> HIDE DEF l
    <3>2. Sign(l.side) \in Int /\ l.price \in Int /\ l.qty \in Int
      BY <3>1, LotValues, SideSign
    <3>3. Profit(l, l.qty, price) \in Int
      BY <3>2 DEF Profit
    <3> QED  BY <3>3 DEF l
  <2> QED  BY <2>1, <2>2
<1>3. gain \in Int
  <2> HIDE DEF gains
  <2> QED  BY <1>2, SumsType
<1>4. Equity(b, price) = config.capital + b.won + b.lost - b.fees + gain
  BY DEF Equity, Total
<1>5. config.capital \in Nat
  BY ConfigIs
<1> HIDE DEF gain
<1> QED  BY <1>1, <1>3, <1>4, <1>5

LEMMA SetPeaks ==
    ASSUME NEW b, IsBook(b), NEW peak, NEW dayPeak, NEW t, NEW u
    PROVE  LET d == [b EXCEPT !.peak = peak, !.dayPeak = dayPeak, !.drawdownLocked = t,
                              !.dayLocked = u]
           IN  /\ IsBook(d) /\ d.peak = peak /\ d.dayPeak = dayPeak /\ d.drawdownLocked = t
               /\ d.dayLocked = u /\ d.filledLocked = b.filledLocked /\ d.filled = b.filled
               /\ SameOrders(b, d) /\ SameMoney(b, d) /\ SameFills(b, d)
<1> DEFINE d1 == [b EXCEPT !.peak = peak]
           d2 == [d1 EXCEPT !.dayPeak = dayPeak]
           d3 == [d2 EXCEPT !.drawdownLocked = t]
           d4 == [d3 EXCEPT !.dayLocked = u]
           Same(d) == /\ d.filledLocked = b.filledLocked /\ d.filled = b.filled /\ d.peak = peak
                      /\ SameOrders(b, d) /\ SameMoney(b, d) /\ SameFills(b, d)
<1>1. IsBook(d1) /\ Same(d1)
  BY DEF IsBook, SameOrders, SameMoney, SameFills
<1> HIDE DEF d1
<1>2. IsBook(d2) /\ d2.dayPeak = dayPeak /\ Same(d2)
  BY <1>1 DEF IsBook, SameOrders, SameMoney, SameFills
<1> HIDE DEF d2
<1>3. IsBook(d3) /\ d3.dayPeak = dayPeak /\ d3.drawdownLocked = t /\ Same(d3)
  BY <1>2 DEF IsBook, SameOrders, SameMoney, SameFills
<1> HIDE DEF d3
<1>4. IsBook(d4) /\ d4.dayPeak = dayPeak /\ d4.drawdownLocked = t /\ d4.dayLocked = u /\ Same(d4)
  BY <1>3 DEF IsBook, SameOrders, SameMoney, SameFills
<1>5. d4 = [b EXCEPT !.peak = peak, !.dayPeak = dayPeak, !.drawdownLocked = t, !.dayLocked = u]
  BY DEF d1, d2, d3
<1> HIDE DEF d4
<1> QED  BY <1>4, <1>5

LEMMA SetDay ==
    ASSUME NEW b, IsBook(b), NEW t, NEW n, NEW u
    PROVE  LET d == [b EXCEPT !.dayLocked = t, !.filled = n, !.filledLocked = u]
           IN  /\ IsBook(d) /\ d.dayLocked = t /\ d.filled = n /\ d.filledLocked = u
               /\ d.drawdownLocked = b.drawdownLocked /\ d.locked = b.locked
               /\ d.peak = b.peak /\ d.dayPeak = b.dayPeak
               /\ SameOrders(b, d) /\ SameMoney(b, d) /\ SameFills(b, d)
<1> DEFINE d1 == [b EXCEPT !.dayLocked = t]
           d2 == [d1 EXCEPT !.filled = n, !.filledLocked = u]
           Same(d) == /\ d.drawdownLocked = b.drawdownLocked /\ d.locked = b.locked
                      /\ d.peak = b.peak /\ d.dayPeak = b.dayPeak /\ d.dayLocked = t
                      /\ SameOrders(b, d) /\ SameMoney(b, d) /\ SameFills(b, d)
<1>1. IsBook(d1) /\ Same(d1)
  BY DEF IsBook, SameOrders, SameMoney, SameFills
<1>2. d2 = [b EXCEPT !.dayLocked = t, !.filled = n, !.filledLocked = u]
  OBVIOUS
<1> HIDE DEF d1
<1>3. /\ IsBook(d2) /\ d2.filled = n /\ d2.filledLocked = u
      /\ d2.drawdownLocked = d1.drawdownLocked /\ d2.dayLocked = d1.dayLocked
      /\ d2.locked = d1.locked /\ d2.peak = d1.peak /\ d2.dayPeak = d1.dayPeak
      /\ SameOrders(d1, d2) /\ SameMoney(d1, d2) /\ SameFills(d1, d2)
  BY <1>1, SetFilled, Zenon
<1> HIDE DEF d2
<1>4. SameOrders(b, d2) /\ SameMoney(b, d2) /\ SameFills(b, d2)
  BY <1>1, <1>3 DEF SameOrders, SameMoney, SameFills
<1> QED  BY <1>1, <1>2, <1>3, <1>4

LEMMA SetDayPeak ==
    ASSUME NEW b, IsBook(b), NEW x
    PROVE  LET d == [b EXCEPT !.dayPeak = x]
           IN  /\ IsBook(d) /\ d.dayPeak = x /\ d.peak = b.peak /\ d.filled = b.filled
               /\ SameOrders(b, d) /\ SameMoney(b, d) /\ SameLocks(b, d) /\ SameFills(b, d)
BY DEF IsBook, SameOrders, SameMoney, SameLocks, SameFills

\* A book whose peaks are set and whose locks follow.
LEMMA LockSyncedSound ==
    ASSUME NEW c, NEW v, NEW b, Sound(c, v, b, 0, 0)
    PROVE  LET d == LockSynced(b)
           IN  /\ Sound(c, v, d, 0, 0) /\ Locks(d) /\ d.scanning = b.scanning /\ d.lots = b.lots
               /\ d.dayLocked = b.dayLocked
<1> DEFINE d == LockSynced(b)
<1>1. IsBook(b) /\ Counts(c, b) /\ Money(b, 0, 0)
  BY DEF Sound
<1>2. /\ IsBook(d) /\ d.locked = (b.drawdownLocked \/ b.dayLocked \/ b.filledLocked)
      /\ d.drawdownLocked = b.drawdownLocked /\ d.dayLocked = b.dayLocked
      /\ d.filledLocked = b.filledLocked
      /\ SameOrders(b, d) /\ SameMoney(b, d) /\ SameCounts(b, d) /\ SameFills(b, d)
  BY <1>1, LockSyncedIs
<1> HIDE DEF d
<1>3. Money(d, 0, 0)
  BY <1>1, <1>2, MoneySame
<1>4. Counts(c, d)
  <2>1. d.locked \in BOOLEAN
    BY <1>2
  <2> QED  BY <1>1, <1>2, <2>1 DEF Counts, SameOrders, SameCounts
<1>5. Sound(c, v, d, 0, 0)
  BY <1>2, <1>3, <1>4 DEF Sound, SameOrders, SameFills
<1>6. Locks(d)
  BY <1>2 DEF Locks
<1> QED  BY <1>2, <1>5, <1>6 DEF d, SameOrders, SameMoney

LEMMA PeaksRaisedIs ==
    ASSUME config \in Config, NEW v, NEW b, Sound(config, v, b, 0, 0), NEW equity \in Int
    PROVE  LET d == PeaksRaised(b, equity)
           IN  Sound(config, v, d, 0, 0) /\ Locks(d) /\ d.scanning = b.scanning /\ d.lots = b.lots
<1> DEFINE top == Max2(b.peak, equity)
           dayTop == Max2(b.dayPeak, equity)
           t == b.drawdownLocked \/ LossHit(config, equity, top, config.maxDrawdown)
           u == b.dayLocked \/ LossHit(config, equity, dayTop, config.maxLoss)
           e == [b EXCEPT !.peak = top, !.dayPeak = dayTop, !.drawdownLocked = t, !.dayLocked = u]
           d == PeaksRaised(b, equity)
<1>1. d = LockSynced(e)
  BY DEF PeaksRaised
<1>2. IsBook(b) /\ Counts(config, b) /\ Money(b, 0, 0)
  BY DEF Sound
<1>3. top \in Nat /\ dayTop \in Int /\ t \in BOOLEAN /\ u \in BOOLEAN
  <2>1. b.peak \in Nat /\ b.dayPeak \in Int
    BY <1>2 DEF Counts
  <2>2. top \in Nat /\ dayTop \in Int
    BY <2>1 DEF Max2
  <2> QED  BY <2>2
<1> HIDE DEF d, top, dayTop, t, u
<1>4. /\ IsBook(e) /\ e.peak = top /\ e.dayPeak = dayTop /\ e.drawdownLocked = t
      /\ e.dayLocked = u /\ e.filledLocked = b.filledLocked /\ e.filled = b.filled
      /\ SameOrders(b, e) /\ SameMoney(b, e) /\ SameFills(b, e)
  BY <1>2, SetPeaks, Zenon
<1>5. e.locked = b.locked
  BY <1>2 DEF IsBook
<1> HIDE DEF e
<1>6. Money(e, 0, 0)
  BY <1>2, <1>4, MoneySame
<1>7. Counts(config, e)
  BY <1>2, <1>3, <1>4, <1>5 DEF Counts, SameOrders
<1>8. Sound(config, v, e, 0, 0)
  BY <1>4, <1>6, <1>7 DEF Sound, SameOrders, SameFills
<1>9. Sound(config, v, d, 0, 0) /\ Locks(d) /\ d.scanning = e.scanning /\ d.lots = e.lots
  BY <1>1, <1>8, LockSyncedSound
<1> QED  BY <1>4, <1>9 DEF d, SameOrders, SameMoney

LEMMA NewDayIs ==
    ASSUME config \in Config, NEW v \in OkBar, NEW b, Sound(config, v, b, 0, 0), ~b.scanning
    PROVE  LET d == NewDay(b, v)
           IN  Sound(config, v, d, 0, 0) /\ Locks(d) /\ ~d.scanning
<1> DEFINE t == FALSE
           n == 0
           hit == FilledHit(config, 0)
           b1 == [b EXCEPT !.dayLocked = t, !.filled = n, !.filledLocked = hit]
           b2 == Sync(b1, v)
           x == Equity(b2, v.close)
           b3 == [b2 EXCEPT !.dayPeak = x]
           d == LockSynced(b3)
<1>1. NewDay(b, v) = d
  BY DEF NewDay, PeakReset
<1>2. IsBook(b) /\ Counts(config, b) /\ Money(b, 0, 0)
  BY DEF Sound
<1>3. t \in BOOLEAN /\ hit \in BOOLEAN /\ n \in Nat /\ n <= 0 /\ MayFill(config) \in Nat /\ MayFill(config) > 0
  BY MayFillIs
<1>4. config.maxFilled # Unlimited => n <= MayFill(config) /\ n # MayFill(config)
  BY <1>3
<1> HIDE DEF t, n, hit
<1>5. /\ IsBook(b1) /\ b1.dayLocked = t /\ b1.filled = n /\ b1.filledLocked = hit
      /\ b1.drawdownLocked = b.drawdownLocked /\ b1.locked = b.locked
      /\ b1.peak = b.peak /\ b1.dayPeak = b.dayPeak
      /\ SameOrders(b, b1) /\ SameMoney(b, b1) /\ SameFills(b, b1)
  BY <1>2, SetDay, Zenon
<1> HIDE DEF b1
<1>6. Money(b1, 0, 0)
  BY <1>2, <1>5, MoneySame
<1>7. Counts(config, b1)
  BY <1>2, <1>3, <1>4, <1>5 DEF Counts, SameOrders
<1>8. Sound(config, v, b1, 0, 0)
  BY <1>5, <1>6, <1>7 DEF Sound, SameOrders, SameFills
<1>9. Sound(config, v, b2, 0, 0) /\ (b2 = b1 \/ Liquidated(b1, b2))
  BY <1>8, SyncSound
<1> HIDE DEF b2
<1>10. x \in Int
  <2>1. Money(b2, 0, 0) /\ v.close \in Int
    BY <1>9, BarIs DEF Sound
  <2> QED  BY <2>1, EquityIs
<1>11. b2.scanning = FALSE
  BY <1>2, <1>5, <1>9 DEF SameOrders, Liquidated, Counts
<1> HIDE DEF x
<1>12. /\ IsBook(b3) /\ b3.dayPeak = x /\ b3.peak = b2.peak /\ b3.filled = b2.filled
       /\ SameOrders(b2, b3) /\ SameMoney(b2, b3) /\ SameLocks(b2, b3) /\ SameFills(b2, b3)
  BY <1>9, SetDayPeak DEF Sound
<1> HIDE DEF b3
<1>13. Money(b3, 0, 0)
  BY <1>9, <1>12, MoneySame DEF Sound
<1>14. Sound(config, v, b3, 0, 0)
  BY <1>9, <1>10, <1>12, <1>13 DEF Sound, SameOrders, SameFills, SameLocks, Counts
<1>15. Sound(config, v, d, 0, 0) /\ Locks(d) /\ d.scanning = b3.scanning
  BY <1>14, LockSyncedSound
<1> QED  BY <1>1, <1>11, <1>12, <1>15 DEF SameOrders

-----------------------------------------------------------------------------
(* Submissions.                                                            *)

LEMMA WithoutIs ==
    ASSUME NEW c, NEW v, NEW b, Sound(c, v, b, 0, 0), ~b.scanning, NEW gone
    PROVE  LET d == Without(b, gone)
           IN  /\ Sound(c, v, d, 0, 0) /\ After(b, d) /\ ~d.scanning
               /\ SameMoney(b, d) /\ SameLocks(b, d)
               /\ \A u : MustLiquidate(d, u) <=> MustLiquidate(b, u)
<1> DEFINE s == Omitting(b.pending, gone)
           d == [b EXCEPT !.pending = s]
<1>1. Without(b, gone) = d
  BY DEF Without
<1>2. IsBook(b) /\ b.pending \in Seq(SoundOrder)
  BY DEF Sound
<1>3. s \in Seq(SoundOrder)
  BY <1>2, OmittingIs
<1> HIDE DEF s
<1>4. /\ IsBook(d) /\ d.pending = s /\ d.exits = b.exits /\ d.scanning = b.scanning
      /\ SameMoney(b, d) /\ SameLocks(b, d) /\ SameCounts(b, d) /\ SameFills(b, d)
  BY <1>2, SetPending
<1> HIDE DEF d
<1>5. /\ Sound(c, v, d, 0, 0)
      /\ \A u : MustLiquidate(d, u) <=> MustLiquidate(b, u)
  <2>1. d.fills \in Seq(SoundFill(c, v)) /\ d.pending \in Seq(SoundOrder)
        /\ d.exits \in Seq(Exits[c]) /\ d.scanning \in BOOLEAN
    BY <1>3, <1>4 DEF Sound, SameFills, Counts
  <2> QED  BY <1>4, <2>1, BooksMoved
<1>6. After(b, d)
  BY <1>4, AfterSame
<1> QED  BY <1>1, <1>4, <1>5, <1>6

LEMMA AddedIs ==
    ASSUME NEW c, NEW v, NEW b, Sound(c, v, b, 0, 0), ~b.scanning, NEW o \in SoundOrder
    PROVE  LET d == [b EXCEPT !.pending = Append(@, o)]
           IN  /\ Sound(c, v, d, 0, 0) /\ After(b, d) /\ ~d.scanning
               /\ SameMoney(b, d) /\ SameLocks(b, d)
               /\ \A u : MustLiquidate(d, u) <=> MustLiquidate(b, u)
<1> DEFINE s == Append(b.pending, o)
           d == [b EXCEPT !.pending = s]
<1>2. IsBook(b) /\ b.pending \in Seq(SoundOrder)
  BY DEF Sound
<1>3. s \in Seq(SoundOrder)
  BY <1>2
<1> HIDE DEF s
<1>4. /\ IsBook(d) /\ d.pending = s /\ d.exits = b.exits /\ d.scanning = b.scanning
      /\ SameMoney(b, d) /\ SameLocks(b, d) /\ SameCounts(b, d) /\ SameFills(b, d)
  BY <1>2, SetPending
<1> HIDE DEF d
<1>5. /\ Sound(c, v, d, 0, 0)
      /\ \A u : MustLiquidate(d, u) <=> MustLiquidate(b, u)
  <2>1. d.fills \in Seq(SoundFill(c, v)) /\ d.pending \in Seq(SoundOrder)
        /\ d.exits \in Seq(Exits[c]) /\ d.scanning \in BOOLEAN
    BY <1>3, <1>4 DEF Sound, SameFills, Counts
  <2> QED  BY <1>4, <2>1, BooksMoved
<1>6. After(b, d)
  BY <1>4, AfterSame
<1> QED  BY <1>4, <1>5, <1>6 DEF d, s

LEMMA LateOrder ==
    ASSUME NEW o \in SoundOrder
    PROVE  [o EXCEPT !.late = TRUE] \in SoundOrder
<1> DEFINE t == TRUE
           n == [o EXCEPT !.late = t]
<1>1. t \in BOOLEAN /\ n = [o EXCEPT !.late = TRUE]
  OBVIOUS
<1> HIDE DEF t
<1>2. /\ n \in Order /\ n.qty = o.qty /\ n.market = o.market
      /\ n.limit = o.limit /\ n.stop = o.stop /\ n.canceled = o.canceled
  BY <1>1 DEF SoundOrder, Order
<1> HIDE DEF n
<1>3. n \in SoundOrder
  BY <1>2 DEF SoundOrder
<1> QED  BY <1>1, <1>3

LEMMA LaterIs ==
    ASSUME config \in Config, bar \in OkBar, NEW b, Sound(config, bar, b, 0, 0), Locks(b), ~b.scanning,
           ~MustLiquidate(b, bar), NEW o \in SoundOrder
    PROVE  LET d == Later(b, o)
           IN  Sound(config, bar, d, 0, 0) /\ ~MustLiquidate(d, bar) /\ After(b, d)
<1> DEFINE a == Admission(b, o)
           crowded == PyramidRefused(config, o.side, a.size, a.count)
           group(p) == <<p.group, p.oca>>
           groups == {group(p) : p \in {q \in ToSet(b.pending) :
                         /\ o.kind = "order" /\ q.kind = "order" /\ q.id = o.id
                         /\ q.group # NoGroup /\ q.oca = "cancel" /\ group(q) # group(o)}}
           own == {p \in ToSet(b.pending) : p.kind = o.kind /\ p.id = o.id}
           gone == own \cup {p \in ToSet(b.pending) : group(p) \in groups}
           old == {p \in own : p.market}
           rest == Without(b, gone)
           late == [o EXCEPT !.late = TRUE]
           w == AtClose(bar)
           r == TryFill(rest, late, bar, w, 0)
           refused == o.kind = "entry" /\ (DirectionRefused(config, o.side) \/ crowded)
           drops == ~DirectionRefused(config, o.side) /\ ~o.market
           fewer == Without(b, old)
           entered == [rest EXCEPT !.pending = Append(@, late)]
           queued == [r.book EXCEPT !.pending = Append(@, r.order)]
           d == Later(b, o)
           Fine(e) == Sound(config, bar, e, 0, 0) /\ ~MustLiquidate(e, bar) /\ After(b, e)
<1>1. d = IF refused THEN IF drops THEN fewer ELSE b
          ELSE IF o.kind = "entry" THEN entered
          ELSE IF r.done THEN r.book
          ELSE queued
  BY DEF Later
<1>2. late \in SoundOrder
  BY LateOrder
<1>3. w \in OkBar /\ bar.low <= w.low /\ w.high <= bar.high
  BY BarIs
<1> HIDE DEF gone, old, late, w, refused, drops
<1>4. Fine(b)
  BY DEF After
<1>5. Fine(fewer)
  BY WithoutIs
<1>6. /\ Sound(config, bar, rest, 0, 0) /\ After(b, rest) /\ ~rest.scanning
      /\ SameMoney(b, rest) /\ SameLocks(b, rest) /\ ~MustLiquidate(rest, bar)
  BY WithoutIs
<1>7. Locks(rest)
  BY <1>6 DEF SameLocks, Locks
<1> HIDE DEF rest, fewer
<1>8. Fine(entered)
  <2>1. /\ Sound(config, bar, entered, 0, 0) /\ After(rest, entered)
        /\ SameLocks(rest, entered) /\ ~entered.scanning /\ ~MustLiquidate(entered, bar)
    BY <1>2, <1>6, AddedIs
  <2> HIDE DEF entered
  <2>2. SameLocks(b, entered)
    BY <1>6, <2>1 DEF SameLocks
  <2>3. After(b, entered)
    <3>1. entered.scanning = b.scanning
      BY <1>6, <2>1 DEF After
    <3> QED  BY <2>2, <3>1, AfterSame
  <2> QED  BY <2>1, <2>3
<1> HIDE DEF entered
<1>9. /\ Sound(config, bar, r.book, 0, 0) /\ After(rest, r.book)
      /\ ~r.done => r.order \in SoundOrder /\ r.order.qty > 0
      /\ ~MustLiquidate(r.book, bar) /\ (~r.done => r.book = rest)
  <2>1. 0 \in 0 .. Len(rest.pending)
    <3>1. Len(rest.pending) \in Nat
      BY <1>6 DEF Sound
    <3> QED  BY <3>1
  <2> DEFINE self == 0
  <2>2. self \in 0 .. Len(rest.pending) /\ self = 0
    BY <2>1
  <2> HIDE DEF self
  <2>3. LET t == TryFill(rest, late, bar, w, self)
        IN  /\ Sound(config, bar, t.book, 0, 0) /\ After(rest, t.book)
            /\ ~t.done => t.order \in SoundOrder /\ t.order.qty > 0
            /\ ~MustLiquidate(rest, bar) => ~MustLiquidate(t.book, bar) /\ (~t.done => t.book = rest)
            /\ rest.locked => t.book = rest
    BY <1>2, <1>3, <1>6, <1>7, <2>2, TryFillIs
  <2> QED  BY <1>6, <2>2, <2>3
<1> HIDE DEF r
<1>10. Fine(r.book)
  <2> DEFINE e == r.book
  <2>1. After(rest, e)
    BY <1>9
  <2> HIDE DEF e
  <2>2. After(b, e)
    BY <1>6, <2>1 DEF After, SameLocks, Locks
  <2> QED  BY <1>9, <2>2 DEF e
<1>11. ~r.done => Fine(queued)
  <2> SUFFICES ASSUME ~r.done  PROVE Fine(queued)
    OBVIOUS
  <2> DEFINE x == r.order
             e == [rest EXCEPT !.pending = Append(@, x)]
  <2>1. queued = e /\ x \in SoundOrder
    BY <1>9
  <2> HIDE DEF x, queued
  <2>2. /\ Sound(config, bar, e, 0, 0) /\ After(rest, e)
        /\ SameLocks(rest, e) /\ ~e.scanning /\ ~MustLiquidate(e, bar)
    BY <1>6, <2>1, AddedIs
  <2> HIDE DEF e
  <2>3. SameLocks(b, e)
    BY <1>6, <2>2 DEF SameLocks
  <2>4. After(b, e)
    <3>1. e.scanning = b.scanning
      BY <1>6, <2>2 DEF After
    <3> QED  BY <2>3, <3>1, AfterSame
  <2> QED  BY <2>1, <2>2, <2>4
<1> HIDE DEF d, queued
<1>12. Fine(d)
  <2> HIDE DEF Fine
  <2> QED  BY <1>1, <1>4, <1>5, <1>8, <1>10, <1>11
<1> QED  BY <1>12 DEF d

LEMMA SizedAtOnce ==
    ASSUME NEW o \in SoundOrder, NEW q \in Nat, q > 0
    PROVE  LET n == [o EXCEPT !.qty = q, !.left = q]
           IN  /\ n \in SoundOrder /\ n.qty = q /\ n.kind = o.kind /\ n.side = o.side
               /\ n.limit = o.limit /\ n.stop = o.stop
<1> DEFINE a == [o EXCEPT !.qty = q]
           n == [a EXCEPT !.left = q]
           Same(x) == /\ x.kind = o.kind /\ x.side = o.side /\ x.market = o.market
                      /\ x.limit = o.limit /\ x.stop = o.stop
<1>1. a \in Order /\ a.qty = q /\ Same(a)
  BY DEF SoundOrder, Order
<1> HIDE DEF a
<1>2. n \in Order /\ n.qty = q /\ Same(n)
  BY <1>1 DEF Order
<1>3. n = [o EXCEPT !.qty = q, !.left = q]
  BY DEF a
<1> HIDE DEF n
<1>4. n \in SoundOrder
  BY <1>2 DEF SoundOrder
<1> QED  BY <1>2, <1>3, <1>4

LEMMA ImmediateIs ==
    ASSUME config \in Config, bar \in OkBar, NEW b, Sound(config, bar, b, 0, 0), Locks(b), ~b.locked,
           ~MustLiquidate(b, bar), NEW o \in SoundOrder, o.qty > 0, ~IsLater(o)
    PROVE  LET d == Immediate(b, o)
           IN  Sound(config, bar, d, 0, 0) /\ ~MustLiquidate(d, bar) /\ After(b, d)
<1> DEFINE P == Position(b)
           refused == \/ DirectionRefused(config, o.side)
                      \/ PyramidRefused(config, o.side, P, Len(b.lots))
           q == IF o.kind = "entry" THEN Capped(config, o.side, P, o.qty) ELSE o.qty
           next == PositionAfter(o.kind, o.side, q, P)
           stays == o.kind = "entry" /\ (refused \/ q = 0)
           allowed == MarginAllows(b, bar, next, Slipped(config, o.price, o.side))
           sized == [o EXCEPT !.qty = q, !.left = q]
           price == o.price
           self == 0
           full == Filled(b, sized, bar, price, self)
           d == Immediate(b, o)
<1>1. d = IF stays THEN b ELSE IF ~allowed THEN b ELSE full
  BY DEF Immediate
<1>2. full = Executed(b, sized, bar, price, self)
  BY DEF Filled, Sync
<1>3. /\ o \in Order /\ o.qty \in Nat /\ o.side \in Side /\ price \in Nat
      /\ o.limit = NoPrice /\ o.stop = NoPrice
  BY OrderIs DEF SoundOrder, IsLater
<1>4. P = Held(b.lots) /\ P \in Int
  BY SumsAreTotals, LotSums DEF Sound, Money
<1> HIDE DEF P
<1>5. /\ q \in Nat
      /\ o.kind = "entry" /\ config.maxSize # Unlimited /\ q # 0
           => q <= config.maxSize - Max2(Sign(o.side) * P, 0)
  BY <1>3, <1>4, CappedIs
<1>6. self \in 0 .. Len(b.pending) /\ self = 0
  <2>1. Len(b.pending) \in Nat
    BY DEF Sound
  <2> QED  BY <2>1
<1>7. After(b, b)
  BY DEF After
<1> HIDE DEF refused, d, allowed, full, self, price
<1>8. CASE stays \/ ~allowed
  BY <1>1, <1>7, <1>8 DEF d
<1>9. CASE ~stays /\ allowed
  <2>1. d = full
    BY <1>1, <1>9
  <2>2. q > 0
    BY <1>3, <1>5, <1>9
  <2> HIDE DEF q
  <2>3. /\ sized \in SoundOrder /\ sized.qty = q /\ sized.kind = o.kind /\ sized.side = o.side
        /\ sized.limit = o.limit /\ sized.stop = o.stop
    BY <1>5, <2>2, SizedAtOnce
  <2> HIDE DEF sized
  <2>4. sized \in Order /\ sized.qty > 0
    BY <2>2, <2>3 DEF SoundOrder
  <2>5. Due(config, bar, sized, price)
    BY <1>3, <2>3 DEF Due
  <2>6. Room(config, sized, Held(b.lots))
    BY <1>4, <1>5, <2>2, <2>3 DEF Room
  <2>7. config.maxFilled # Unlimited => b.filled < MayFill(config)
    BY UnlockedHasRoom
  <2>8. Sound(config, bar, full, 0, 0) /\ ~MustLiquidate(full, bar) /\ After(b, full)
    BY <1>2, <1>6, <2>4, <2>5, <2>6, <2>7, ExecutedIs
  <2> QED  BY <2>1, <2>8 DEF d
<1> QED  BY <1>8, <1>9

-----------------------------------------------------------------------------
(* The inductive invariant.                                                *)

AccountInv ==
    /\ config \in Configs /\ bar \in Bars[config] \cup {NoBar}
    /\ now \in 0 .. MaxBars[config]
    /\ running \in BOOLEAN /\ calls \in 0 .. MaxCalls[config]
    /\ Sound(config, bar, book, 0, 0) /\ Locks(book) /\ ~book.scanning

LEMMA ConstantsAre ==
    ASSUME config \in Configs
    PROVE  /\ config \in Config /\ MaxBars[config] \in Nat /\ MaxCalls[config] \in Nat
           /\ \A v \in Bars[config] : v \in OkBar
           /\ \A s \in Submissions[config] : s \in Submission
           /\ NoBar \in OkBar
<1>1. config \in Config /\ MaxBars[config] \in Nat /\ MaxCalls[config] \in Nat
  BY ConstantsAssumption
<1>2. \A v \in Bars[config] : v \in OkBar
  BY ConstantsAssumption DEF OkBar
<1>3. \A s \in Submissions[config] : s \in Submission
  BY ConstantsAssumption
<1>4. NoBar \in OkBar
  BY DEF NoBar, OkBar, Bar
<1> QED  BY <1>1, <1>2, <1>3, <1>4

LEMMA InvIs ==
    ASSUME AccountInv
    PROVE  /\ config \in Configs /\ config \in Config /\ bar \in OkBar /\ now \in Nat
           /\ Sound(config, bar, book, 0, 0) /\ Locks(book) /\ ~book.scanning
BY ConstantsAre DEF AccountInv

LEMMA FreshIs ==
    ASSUME AccountInv, NEW w
    PROVE  /\ Sound(config, w, Fresh, 0, 0) /\ Locks(Fresh) /\ ~Fresh.scanning
           /\ SameMoney(book, Fresh) /\ SameLocks(book, Fresh) /\ SameOrders(book, Fresh)
           /\ After(book, Fresh)
           /\ \A u : MustLiquidate(Fresh, u) <=> MustLiquidate(book, u)
<1> DEFINE f == << >>
           d == [book EXCEPT !.fills = f]
<1>1. Fresh = d
  BY DEF Fresh
<1>2. f \in Seq(SoundFill(config, w))
  OBVIOUS
<1>3. Sound(config, bar, book, 0, 0) /\ Locks(book) /\ ~book.scanning /\ IsBook(book)
  BY InvIs DEF Sound
<1> HIDE DEF f
<1>4. /\ IsBook(d) /\ d.fills = f
      /\ SameOrders(book, d) /\ SameMoney(book, d) /\ SameLocks(book, d) /\ SameCounts(book, d)
  BY <1>3, SetFills
<1> HIDE DEF d
<1>5. Money(d, 0, 0)
  BY <1>3, <1>4, MoneySame DEF Sound
<1>6. Sound(config, w, d, 0, 0)
  BY <1>2, <1>3, <1>4, <1>5 DEF Sound, SameOrders, SameLocks, SameCounts, Counts
<1>7. After(book, d)
  BY <1>3, <1>4, AfterSame DEF SameOrders
<1>8. Locks(d) /\ ~d.scanning
  BY <1>3, <1>7 DEF After
<1>9. \A u : MustLiquidate(d, u) <=> MustLiquidate(book, u)
  BY <1>4, MustSame DEF SameCounts
<1> QED  BY <1>1, <1>4, <1>6, <1>7, <1>8, <1>9

-----------------------------------------------------------------------------
(* What a call of the script makes of the books.                           *)

Called(d) ==
    /\ Sound(config, bar, d, 0, 0) /\ Locks(d) /\ ~d.scanning /\ After(book, d)
    /\ book.locked => Shrinks(book, d)

LEMMA CallsMade ==
    ASSUME AccountInv, NEW d, Sound(config, bar, d, 0, 0), After(book, d),
           book.locked => Shrinks(book, d)
    PROVE  Called(d)
BY InvIs DEF Called, After

LEMMA FreshCalled ==
    ASSUME AccountInv
    PROVE  Called(Fresh)
<1>1. Sound(config, bar, Fresh, 0, 0) /\ After(book, Fresh) /\ SameMoney(book, Fresh)
  BY FreshIs
<1>2. Held(book.lots) \in Int
  BY InvIs, HeldIs
<1>3. Shrinks(book, Fresh)
  BY <1>1, <1>2, ShrinksSame DEF SameMoney
<1> QED  BY <1>1, <1>3, CallsMade

LEMMA SyncCalled ==
    ASSUME AccountInv, NEW b, Called(b)
    PROVE  LET d == Sync(b, bar)
           IN  /\ Called(d) /\ ~MustLiquidate(d, bar) /\ (d = b \/ Liquidated(b, d))
<1> DEFINE d == Sync(b, bar)
<1>1. config \in Config /\ bar \in OkBar /\ Held(book.lots) \in Int
  BY InvIs, HeldIs
<1>2. Sound(config, bar, b, 0, 0) /\ After(book, b)
  BY DEF Called
<1>3. Sound(config, bar, d, 0, 0) /\ ~MustLiquidate(d, bar) /\ (d = b \/ Liquidated(b, d))
  BY <1>1, <1>2, SyncSound
<1> HIDE DEF d
<1>4. Calm(b, d)
  <2>1. b.pending \in Seq(SoundOrder)
    BY <1>2 DEF Sound
  <2> QED  BY <1>3, <2>1, SyncIsCalm
<1>5. After(book, d)
  BY <1>2, <1>4, AfterCalm
<1>6. book.locked => Shrinks(book, d)
  <2>1. Held(b.lots) \in Int /\ Held(d.lots) \in Int
    BY <1>2, <1>3, HeldIs
  <2>2. Shrinks(b, d)
    BY <1>3, <2>1, ShrinksSame DEF Liquidated
  <2>3. ASSUME book.locked  PROVE Shrinks(book, d)
    <3>1. Shrinks(book, b)
      BY <2>3 DEF Called
    <3> QED  BY <1>1, <2>1, <2>2, <3>1, ShrinksOn
  <2> QED  BY <2>3
<1>7. Called(d)
  BY <1>3, <1>5, <1>6, CallsMade
<1> QED  BY <1>3, <1>7 DEF d

LEMMA ReadIs ==
    ASSUME AccountInv
    PROVE  LET d == Sync(Fresh, bar)
           IN  /\ Called(d) /\ ~MustLiquidate(d, bar) /\ (d = Fresh \/ Liquidated(Fresh, d))
BY FreshCalled, SyncCalled

LEMMA OrderOfIs ==
    ASSUME AccountInv, NEW s \in Submissions[config]
    PROVE  OrderOf(s) \in SoundOrder /\ OrderOf(s).qty > 0
<1> DEFINE market == s.kind = "entry" /\ config.onClose /\ s.limit = NoPrice /\ s.stop = NoPrice
           price == bar.close
           o == [kind |-> s.kind, id |-> s.id, side |-> s.side, qty |-> s.qty, want |-> s.qty,
                 left |-> s.qty, limit |-> s.limit, stop |-> s.stop, group |-> s.group,
                 oca |-> s.oca, market |-> market, late |-> FALSE, canceled |-> FALSE,
                 armed |-> FALSE, price |-> price, time |-> now]
<1>1. OrderOf(s) = o
  BY DEF OrderOf
<1>2. s \in Submission /\ config \in Config /\ bar \in OkBar /\ now \in Nat
  BY InvIs, ConstantsAre
<1>3. market \in BOOLEAN /\ price \in Nat
  <2>1. config.onClose \in BOOLEAN
    BY <1>2 DEF Config
  <2>2. market \in BOOLEAN
    BY <2>1
  <2> QED  BY <1>2, <2>2, BarIs
<1>4. market => s.limit = NoPrice /\ s.stop = NoPrice
  OBVIOUS
<1>5. /\ s.kind \in {"entry", "order"} /\ s.id \in Ids /\ s.side \in Side /\ s.qty \in Nat \ {0}
      /\ s.limit \in Nat \cup {NoPrice} /\ s.stop \in Nat \cup {NoPrice}
      /\ s.group \in Groups \cup {NoGroup} /\ s.oca \in {"none", "cancel", "reduce"}
  BY <1>2 DEF Submission
<1> HIDE DEF market, price
<1>6. o \in Order
  BY <1>2, <1>3, <1>5 DEF Order
<1>7. o.market = market /\ o.limit = s.limit /\ o.stop = s.stop /\ o.qty = s.qty
  OBVIOUS
<1> HIDE DEF o
<1>8. o \in SoundOrder /\ o.qty > 0
  BY <1>4, <1>5, <1>6, <1>7 DEF SoundOrder
<1> QED  BY <1>1, <1>8

LEMMA SubmitIs ==
    ASSUME AccountInv, NEW o \in SoundOrder, o.qty > 0
    PROVE  LET b == Sync(Fresh, bar)
               d == IF b.locked THEN b ELSE IF IsLater(o) THEN Later(b, o) ELSE Immediate(b, o)
           IN  Called(d) /\ ~MustLiquidate(d, bar)
<1> DEFINE b == Sync(Fresh, bar)
           d == IF IsLater(o) THEN Later(b, o) ELSE Immediate(b, o)
<1>1. Called(b) /\ ~MustLiquidate(b, bar)
  BY ReadIs
<1>2. config \in Config /\ bar \in OkBar /\ Locks(book)
  BY InvIs
<1> HIDE DEF b
<1>3. CASE b.locked
  BY <1>1, <1>3 DEF b
<1>4. CASE ~b.locked
  <2>1. Sound(config, bar, b, 0, 0) /\ Locks(b) /\ ~b.scanning /\ After(book, b)
    BY <1>1 DEF Called
  <2>2. Sound(config, bar, d, 0, 0) /\ ~MustLiquidate(d, bar) /\ After(b, d)
    <3>1. CASE IsLater(o)
      <4>1. d = Later(b, o)
        BY <3>1
      <4> HIDE DEF d
      <4> QED  BY <1>1, <1>2, <2>1, <4>1, LaterIs
    <3>2. CASE ~IsLater(o)
      <4>1. d = Immediate(b, o)
        BY <3>2
      <4> HIDE DEF d
      <4> QED  BY <1>1, <1>2, <1>4, <2>1, <3>2, <4>1, ImmediateIs
    <3> QED  BY <3>1, <3>2
  <2> HIDE DEF d
  <2>3. ~book.locked
    BY <1>2, <1>4, <2>1, LockedStays
  <2>4. After(book, d)
    BY <1>4, <2>1, <2>2 DEF After, Locks
  <2>5. Called(d)
    BY <2>2, <2>3, <2>4, CallsMade
  <2> QED  BY <1>4, <2>2, <2>5 DEF b, d
<1> QED  BY <1>3, <1>4

LEMMA CloseIs ==
    ASSUME AccountInv, NEW id, NEW q \in Nat \cup {NoQty}
    PROVE  LET target == TargetQty(book, id)
               b == Sync(Fresh, bar)
               fill == Min2(Min2(target, Size(Position(b))), Requested(target, q))
               d == IF book.lots = << >> THEN Fresh
                    ELSE IF fill = 0 THEN b
                    ELSE Sync(Sold(b, id, fill, bar.close), bar)
           IN  Called(d) /\ ~MustLiquidate(d, bar)
<1> DEFINE target == TargetQty(book, id)
           b == Sync(Fresh, bar)
           P == Position(b)
           want == Requested(target, q)
           fill == Min2(Min2(target, Size(P)), want)
           price == bar.close
           sold == Sold(b, id, fill, price)
           d == IF book.lots = << >> THEN Fresh
                ELSE IF fill = 0 THEN b
                ELSE Sync(sold, bar)
<1>1. Called(b) /\ ~MustLiquidate(b, bar) /\ (b = Fresh \/ Liquidated(Fresh, b))
  BY ReadIs
<1>2. Called(Fresh) /\ SameMoney(book, Fresh) /\ config \in Config /\ bar \in OkBar /\ price \in Int
  BY FreshCalled, FreshIs, InvIs, BarIs
<1>3. Sound(config, bar, b, 0, 0) /\ After(book, b)
  BY <1>1 DEF Called
<1>4. IsBook(b) /\ Money(b, 0, 0) /\ b.lots \in Seq(Lot) /\ Sided(b.lots)
  BY <1>3 DEF Sound, Money
<1> HIDE DEF b
<1>5. /\ P = Held(b.lots) /\ P \in Int /\ Size(P) \in Nat /\ (b.lots = << >> => P = 0)
  <2>1. P = Held(b.lots)
    BY SumsAreTotals
  <2> HIDE DEF P
  <2> QED  BY <1>4, <2>1, SidedIs
<1>6. target = Owned(book.lots, id) /\ target \in Nat
  <2>1. book.lots \in Seq(Lot) /\ Sided(book.lots)
    BY InvIs DEF Sound, Money
  <2>2. target = Owned(book.lots, id)
    BY SumsAreTotals
  <2> HIDE DEF target
  <2> QED  BY <2>1, <2>2, SidedIs
<1>7. want \in Nat
  <2> HIDE DEF target
  <2> QED  BY <1>6 DEF Requested
<1> HIDE DEF P, target, want
<1>8. /\ fill \in Nat /\ fill <= target /\ fill <= Size(P)
      /\ P = 0 => fill = 0
  <2>1. P = 0 => Size(P) = 0
    BY DEF Size, Max2
  <2> QED  BY <1>5, <1>6, <1>7, <2>1 DEF Min2
<1> HIDE DEF fill, price
<1>9. CASE book.lots = << >>
  <2>1. d = Fresh /\ Fresh.lots = << >>
    BY <1>2, <1>9 DEF SameMoney
  <2>2. ~MustLiquidate(Fresh, bar)
    BY <2>1, NothingToLose
  <2> HIDE DEF d
  <2>3. Called(d) /\ ~MustLiquidate(d, bar)
    BY <1>2, <2>1, <2>2
  <2> QED  BY <2>3 DEF d, sold, fill, target, P, want, b, price
<1>10. CASE book.lots # << >> /\ fill = 0
  <2>1. d = b
    BY <1>10
  <2> HIDE DEF d
  <2>2. Called(d) /\ ~MustLiquidate(d, bar)
    BY <1>1, <2>1
  <2> QED  BY <2>2 DEF d, sold, fill, target, P, want, b, price
<1>11. CASE book.lots # << >> /\ fill # 0
  <2>1. d = Sync(sold, bar)
    BY <1>11
  <2>2. b = Fresh /\ b.lots = book.lots
    BY <1>1, <1>2, <1>5, <1>8, <1>11 DEF Liquidated, SameMoney
  <2>3. /\ fill \in Nat \ {0} /\ fill <= Owned(b.lots, id) /\ Held(b.lots) # 0
    BY <1>5, <1>6, <1>8, <1>11, <2>2
  <2>4. /\ IsBook(sold)
        /\ SameOrders(b, sold) /\ SameLocks(b, sold) /\ SameCounts(b, sold) /\ SameFills(b, sold)
        /\ Money(sold, 0, 0)
        /\ Held(sold.lots) = Held(b.lots) - Way(b.lots) * fill
    BY <1>2, <1>4, <2>3, SoldIs
  <2> HIDE DEF d, sold
  <2>5. Sound(config, bar, sold, 0, 0)
    BY <1>3, <2>4, SteadySound DEF Steady
  <2>6. Calm(b, sold)
    <3>1. After(b, sold)
      BY <2>4, AfterSame DEF SameOrders
    <3>2. b.lots # << >>
      BY <1>11, <2>2
    <3> QED  BY <3>1, <3>2 DEF Calm, Empty
  <2>7. After(book, sold)
    BY <1>3, <2>6, AfterCalm
  <2>8. Shrinks(book, sold)
    <3> DEFINE h == Held(b.lots)
               k == Held(sold.lots)
    <3>1. h \in Int /\ h # 0 /\ fill \in Nat /\ fill <= Size(h) /\ k = h - Way(b.lots) * fill
      BY <1>5, <1>8, <2>3, <2>4
    <3>2. Way(b.lots) = IF h > 0 THEN 1 ELSE -1
      BY DEF Way
    <3> HIDE DEF h, k
    <3>3. /\ h >= 0 => 0 <= k /\ k <= h
          /\ h <= 0 => h <= k /\ k <= 0
      <4>1. CASE h > 0
        BY <3>1, <3>2, <4>1 DEF Size, Max2
      <4>2. CASE h < 0
        BY <3>1, <3>2, <4>2 DEF Size, Max2
      <4> QED  BY <3>1, <4>1, <4>2
    <3> QED  BY <2>2, <3>3 DEF h, k, Shrinks
  <2>9. Called(sold)
    BY <2>5, <2>7, <2>8, CallsMade
  <2>10. Called(d) /\ ~MustLiquidate(d, bar)
    BY <2>1, <2>9, SyncCalled
  <2> QED  BY <2>10 DEF d, sold, fill, target, P, want, b, price
<1> QED  BY <1>9, <1>10, <1>11

LEMMA ExitsSet ==
    ASSUME NEW c, NEW v, NEW b, Sound(c, v, b, 0, 0), ~b.scanning, NEW s \in Seq(Exits[c])
    PROVE  LET d == [b EXCEPT !.exits = s]
           IN  /\ Sound(c, v, d, 0, 0) /\ d.exits = s /\ d.pending = b.pending
               /\ After(b, d) /\ SameMoney(b, d)
               /\ \A u : MustLiquidate(d, u) <=> MustLiquidate(b, u)
<1> DEFINE d == [b EXCEPT !.exits = s]
<1>1. IsBook(b)
  BY DEF Sound
<1>2. /\ IsBook(d) /\ d.exits = s /\ d.pending = b.pending /\ d.scanning = b.scanning
      /\ SameMoney(b, d) /\ SameLocks(b, d) /\ SameCounts(b, d) /\ SameFills(b, d)
  BY <1>1, SetExits
<1> HIDE DEF d
<1>3. /\ Sound(c, v, d, 0, 0)
      /\ \A u : MustLiquidate(d, u) <=> MustLiquidate(b, u)
  <2>1. d.fills \in Seq(SoundFill(c, v)) /\ d.pending \in Seq(SoundOrder)
        /\ d.exits \in Seq(Exits[c]) /\ d.scanning \in BOOLEAN
    BY <1>2 DEF Sound, SameFills, Counts
  <2> QED  BY <1>2, <2>1, BooksMoved
<1>4. After(b, d)
  BY <1>2, AfterSame
<1> QED  BY <1>2, <1>3, <1>4 DEF d

LEMMA ExitIs ==
    ASSUME AccountInv, NEW x \in Exits[config]
    PROVE  LET same(y) == y.id = x.id /\ y.from = x.from
               known == \E i \in DOMAIN book.exits : same(book.exits[i])
               upserted == [Fresh EXCEPT !.exits =
                              IF known THEN [i \in DOMAIN @ |-> IF same(@[i]) THEN x ELSE @[i]]
                              ELSE Append(@, x)]
               r == TryExit(upserted, x, bar)
               d == IF r.done
                    THEN [r.book EXCEPT !.exits = Omitting(@, {y \in ToSet(@) : same(y)})]
                    ELSE r.book
           IN  Called(d) /\ ~MustLiquidate(d, bar)
<1> DEFINE T == Exits[config]
           same(y) == y.id = x.id /\ y.from = x.from
           known == \E i \in DOMAIN book.exits : same(book.exits[i])
           s == IF known THEN [i \in DOMAIN Fresh.exits |->
                                 IF same(Fresh.exits[i]) THEN x ELSE Fresh.exits[i]]
                ELSE Append(Fresh.exits, x)
           upserted == [Fresh EXCEPT !.exits = s]
           r == TryExit(upserted, x, bar)
           e == r.book
           gone == {y \in ToSet(e.exits) : same(y)}
           fewer == Omitting(e.exits, gone)
           left == [e EXCEPT !.exits = fewer]
           d == IF r.done THEN left ELSE e
<1>1. config \in Config /\ bar \in OkBar /\ IsExit(x) /\ Held(book.lots) \in Int
  BY InvIs, ExitsAre, HeldIs
<1>2. /\ Sound(config, bar, Fresh, 0, 0) /\ ~Fresh.scanning
      /\ SameMoney(book, Fresh) /\ SameLocks(book, Fresh) /\ After(book, Fresh)
  BY FreshIs
<1>3. s \in Seq(T)
  <2> DEFINE y == Fresh.exits
  <2>1. y \in Seq(T) /\ x \in T
    BY <1>2 DEF Sound
  <2> HIDE DEF T, known
  <2>2. DOMAIN y = 1 .. Len(y) /\ Len(y) \in Nat /\ \A i \in 1 .. Len(y) : y[i] \in T
    BY <2>1
  <2>3. [i \in DOMAIN y |-> IF same(y[i]) THEN x ELSE y[i]] \in Seq(T)
    BY <2>1, <2>2
  <2>4. Append(y, x) \in Seq(T)
    BY <2>1
  <2> QED  BY <2>3, <2>4
<1> HIDE DEF s
<1>4. /\ Sound(config, bar, upserted, 0, 0) /\ After(Fresh, upserted) /\ SameMoney(Fresh, upserted)
  BY <1>2, <1>3, ExitsSet
<1> HIDE DEF upserted
<1>5. /\ Sound(config, bar, e, 0, 0) /\ ~MustLiquidate(e, bar)
      /\ Calm(upserted, e) /\ Shrinks(upserted, e)
  BY <1>1, <1>4, TryExitIs
<1> HIDE DEF r
<1>6. After(book, upserted) /\ ~upserted.scanning
  BY <1>2, <1>4 DEF After, SameLocks, Locks
<1>7. After(book, e) /\ ~e.scanning
  <2> HIDE DEF e
  <2>1. After(book, e)
    BY <1>5, <1>6, AfterCalm
  <2> QED  BY <1>5, <1>6, <2>1 DEF Calm, After
<1>8. Shrinks(book, e)
  <2> HIDE DEF e
  <2>1. upserted.lots = book.lots
    BY <1>2, <1>4 DEF SameMoney
  <2> QED  BY <1>5, <2>1 DEF Shrinks
<1>9. Called(e)
  <2> HIDE DEF e
  <2> QED  BY <1>5, <1>7, <1>8, CallsMade
<1> HIDE DEF gone
<1>10. fewer \in Seq(T) /\ (e.exits = << >> => fewer = << >>)
  <2> DEFINE y == e.exits
  <2>1. y \in Seq(T)
    BY <1>5 DEF Sound
  <2> HIDE DEF y, T
  <2>2. Omitting(y, gone) \in Seq(T) /\ (y = << >> => Omitting(y, gone) = << >>)
    BY <2>1, OmittingIs
  <2> QED  BY <2>2 DEF y
<1> HIDE DEF e, fewer
<1>11. /\ Sound(config, bar, left, 0, 0) /\ left.exits = fewer /\ left.pending = e.pending
       /\ After(e, left) /\ SameMoney(e, left) /\ ~MustLiquidate(left, bar)
  <2>1. Sound(config, bar, e, 0, 0) /\ ~MustLiquidate(e, bar)
    BY <1>5 DEF e
  <2> QED  BY <1>7, <1>10, <2>1, ExitsSet
<1> HIDE DEF left
<1>12. Calm(e, left)
  BY <1>10, <1>11 DEF Calm, Empty, SameMoney
<1>13. After(book, left)
  BY <1>7, <1>12, AfterCalm
<1>14. Shrinks(book, left)
  BY <1>8, <1>11 DEF Shrinks, SameMoney
<1>15. Called(left)
  BY <1>11, <1>13, <1>14, CallsMade
<1>16. Called(d) /\ ~MustLiquidate(d, bar)
  <2>1. d = left \/ d = e
    OBVIOUS
  <2>2. ~MustLiquidate(e, bar)
    BY <1>5 DEF e
  <2> HIDE DEF d
  <2> QED  BY <1>9, <1>11, <1>15, <2>1, <2>2
<1> QED  BY <1>16 DEF d, left, fewer, gone, e, r, upserted, s

LEMMA CancelIs ==
    ASSUME AccountInv, NEW gone
    PROVE  LET b == Without(Fresh, gone)
           IN  Called(IF b.pending = book.pending THEN b ELSE Sync(b, bar))
<1> DEFINE b == Without(Fresh, gone)
<1>1. /\ Sound(config, bar, Fresh, 0, 0) /\ ~Fresh.scanning
      /\ SameMoney(book, Fresh) /\ SameLocks(book, Fresh) /\ After(book, Fresh)
  BY FreshIs
<1>2. /\ Sound(config, bar, b, 0, 0) /\ After(Fresh, b)
      /\ SameMoney(Fresh, b) /\ SameLocks(Fresh, b)
  BY <1>1, WithoutIs
<1> HIDE DEF b
<1>3. After(book, b)
  BY <1>1, <1>2 DEF After, SameLocks, Locks
<1>4. Shrinks(book, b)
  <2>1. Held(book.lots) \in Int /\ b.lots = book.lots
    BY <1>1, <1>2, InvIs, HeldIs DEF SameMoney
  <2> QED  BY <2>1, ShrinksSame
<1>5. Called(b)
  BY <1>2, <1>3, <1>4, CallsMade
<1>6. Called(Sync(b, bar))
  BY <1>5, SyncCalled
<1> QED  BY <1>5, <1>6 DEF b

-----------------------------------------------------------------------------
(* Bars.                                                                   *)

LEMMA BeginBarIs ==
    ASSUME AccountInv, NEW v \in Bars[config]
    PROVE  LET day == IF v.first THEN NewDay(Fresh, v) ELSE Fresh
               d == ExitsScanned(Scanned(day, DOMAIN day.pending, v, v), v)
           IN  /\ Sound(config, v, d, 0, 0) /\ Locks(d) /\ ~d.scanning
               /\ book.locked /\ ~v.first => Shrinks(book, d)
<1> DEFINE day == IF v.first THEN NewDay(Fresh, v) ELSE Fresh
           due == DOMAIN day.pending
           e == Scanned(day, due, v, v)
           d == ExitsScanned(e, v)
<1>1. config \in Config /\ config \in Configs /\ v \in OkBar /\ v.low <= v.low /\ v.high <= v.high
  BY InvIs, ConstantsAre, BarIs
<1>2. /\ Sound(config, v, Fresh, 0, 0) /\ Locks(Fresh) /\ ~Fresh.scanning
      /\ SameMoney(book, Fresh) /\ SameLocks(book, Fresh)
  BY FreshIs
<1>3. Sound(config, v, day, 0, 0) /\ Locks(day) /\ ~day.scanning
  <2>1. CASE v.first
    <3>1. day = NewDay(Fresh, v)
      BY <2>1
    <3> HIDE DEF day
    <3> QED  BY <1>1, <1>2, <3>1, NewDayIs
  <2>2. CASE ~v.first
    BY <1>2, <2>2
  <2> QED  BY <2>1, <2>2
<1>4. ~v.first => day = Fresh
  OBVIOUS
<1> HIDE DEF day, due
<1>5. Sound(config, v, e, 0, 0) /\ Locks(e) /\ ~e.scanning /\ Frozen(day, e)
  BY <1>1, <1>3, ScannedIs
<1> HIDE DEF e
<1>6. /\ Sound(config, v, d, 0, 0) /\ Locks(d) /\ ~d.scanning
      /\ Shrinks(e, d)
  BY <1>1, <1>5, ExitsScannedIs
<1> HIDE DEF d
<1>7. book.locked /\ ~v.first => Shrinks(book, d)
  <2> SUFFICES ASSUME book.locked, ~v.first  PROVE Shrinks(book, d)
    OBVIOUS
  <2>1. day = Fresh /\ Fresh.locked /\ Fresh.lots = book.lots
    BY <1>2, <1>4 DEF SameLocks, SameMoney
  <2>2. e.lots = book.lots
    BY <1>5, <2>1 DEF Frozen, SameMoney
  <2> QED  BY <1>6, <2>2 DEF Shrinks
<1> QED  BY <1>6, <1>7 DEF d, e, due, day

LEMMA EndBarIs ==
    ASSUME AccountInv, NEW own
    PROVE  LET d == Evening(Sync(Scanned(Fresh, own, bar, AtClose(bar)), bar))
           IN  /\ Sound(config, bar, d, 0, 0) /\ Locks(d) /\ ~d.scanning
               /\ book.locked => Shrinks(book, d)
<1> DEFINE w == AtClose(bar)
           a == Scanned(Fresh, own, bar, w)
           e == Sync(a, bar)
           equity == Equity(e, bar.close)
           d == PeaksRaised(e, equity)
<1>1. config \in Config /\ bar \in OkBar /\ w \in OkBar /\ bar.low <= w.low /\ w.high <= bar.high
      /\ bar.close \in Int
  BY InvIs, BarIs
<1>2. /\ Sound(config, bar, Fresh, 0, 0) /\ Locks(Fresh) /\ ~Fresh.scanning
      /\ SameMoney(book, Fresh) /\ SameLocks(book, Fresh)
  BY FreshIs
<1>3. Evening(e) = d
  BY DEF Evening
<1> HIDE DEF w
<1>4. Sound(config, bar, a, 0, 0) /\ Locks(a) /\ ~a.scanning /\ Frozen(Fresh, a)
  BY <1>1, <1>2, ScannedIs
<1> HIDE DEF a
<1>5. Sound(config, bar, e, 0, 0) /\ (e = a \/ Liquidated(a, e))
  BY <1>1, <1>4, SyncSound
<1> HIDE DEF e
<1>6. equity \in Int /\ e.scanning = a.scanning
  <2>1. Money(e, 0, 0)
    BY <1>5 DEF Sound
  <2>2. equity \in Int
    BY <1>1, <2>1, EquityIs
  <2> QED  BY <1>5, <2>2 DEF Liquidated
<1> HIDE DEF equity
<1>7. Sound(config, bar, d, 0, 0) /\ Locks(d) /\ d.scanning = e.scanning /\ d.lots = e.lots
  BY <1>1, <1>5, <1>6, PeaksRaisedIs
<1> HIDE DEF d
<1>8. book.locked => Shrinks(book, d)
  <2> SUFFICES ASSUME book.locked  PROVE Shrinks(book, d)
    OBVIOUS
  <2>1. a.lots = book.lots
    BY <1>2, <1>4 DEF Frozen, SameLocks, SameMoney
  <2>2. d.lots = book.lots \/ d.lots = << >>
    BY <1>5, <1>7, <2>1 DEF Liquidated
  <2>3. Held(book.lots) \in Int
    BY InvIs, HeldIs
  <2> QED  BY <2>2, <2>3, ShrinksSame
<1> QED  BY <1>3, <1>4, <1>6, <1>7, <1>8 DEF e, a, w

-----------------------------------------------------------------------------
(* The invariant holds at first and is kept by every step.                 *)

LEMMA InitIsSound == Init => AccountInv
<1> SUFFICES ASSUME Init  PROVE AccountInv
  OBVIOUS
<1> DEFINE capital == config.capital
           f == FALSE
           b == [pending |-> << >>, exits |-> << >>, lots |-> << >>, won |-> 0, lost |-> 0,
                 fees |-> 0, peak |-> capital, dayPeak |-> capital, filled |-> 0,
                 drawdownLocked |-> f, dayLocked |-> f, filledLocked |-> f, locked |-> f,
                 scanning |-> f, cash |-> 0, settled |-> 0, fills |-> << >>]
<1>1. /\ config \in Configs /\ bar = NoBar /\ now = 0 /\ running = FALSE /\ calls = 0
      /\ book = b
  BY DEF Init, NewBook
<1>2. config \in Config /\ MaxBars[config] \in Nat /\ MaxCalls[config] \in Nat
  BY <1>1, ConstantsAre
<1>3. capital \in Nat /\ f \in BOOLEAN /\ ~f
  BY <1>2, ConfigIs
<1>4. MayFill(config) \in Nat /\ MayFill(config) > 0
  BY <1>2, MayFillIs
<1> HIDE DEF capital, f
<1>5. /\ b.pending = << >> /\ b.exits = << >> /\ b.lots = << >> /\ b.fills = << >>
      /\ b.won = 0 /\ b.lost = 0 /\ b.fees = 0 /\ b.cash = 0 /\ b.settled = 0 /\ b.filled = 0
      /\ b.peak = capital /\ b.dayPeak = capital
  OBVIOUS
<1>6. /\ b.drawdownLocked = f /\ b.dayLocked = f /\ b.filledLocked = f /\ b.locked = f
      /\ b.scanning = f
  OBVIOUS
<1>7. IsBook(b)
  BY DEF IsBook
<1> HIDE DEF b
<1>8. Money(b, 0, 0)
  <2>1. << >> \in Seq(Lot)
    OBVIOUS
  <2>2. Sided(<< >>)
    <3>1. OfSide(<< >>, "long") /\ "long" \in Side
      BY DEF OfSide, Side
    <3> QED  BY <3>1 DEF Sided
  <2>3. Worth(b) - b.cash = 0 /\ b.fees - Charged(b) = 0
    BY <1>5, NoLots DEF Worth, Charged
  <2> QED  BY <1>5, <2>1, <2>2, <2>3 DEF Money
<1>9. Counts(config, b)
  BY <1>3, <1>4, <1>5, <1>6 DEF Counts
<1>10. Sound(config, bar, b, 0, 0)
  <2>1. << >> \in Seq(SoundOrder) /\ << >> \in Seq(Exits[config])
        /\ << >> \in Seq(SoundFill(config, bar))
    OBVIOUS
  <2> QED  BY <1>5, <1>7, <1>8, <1>9, <2>1 DEF Sound
<1>11. Locks(b) /\ ~b.scanning
  BY <1>3, <1>6 DEF Locks
<1>12. /\ bar \in Bars[config] \cup {NoBar} /\ now \in 0 .. MaxBars[config]
       /\ running \in BOOLEAN /\ calls \in 0 .. MaxCalls[config]
  <2>1. 0 \in 0 .. MaxBars[config] /\ 0 \in 0 .. MaxCalls[config]
    BY <1>2
  <2>2. NoBar \in Bars[config] \cup {NoBar} /\ FALSE \in BOOLEAN
    OBVIOUS
  <2> QED  BY <1>1, <2>1, <2>2, Zenon
<1> QED  BY <1>1, <1>10, <1>11, <1>12 DEF AccountInv

LEMMA CallKeeps ==
    ASSUME AccountInv, NEW d, Called(d), Call(d)
    PROVE  AccountInv' /\ After(book, book') /\ (book.locked => Shrinks(book, book'))
<1>1. /\ book' = d /\ calls < MaxCalls[config] /\ calls' = calls + 1
      /\ config' = config /\ bar' = bar /\ now' = now /\ running' = running
  BY DEF Call
<1>2. calls' \in 0 .. MaxCalls[config]
  <2>1. calls \in 0 .. MaxCalls[config] /\ MaxCalls[config] \in Nat
    BY ConstantsAre DEF AccountInv
  <2> QED  BY <1>1, <2>1
<1>3. Sound(config', bar', book', 0, 0) /\ Locks(book') /\ ~book'.scanning
  BY <1>1 DEF Called
<1>4. AccountInv'
  BY <1>1, <1>2, <1>3 DEF AccountInv
<1> QED  BY <1>1, <1>4 DEF Called

LEMMA BeginBarKeeps ==
    ASSUME AccountInv, NEW v \in Bars[config], BeginBar(v)
    PROVE  /\ AccountInv' /\ bar' = v /\ ~(now' = now) /\ calls' = 0
           /\ book.locked /\ ~v.first => Shrinks(book, book')
<1>1. /\ Sound(config, v, book', 0, 0) /\ Locks(book') /\ ~book'.scanning
      /\ book.locked /\ ~v.first => Shrinks(book, book')
  <2> DEFINE day == IF v.first THEN NewDay(Fresh, v) ELSE Fresh
             d == ExitsScanned(Scanned(day, DOMAIN day.pending, v, v), v)
  <2>1. book' = d
    BY DEF BeginBar
  <2>2. /\ Sound(config, v, d, 0, 0) /\ Locks(d) /\ ~d.scanning
        /\ book.locked /\ ~v.first => Shrinks(book, d)
    BY BeginBarIs
  <2> HIDE DEF d
  <2> QED  BY <2>1, <2>2
<1>2. /\ bar' = v /\ now < MaxBars[config] /\ now' = now + 1 /\ running' = TRUE /\ calls' = 0
      /\ config' = config
  BY DEF BeginBar
<1>3. now' \in 0 .. MaxBars[config] /\ calls' \in 0 .. MaxCalls[config] /\ now' # now
  <2>1. now \in 0 .. MaxBars[config] /\ MaxBars[config] \in Nat /\ MaxCalls[config] \in Nat
    BY ConstantsAre DEF AccountInv
  <2> QED  BY <1>2, <2>1
<1>4. running' \in BOOLEAN /\ config' \in Configs /\ bar' \in Bars[config'] \cup {NoBar}
  BY <1>2 DEF AccountInv
<1>5. AccountInv'
  BY <1>1, <1>2, <1>3, <1>4 DEF AccountInv
<1> QED  BY <1>1, <1>2, <1>3, <1>5

LEMMA EndBarKeeps ==
    ASSUME AccountInv, EndBar
    PROVE  /\ AccountInv' /\ calls' = calls /\ (book.locked => Shrinks(book, book'))
<1>1. /\ Sound(config, bar, book', 0, 0) /\ Locks(book') /\ ~book'.scanning
      /\ book.locked => Shrinks(book, book')
  <2> DEFINE own == {i \in DOMAIN book.pending : book.pending[i].time = now}
             d == Evening(Sync(Scanned(Fresh, own, bar, AtClose(bar)), bar))
  <2>1. book' = d
    BY DEF EndBar
  <2> HIDE DEF own
  <2>2. Sound(config, bar, d, 0, 0) /\ Locks(d) /\ ~d.scanning /\ (book.locked => Shrinks(book, d))
    BY EndBarIs
  <2> HIDE DEF d
  <2> QED  BY <2>1, <2>2
<1>2. running' = FALSE /\ UNCHANGED <<config, bar, now, calls>>
  BY DEF EndBar
<1>3. AccountInv'
  BY <1>1, <1>2 DEF AccountInv
<1> QED  BY <1>1, <1>2, <1>3

LEMMA ReportKeeps ==
    ASSUME AccountInv, Report
    PROVE  /\ AccountInv' /\ calls' = calls /\ (book.locked => Shrinks(book, book'))
<1>1. book' = Sync(Fresh, bar) /\ UNCHANGED <<config, bar, now, running, calls>>
  BY DEF Report
<1>2. Called(book')
  <2> DEFINE d == Sync(Fresh, bar)
  <2>1. Called(d)
    BY ReadIs
  <2> HIDE DEF d
  <2> QED  BY <1>1, <2>1 DEF d
<1>3. Sound(config, bar, book', 0, 0) /\ Locks(book') /\ ~book'.scanning
      /\ (book.locked => Shrinks(book, book'))
  BY <1>2 DEF Called
<1>4. AccountInv'
  BY <1>1, <1>3 DEF AccountInv
<1> QED  BY <1>1, <1>3, <1>4

LEMMA SubmitCalls ==
    ASSUME AccountInv, NEW s \in Submissions[config], Submit(s)
    PROVE  Call(book') /\ Called(book') /\ ~MustLiquidate(book', bar)
<1> DEFINE o == OrderOf(s)
           b == Sync(Fresh, bar)
           d == IF b.locked THEN b ELSE IF IsLater(o) THEN Later(b, o) ELSE Immediate(b, o)
<1>1. Call(d)
  BY DEF Submit
<1>2. o \in SoundOrder /\ o.qty > 0
  BY OrderOfIs
<1> HIDE DEF o
<1>3. Called(d) /\ ~MustLiquidate(d, bar)
  BY <1>2, SubmitIs
<1> HIDE DEF d
<1>4. book' = d
  BY <1>1 DEF Call
<1> QED  BY <1>1, <1>3, <1>4

LEMMA CloseCalls ==
    ASSUME AccountInv, NEW c \in Closes[config], CloseCall(c.id, c.qty)
    PROVE  Call(book') /\ Called(book') /\ ~MustLiquidate(book', bar)
<1> DEFINE id == c.id
           q == c.qty
           target == TargetQty(book, id)
           b == Sync(Fresh, bar)
           fill == Min2(Min2(target, Size(Position(b))), Requested(target, q))
           d == IF book.lots = << >> THEN Fresh
                ELSE IF fill = 0 THEN b
                ELSE Sync(Sold(b, id, fill, bar.close), bar)
<1>1. Call(d)
  BY DEF CloseCall
<1>2. q \in Nat \cup {NoQty}
  BY ConstantsAssumption DEF AccountInv
<1> HIDE DEF id, q
<1>3. Called(d) /\ ~MustLiquidate(d, bar)
  BY <1>2, CloseIs
<1> HIDE DEF d
<1>4. book' = d
  BY <1>1 DEF Call
<1> QED  BY <1>1, <1>3, <1>4

LEMMA ExitCalls ==
    ASSUME AccountInv, NEW x \in Exits[config], Exit(x)
    PROVE  Call(book') /\ Called(book') /\ ~MustLiquidate(book', bar)
<1> DEFINE same(y) == y.id = x.id /\ y.from = x.from
           known == \E i \in DOMAIN book.exits : same(book.exits[i])
           upserted == [Fresh EXCEPT !.exits =
                          IF known THEN [i \in DOMAIN @ |-> IF same(@[i]) THEN x ELSE @[i]]
                          ELSE Append(@, x)]
           r == TryExit(upserted, x, bar)
           d == IF r.done
                THEN [r.book EXCEPT !.exits = Omitting(@, {y \in ToSet(@) : same(y)})]
                ELSE r.book
<1>1. Call(d)
  BY DEF Exit
<1>2. Called(d) /\ ~MustLiquidate(d, bar)
  BY ExitIs
<1> HIDE DEF d
<1>3. book' = d
  BY <1>1 DEF Call
<1> QED  BY <1>1, <1>2, <1>3

LEMMA CancelCalls ==
    ASSUME AccountInv, NEW gone, CancelOf(gone)
    PROVE  Call(book') /\ Called(book')
<1> DEFINE b == Without(Fresh, gone)
           d == IF b.pending = book.pending THEN b ELSE Sync(b, bar)
<1>1. Call(d)
  BY DEF CancelOf
<1>2. Called(d)
  BY CancelIs
<1> HIDE DEF d
<1>3. book' = d
  BY <1>1 DEF Call
<1> QED  BY <1>1, <1>2, <1>3

LEMMA RaisesCalls ==
    ASSUME AccountInv, NEW s, SubmitRaises(s)
    PROVE  Call(book') /\ Called(book')
<1>1. Call(Fresh)
  BY DEF SubmitRaises
<1>2. book' = Fresh
  BY <1>1 DEF Call
<1> QED  BY <1>1, <1>2, FreshCalled

LEMMA ReadCalls ==
    ASSUME AccountInv, Read
    PROVE  Call(book') /\ Called(book') /\ ~MustLiquidate(book', bar)
<1> DEFINE d == Sync(Fresh, bar)
<1>1. Call(d)
  BY DEF Read
<1>2. Called(d) /\ ~MustLiquidate(d, bar)
  BY ReadIs
<1> HIDE DEF d
<1>3. book' = d
  BY <1>1 DEF Call
<1> QED  BY <1>1, <1>2, <1>3

\* The calls that look at no position.
Blind ==
    \/ CancelAll
    \/ \E id \in Ids : Cancel(id)
    \/ \E s \in Submissions[config] : SubmitRaises(s)

LEMMA NextKeeps ==
    ASSUME AccountInv, Next
    PROVE  /\ AccountInv'
           /\ book.locked /\ (now' = now \/ ~bar'.first) => Shrinks(book, book')
           /\ calls' > calls =>
                 After(book, book') /\ ~book.scanning /\ (Blind \/ ~MustLiquidate(book', bar))
<1>1. calls \in Nat
  BY ConstantsAre DEF AccountInv
<1>2. ~(calls > calls) /\ ~(0 > calls)
  BY <1>1
<1>3. ~book.scanning
  BY DEF AccountInv
<1>4. ASSUME NEW v \in Bars[config], BeginBar(v)
      PROVE  /\ AccountInv' /\ ~(calls' > calls)
             /\ book.locked /\ (now' = now \/ ~bar'.first) => Shrinks(book, book')
  BY <1>2, <1>4, BeginBarKeeps
<1>5. CASE EndBar
  BY <1>2, <1>5, EndBarKeeps
<1>6. CASE Report
  BY <1>2, <1>6, ReportKeeps
<1>7. ASSUME Call(book'), Called(book')
      PROVE  AccountInv' /\ After(book, book') /\ (book.locked => Shrinks(book, book'))
  <2> DEFINE d == book'
  <2> HIDE DEF d
  <2>1. Call(d) /\ Called(d)
    BY <1>7 DEF d
  <2> QED  BY <2>1, CallKeeps
<1>8. ASSUME NEW s \in Submissions[config], Submit(s)
      PROVE  Call(book') /\ Called(book') /\ ~MustLiquidate(book', bar)
  BY <1>8, SubmitCalls
<1>9. ASSUME NEW s \in Submissions[config], SubmitRaises(s)
      PROVE  Call(book') /\ Called(book') /\ Blind
  BY <1>9, RaisesCalls DEF Blind
<1>10. ASSUME NEW c \in Closes[config], CloseCall(c.id, c.qty)
       PROVE  Call(book') /\ Called(book') /\ ~MustLiquidate(book', bar)
  BY <1>10, CloseCalls
<1>11. ASSUME NEW x \in Exits[config], Exit(x)
       PROVE  Call(book') /\ Called(book') /\ ~MustLiquidate(book', bar)
  BY <1>11, ExitCalls
<1>12. ASSUME NEW id \in Ids, Cancel(id)
       PROVE  Call(book') /\ Called(book') /\ Blind
  <2> DEFINE gone == {p \in ToSet(book.pending) : p.id = id}
  <2>1. CancelOf(gone)
    BY <1>12 DEF Cancel
  <2> HIDE DEF gone
  <2> QED  BY <1>12, <2>1, CancelCalls DEF Blind
<1>13. ASSUME CancelAll
       PROVE  Call(book') /\ Called(book') /\ Blind
  <2> DEFINE gone == ToSet(book.pending)
  <2>1. CancelOf(gone)
    BY <1>13 DEF CancelAll
  <2> HIDE DEF gone
  <2> QED  BY <1>13, <2>1, CancelCalls DEF Blind
<1>14. ASSUME Read
       PROVE  Call(book') /\ Called(book') /\ ~MustLiquidate(book', bar)
  BY <1>14, ReadCalls
<1> HIDE DEF Blind
<1> QED  BY <1>3, <1>4, <1>5, <1>6, <1>7, <1>8, <1>9, <1>10, <1>11, <1>12, <1>13, <1>14
         DEF Next

LEMMA AccountInvHolds == Spec => []AccountInv
<1>1. AccountInv /\ [Next]_vars => AccountInv'
  <2> SUFFICES ASSUME AccountInv, [Next]_vars  PROVE AccountInv'
    OBVIOUS
  <2>1. CASE Next
    BY <2>1, NextKeeps
  <2>2. CASE UNCHANGED vars
    BY <2>2 DEF vars, AccountInv
  <2> QED  BY <2>1, <2>2
<1> QED  BY <1>1, InitIsSound, PTL DEF Spec

-----------------------------------------------------------------------------
(* What the invariant says of the account.                                 *)

LEMMA LotsAreTyped ==
    ASSUME NEW s \in Seq(Lot), Sided(s)
    PROVE  /\ s \in Seq([id: Ids, side: Side, qty: Nat \ {0}, price: Int, fee: Nat])
           /\ \A l, m \in ToSet(s) : l.side = m.side
<1>1. s \in Seq([id: Ids, side: Side, qty: Nat \ {0}, price: Int, fee: Nat])
  BY DEF Lot
<1>2. PICK side \in Side : \A i \in 1 .. Len(s) : s[i].side = side
  BY DEF Sided, OfSide
<1>3. ASSUME NEW l \in ToSet(s)  PROVE l.side = side
  <2>1. PICK i \in DOMAIN s : l = s[i]
    BY <1>3 DEF ToSet
  <2>2. i \in 1 .. Len(s)
    BY <2>1
  <2> QED  BY <1>2, <2>1, <2>2
<1> QED  BY <1>1, <1>3

LEMMA SoundIsTyped ==
    ASSUME AccountInv
    PROVE  book.pending \in Seq(Order) /\ book.fills \in Seq(Fill)
<1>1. book.pending \in Seq(SoundOrder) /\ book.fills \in Seq(SoundFill(config, bar))
  BY DEF AccountInv, Sound
<1>2. \A o \in SoundOrder : o \in Order
  BY DEF SoundOrder
<1>3. \A f \in SoundFill(config, bar) : f \in Fill
  BY DEF SoundFill
<1>4. ASSUME NEW S, NEW T, \A e \in S : e \in T, NEW s \in Seq(S)  PROVE s \in Seq(T)
  BY <1>4
<1>5. book.pending \in Seq(Order)
  BY <1>1, <1>2, <1>4
<1>6. book.fills \in Seq(Fill)
  BY <1>1, <1>3, <1>4
<1> QED  BY <1>5, <1>6

LEMMA InvImpliesTypeOK == AccountInv => TypeOK
<1> SUFFICES ASSUME AccountInv  PROVE TypeOK
  OBVIOUS
<1>1. /\ config \in Configs /\ bar \in Bars[config] \cup {NoBar}
      /\ now \in 0 .. MaxBars[config]
      /\ running \in BOOLEAN /\ calls \in 0 .. MaxCalls[config]
      /\ ~book.scanning
      /\ book.locked = (book.drawdownLocked \/ book.dayLocked \/ book.filledLocked)
  BY DEF AccountInv, Locks
<1>2. /\ book.lots \in Seq(Lot) /\ Sided(book.lots)
      /\ book.won \in Nat /\ book.lost \in Int /\ book.lost <= 0 /\ book.fees \in Nat
  BY DEF AccountInv, Sound, Money
<1>3. -book.lost \in Nat
  BY <1>2
<1>4. book.peak \in Nat /\ book.dayPeak \in Int /\ book.filled \in Nat
  BY DEF AccountInv, Sound, Counts
<1>5. book.exits \in Seq(Exits[config])
  BY DEF AccountInv, Sound
<1>6. /\ book.lots \in Seq([id: Ids, side: Side, qty: Nat \ {0}, price: Int, fee: Nat])
      /\ \A l, m \in ToSet(book.lots) : l.side = m.side
  BY <1>2, LotsAreTyped
<1>7. book.pending \in Seq(Order) /\ book.fills \in Seq(Fill)
  BY SoundIsTyped
<1> QED  BY <1>1, <1>2, <1>3, <1>4, <1>5, <1>6, <1>7, Zenon DEF TypeOK

LEMMA InvImpliesBalance == AccountInv => BooksBalance
<1> SUFFICES ASSUME AccountInv  PROVE BooksBalance
  OBVIOUS
<1> DEFINE cost == Total(book.lots, LAMBDA l : Sign(l.side) * l.qty * l.price)
           open == Total(book.lots, LAMBDA l : l.fee)
<1>1. /\ book.lots \in Seq(Lot) /\ book.won \in Nat /\ book.lost \in Int
      /\ book.fees \in Nat /\ book.cash \in Int /\ book.settled \in Int
      /\ Worth(book) - book.cash = 0 /\ book.fees - Charged(book) = 0
  BY DEF AccountInv, Sound, Money
<1>2. cost = Cost(book.lots) /\ open = OpenFees(book.lots)
  BY SumsAreTotals
<1>3. Cost(book.lots) \in Int /\ OpenFees(book.lots) \in Int
  BY <1>1, LotSums
<1>4. ((book.won + book.lost) - Cost(book.lots)) - book.cash = 0
      /\ book.fees - (book.settled + OpenFees(book.lots)) = 0
  BY <1>1 DEF Worth, Charged
<1> HIDE DEF cost, open
<1>5. cost \in Int /\ open \in Int
  BY <1>2, <1>3
<1>6. ((book.won + book.lost) - cost) - book.cash = 0 /\ book.fees - (book.settled + open) = 0
  BY <1>2, <1>4
<1>7. /\ book.won \in Int /\ book.lost \in Int /\ book.fees \in Int /\ book.cash \in Int
      /\ book.settled \in Int
  BY <1>1
<1>8. book.won + book.lost = book.cash + cost /\ book.fees = book.settled + open
  BY <1>5, <1>6, <1>7
<1> QED  BY <1>8, Zenon DEF BooksBalance, cost, open

LEMMA InvImpliesFills ==
    AccountInv => \A f \in ToSet(book.fills) : f \in SoundFill(config, bar)
<1> SUFFICES ASSUME AccountInv, NEW f \in ToSet(book.fills)  PROVE f \in SoundFill(config, bar)
  OBVIOUS
<1>1. book.fills \in Seq(SoundFill(config, bar))
  BY DEF AccountInv, Sound
<1>2. PICK i \in DOMAIN book.fills : f = book.fills[i]
  BY DEF ToSet
<1> QED  BY <1>1, <1>2

LEMMA InvImpliesLimits == AccountInv => RiskLimitsHold
<1> SUFFICES ASSUME AccountInv  PROVE RiskLimitsHold
  OBVIOUS
<1>1. /\ config.maxFilled # Unlimited => book.filled <= MayFill(config)
      /\ config.maxFilled # Unlimited /\ book.filled = MayFill(config) => book.filledLocked
  BY DEF AccountInv, Sound, Counts
<1>2. book.filledLocked => book.locked
  BY DEF AccountInv, Locks
<1>3. \A f \in ToSet(book.fills) :
         config.maxSize # Unlimited /\ f.kind = "entry" => Size(f.after) <= config.maxSize
  BY InvImpliesFills DEF SoundFill
<1> QED  BY <1>1, <1>2, <1>3, Zenon DEF RiskLimitsHold

LEMMA InvImpliesDue == AccountInv => FillsAreDue
BY InvImpliesFills DEF SoundFill, FillsAreDue

\* A step that shrinks what is held leaves less of it, on the same side.
LEMMA ShrinksIs ==
    ASSUME NEW b, NEW d, Held(b.lots) \in Int, Held(d.lots) \in Int, Shrinks(b, d)
    PROVE  Size(Position(d)) <= Size(Position(b)) /\ Position(d) * Position(b) >= 0
<1> DEFINE p == Position(b)
           q == Position(d)
<1>1. p = Held(b.lots) /\ q = Held(d.lots)
  BY SumsAreTotals
<1> HIDE DEF p, q
<1>2. /\ p \in Int /\ q \in Int
      /\ p >= 0 => 0 <= q /\ q <= p
      /\ p <= 0 => p <= q /\ q <= 0
  BY <1>1 DEF Shrinks
<1>3. Size(q) <= Size(p)
  BY <1>2 DEF Size, Max2
<1>4. q * p >= 0
  <2>1. CASE p >= 0
    <3>1. p \in Nat /\ q \in Nat
      BY <1>2, <2>1
    <3> QED  BY <3>1
  <2>2. CASE p <= 0
    <3>1. -p \in Nat /\ -q \in Nat
      BY <1>2, <2>2
    <3>2. (-q) * (-p) = q * p /\ (-q) * (-p) \in Nat
      BY <1>2, <3>1
    <3> QED  BY <3>2
  <2> QED  BY <1>2, <2>1, <2>2
<1> QED  BY <1>3, <1>4 DEF p, q

-----------------------------------------------------------------------------
(* Theorems.                                                               *)

\* The account stays well formed: netted lots of one side, none of them empty,
\* gains and losses of their own sign, no lock without its reason, and no scan
\* of the pending orders left running (strategy/core.py).
THEOREM AccountIsTyped == Spec => []TypeOK
BY AccountInvHolds, InvImpliesTypeOK, PTL

\* Whatever bars arrive and whatever the script calls, the profit booked is the
\* cash that moved and the commission charged is what the trades carry
\* (_close_lots, _fill_entry_order).
THEOREM AccountBalances == Spec => []BooksBalance
BY AccountInvHolds, InvImpliesBalance, PTL

\* max_position_size and max_intraday_filled_orders hold after every operation
\* (_entry_qty_for_max_position_size, _record_intraday_filled_order).
THEOREM LimitsHold == Spec => []RiskLimitsHold
BY AccountInvHolds, InvImpliesLimits, PTL

\* Limits, stops and brackets fill at prices the bar has traded at, and no order
\* that was taken back fills, except inside a liquidation (_pending_trigger,
\* _stop_limit_trigger, _exit_trigger).
THEOREM EveryFillIsDue == Spec => []FillsAreDue
BY AccountInvHolds, InvImpliesDue, PTL

\* A locked account only shrinks until a new session takes the locks back
\* (_risk_locked in _try_fill_pending_order, _fill_entry_order and submit).
THEOREM LocksHold == Spec => LockedNeverGrows
<1> DEFINE Body == book.locked /\ (now' = now \/ ~bar'.first) =>
                      /\ Size(Position(book')) <= Size(Position(book))
                      /\ Position(book') * Position(book) >= 0
<1>1. AccountInv /\ AccountInv' /\ [Next]_vars => [Body]_vars
  <2> SUFFICES ASSUME AccountInv, AccountInv', Next, book.locked, now' = now \/ ~bar'.first
               PROVE  /\ Size(Position(book')) <= Size(Position(book))
                      /\ Position(book') * Position(book) >= 0
    OBVIOUS
  <2>1. Shrinks(book, book')
    BY NextKeeps
  <2>2. Held(book.lots) \in Int
    BY HeldIs DEF AccountInv
  <2>3. Held(book'.lots) \in Int
    <3>1. Sound(config', bar', book', 0, 0)
      BY DEF AccountInv
    <3> QED  BY <3>1, HeldIs
  <2> QED  BY <2>1, <2>2, <2>3, ShrinksIs
<1> QED  BY <1>1, AccountInvHolds, PTL DEF Spec, LockedNeverGrows

\* The intraday loss limit is enforced before a call returns, and a liquidation
\* that a callback meets leaves nothing that could trade (_sync_risk_liquidation).
THEOREM LossIsLimited == Spec => LossLimitEnforced
<1> DEFINE Body ==
      calls' > calls =>
          /\ ~(CancelAll \/ \E id \in Ids : Cancel(id))
                /\ ~(\E s \in Submissions[config] : SubmitRaises(s))
             => ~MustLiquidate(book', bar)
          /\ running /\ ~book.dayLocked /\ book'.dayLocked =>
                /\ book'.lots = << >>
                /\ book'.pending = << >>
                /\ book'.exits = << >>
<1>1. AccountInv /\ [Next]_vars => [Body]_vars
  <2> SUFFICES ASSUME AccountInv, Next, calls' > calls
               PROVE  /\ ~(CancelAll \/ \E id \in Ids : Cancel(id))
                            /\ ~(\E s \in Submissions[config] : SubmitRaises(s))
                         => ~MustLiquidate(book', bar)
                      /\ running /\ ~book.dayLocked /\ book'.dayLocked =>
                            book'.lots = << >> /\ book'.pending = << >> /\ book'.exits = << >>
    OBVIOUS
  <2>1. After(book, book') /\ ~book.scanning /\ (Blind \/ ~MustLiquidate(book', bar))
    BY NextKeeps
  <2>2. ~book.dayLocked /\ book'.dayLocked => Empty(book')
    BY <2>1 DEF After
  <2> QED  BY <2>1, <2>2 DEF Blind, Empty
<1> QED  BY <1>1, AccountInvHolds, PTL DEF Spec, LossLimitEnforced
=============================================================================
