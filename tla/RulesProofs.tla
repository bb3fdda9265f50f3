----------------------------- MODULE RulesProofs -----------------------------
(***************************************************************************)
(* What the proofs about both strategy engines use of the rules they share: *)
(* sums, the shares of a commission, and where a bar triggers an order.    *)
(***************************************************************************)
EXTENDS StrategyRules, NaturalsInduction, WellFoundedInduction, SequenceTheorems, TLAPS

-----------------------------------------------------------------------------
(* Numbers and sequences.  Induction over the places of a sequence is the  *)
(* fact that a set of places which holds 0, and with every place the next, *)
(* holds them all.                                                         *)

LEMMA LeastNumber ==
    ASSUME NEW T \in SUBSET Nat, T # {}
    PROVE  \E n \in T : \A m \in T : n <= m
<1>1. PICK n \in T : \A m \in T : <<m, n>> \notin OpToRel(<, Nat)
  BY WFMin, NatLessThanWellFounded
<1>2. ASSUME NEW m \in T  PROVE n <= m
  <2>1. m \in Nat /\ n \in Nat
    OBVIOUS
  <2>2. ~ (m < n)
    BY <1>1, <2>1, Zenon DEF OpToRel
  <2> QED  BY <2>1, <2>2
<1> QED  BY <1>2

LEMMA AllPlaces ==
    ASSUME NEW N \in Nat, NEW S, 0 \in S, \A i \in 1 .. N : i - 1 \in S => i \in S
    PROVE  \A i \in 0 .. N : i \in S
<1> DEFINE T == {i \in 0 .. N : i \notin S}
<1>1. T \in SUBSET Nat
  OBVIOUS
<1>2. ASSUME T # {}  PROVE FALSE
  <2>1. PICK n \in T : \A m \in T : n <= m
    BY <1>1, <1>2, LeastNumber
  <2>2. n \in 1 .. N /\ n \notin S
    OBVIOUS
  <2>3. n - 1 \in 0 .. N /\ ~ (n <= n - 1)
    BY <2>2
  <2>4. n - 1 \in S
    BY <2>1, <2>3
  <2> QED  BY <2>2, <2>4
<1> QED  BY <1>2

LEMMA MinIs ==
    ASSUME NEW S \in SUBSET Nat, S # {}
    PROVE  Min(S) \in S /\ \A n \in S : Min(S) <= n
<1>1. \E n \in S : \A m \in S : n <= m
  BY LeastNumber
<1> QED  BY <1>1 DEF Min

-----------------------------------------------------------------------------
(* Sums.                                                                   *)

LEMMA SumsUnfold ==
    ASSUME NEW s, Len(s) \in Nat
    PROVE  Sums(s) = [i \in 0 .. Len(s) |-> IF i = 0 THEN 0 ELSE Sums(s)[i - 1] + s[i]]
<1> DEFINE N == Len(s)
           Is(f, n) == f = [i \in 0 .. n |-> IF i = 0 THEN 0 ELSE f[i - 1] + s[i]]
           S == {n \in 0 .. N : \E f : Is(f, n)}
<1>1. 0 \in S
  <2> DEFINE g == [i \in 0 .. 0 |-> 0]
  <2>1. g = [i \in 0 .. 0 |-> IF i = 0 THEN 0 ELSE g[i - 1] + s[i]]
    OBVIOUS
  <2>2. \E f : Is(f, 0)
    BY <2>1
  <2> QED  BY <2>2
<1>2. ASSUME NEW n \in 1 .. N, n - 1 \in S  PROVE n \in S
  <2>1. PICK f : Is(f, n - 1)
    BY <1>2
  <2> DEFINE g == [i \in 0 .. n |-> IF i = n THEN f[n - 1] + s[n] ELSE f[i]]
  <2>2. ASSUME NEW i \in 0 .. n  PROVE g[i] = IF i = 0 THEN 0 ELSE g[i - 1] + s[i]
    <3>1. CASE i = n
      BY <3>1
    <3>2. CASE i # n
      <4>1. i \in 0 .. n - 1 /\ (i # 0 => i - 1 \in 0 .. n /\ i - 1 # n)
        BY <3>2
      <4>2. f[i] = IF i = 0 THEN 0 ELSE f[i - 1] + s[i]
        BY <2>1, <4>1
      <4> QED  BY <3>2, <4>1, <4>2
    <3> QED  BY <3>1, <3>2
  <2>3. g = [i \in 0 .. n |-> IF i = 0 THEN 0 ELSE g[i - 1] + s[i]]
    BY <2>2
  <2>4. \E h : Is(h, n)
    BY <2>3
  <2> QED  BY <2>4
<1>3. N \in S
  <2> HIDE DEF S
  <2>1. \A i \in 0 .. N : i \in S
    BY <1>1, <1>2, AllPlaces
  <2> QED  BY <2>1
<1>4. \E f : f = [i \in 0 .. Len(s) |-> IF i = 0 THEN 0 ELSE f[i - 1] + s[i]]
  BY <1>3
<1> QED  BY <1>4 DEF Sums

LEMMA SumsType ==
    ASSUME NEW s \in Seq(Int)
    PROVE  /\ Sums(s)[0] = 0
           /\ \A i \in 1 .. Len(s) : Sums(s)[i] = Sums(s)[i - 1] + s[i]
           /\ \A i \in 0 .. Len(s) : Sums(s)[i] \in Int
           /\ SumOf(s) \in Int
<1>0. Len(s) \in Nat
  OBVIOUS
<1>1. /\ Sums(s)[0] = 0
      /\ \A i \in 1 .. Len(s) : Sums(s)[i] = Sums(s)[i - 1] + s[i]
  <2> DEFINE f == Sums(s)
  <2>1. f = [i \in 0 .. Len(s) |-> IF i = 0 THEN 0 ELSE f[i - 1] + s[i]]
    BY SumsUnfold
  <2> HIDE DEF f
  <2>2. f[0] = 0
    BY <1>0, <2>1
  <2>3. \A i \in 1 .. Len(s) : f[i] = f[i - 1] + s[i]
    BY <1>0, <2>1
  <2> QED  BY <2>2, <2>3 DEF f
<1> DEFINE S == {i \in 0 .. Len(s) : Sums(s)[i] \in Int}
<1>2. 0 \in S
  BY <1>1
<1>3. ASSUME NEW i \in 1 .. Len(s), i - 1 \in S  PROVE i \in S
  BY <1>1, <1>3
<1>4. \A i \in 0 .. Len(s) : i \in S
  <2> HIDE DEF S
  <2> QED  BY <1>2, <1>3, LenProperties, AllPlaces
<1> QED  BY <1>1, <1>4 DEF SumOf

LEMMA SumOfNone == SumOf(<< >>) = 0
<1>1. << >> \in Seq(Int) /\ Len(<< >>) = 0
  OBVIOUS
<1> QED  BY <1>1, SumsType DEF SumOf

LEMMA SumOfAppend ==
    ASSUME NEW s \in Seq(Int), NEW x \in Int
    PROVE  SumOf(Append(s, x)) = SumOf(s) + x
<1> DEFINE t == Append(s, x)
           S == {i \in 0 .. Len(s) : Sums(t)[i] = Sums(s)[i]}
<1>1. /\ t \in Seq(Int) /\ Len(t) = Len(s) + 1 /\ t[Len(s) + 1] = x
      /\ \A i \in 1 .. Len(s) : t[i] = s[i]
  OBVIOUS
<1> HIDE DEF t
<1>2. 0 \in S
  BY <1>1, SumsType
<1>3. ASSUME NEW i \in 1 .. Len(s), i - 1 \in S  PROVE i \in S
  <2>1. i \in 1 .. Len(t) /\ t[i] = s[i]
    BY <1>1
  <2>2. Sums(t)[i] = Sums(t)[i - 1] + s[i]
    BY <1>1, <2>1, SumsType
  <2>3. Sums(s)[i] = Sums(s)[i - 1] + s[i]
    BY SumsType
  <2> QED  BY <1>3, <2>2, <2>3
<1>4. \A i \in 0 .. Len(s) : i \in S
  <2> HIDE DEF S
  <2> QED  BY <1>2, <1>3, LenProperties, AllPlaces
<1>5. Sums(t)[Len(s)] = Sums(s)[Len(s)]
  BY <1>4
<1>6. Len(t) \in 1 .. Len(t) /\ Len(t) - 1 = Len(s)
  BY <1>1
<1>7. Sums(t)[Len(t)] = Sums(t)[Len(s)] + x
  BY <1>1, <1>6, SumsType
<1>8. SumOf(t) = SumOf(s) + x
  BY <1>5, <1>7 DEF SumOf
<1> QED  BY <1>8 DEF t

-----------------------------------------------------------------------------
(* Arithmetic.                                                             *)

LEMMA Traded ==
    ASSUME NEW sg \in {1, -1}, NEW m \in Int, NEW p \in Int, NEW q \in Int, NEW t \in Int
    PROVE  (sg * (m - p)) * t - (sg * (q - t)) * p = sg * (m * t) - (sg * q) * p
<1>1. CASE sg = 1
  BY <1>1
<1>2. CASE sg = -1
  BY <1>2
<1> QED  BY <1>1, <1>2

LEMMA DivExact ==
    ASSUME NEW k \in Int, NEW q \in Nat \ {0}
    PROVE  (k * q) \div q = k
OBVIOUS

LEMMA ShareExact ==
    ASSUME NEW rate \in Nat, NEW q \in Nat \ {0}, NEW t \in Nat
    PROVE  ((rate * q) * t) \div q = rate * t
<1>1. (rate * q) * t = (rate * t) * q /\ rate * t \in Int
  OBVIOUS
<1> QED  BY <1>1, DivExact

LEMMA ShareBound ==
    ASSUME NEW f \in Nat, NEW q \in Nat \ {0}, NEW t \in 0 .. q
    PROVE  /\ (f * t) \div q \in 0 .. f
           /\ t = q => (f * t) \div q = f
<1>1. f * t \in Nat /\ f * t <= f * q
  OBVIOUS
<1>2. (f * q) \div q = f
  BY DivExact
<1>3. (f * t) \div q \in Nat
  BY <1>1
<1>4. ((f * t) \div q) * q <= f * t
  BY <1>1
<1>5. (f * t) \div q <= f
  BY <1>1, <1>3, <1>4
<1> QED  BY <1>2, <1>3, <1>5

LEMMA SideSign == ASSUME NEW side \in Side  PROVE Sign(side) \in {1, -1} /\ Sign(side) \in Int
BY DEF Side, Sign

-----------------------------------------------------------------------------
(* Lots, whatever else a lot records, and what sums over them say: the     *)
(* contracts held, what they have cost and the commission they carry.      *)

AreLots(L) ==
    \A l \in L : /\ l.side \in Side /\ l.qty \in Nat \ {0} /\ l.price \in Int /\ l.fee \in Nat
SizesOf(s) == [i \in DOMAIN s |-> Sign(s[i].side) * s[i].qty]
CostsOf(s) == [i \in DOMAIN s |-> Sign(s[i].side) * s[i].qty * s[i].price]
FeesOf(s) == [i \in DOMAIN s |-> s[i].fee]
Held(s) == SumOf(SizesOf(s))
Cost(s) == SumOf(CostsOf(s))
OpenFees(s) == SumOf(FeesOf(s))
OfSide(s, side) == \A i \in 1 .. Len(s) : s[i].side = side

LEMMA LotNumbers ==
    ASSUME NEW L, AreLots(L), NEW l \in L
    PROVE  /\ l.side \in Side /\ l.qty \in Nat \ {0} /\ l.price \in Int /\ l.fee \in Nat
           /\ Sign(l.side) * l.qty \in Int
           /\ Sign(l.side) * l.qty * l.price \in Int
<1>1. l.side \in Side /\ l.qty \in Nat \ {0} /\ l.price \in Int /\ l.fee \in Nat
  BY DEF AreLots
<1>2. Sign(l.side) \in Int
  BY <1>1, SideSign
<1> QED  BY <1>1, <1>2

LEMMA SequencesOfLots ==
    ASSUME NEW L, AreLots(L), NEW s \in Seq(L)
    PROVE  /\ SizesOf(s) \in Seq(Int) /\ Len(SizesOf(s)) = Len(s)
           /\ CostsOf(s) \in Seq(Int) /\ Len(CostsOf(s)) = Len(s)
           /\ FeesOf(s) \in Seq(Int) /\ Len(FeesOf(s)) = Len(s)
<1>1. DOMAIN s = 1 .. Len(s) /\ Len(s) \in Nat
  OBVIOUS
<1>2. \A i \in 1 .. Len(s) : s[i] \in L
  OBVIOUS
<1>3. SizesOf(s) \in Seq(Int) /\ Len(SizesOf(s)) = Len(s)
  <2>1. \A i \in 1 .. Len(s) : Sign(s[i].side) * s[i].qty \in Int
    BY <1>2, LotNumbers
  <2> QED  BY <1>1, <2>1 DEF SizesOf
<1>4. CostsOf(s) \in Seq(Int) /\ Len(CostsOf(s)) = Len(s)
  <2>1. \A i \in 1 .. Len(s) : Sign(s[i].side) * s[i].qty * s[i].price \in Int
    BY <1>2, LotNumbers
  <2> QED  BY <1>1, <2>1 DEF CostsOf
<1>5. FeesOf(s) \in Seq(Int) /\ Len(FeesOf(s)) = Len(s)
  <2>1. \A i \in 1 .. Len(s) : s[i].fee \in Int
    BY <1>2, LotNumbers
  <2> QED  BY <1>1, <2>1 DEF FeesOf
<1> QED  BY <1>3, <1>4, <1>5

LEMMA SumsOfLots ==
    ASSUME NEW L, AreLots(L), NEW s \in Seq(L)
    PROVE  Held(s) \in Int /\ Cost(s) \in Int /\ OpenFees(s) \in Int
BY SequencesOfLots, SumsType DEF Held, Cost, OpenFees

LEMMA SumsOfNone == Held(<< >>) = 0 /\ Cost(<< >>) = 0 /\ OpenFees(<< >>) = 0
<1>1. SizesOf(<< >>) = << >> /\ CostsOf(<< >>) = << >> /\ FeesOf(<< >>) = << >>
  BY DEF SizesOf, CostsOf, FeesOf
<1> QED  BY <1>1, SumOfNone DEF Held, Cost, OpenFees

LEMMA SumsOfAppend ==
    ASSUME NEW L, AreLots(L), NEW s \in Seq(L), NEW l \in L
    PROVE  /\ Append(s, l) \in Seq(L)
           /\ Held(Append(s, l)) = Held(s) + Sign(l.side) * l.qty
           /\ Cost(Append(s, l)) = Cost(s) + Sign(l.side) * l.qty * l.price
           /\ OpenFees(Append(s, l)) = OpenFees(s) + l.fee
<1> DEFINE t == Append(s, l)
<1>1. /\ t \in Seq(L) /\ Len(t) = Len(s) + 1 /\ t[Len(s) + 1] = l
      /\ \A i \in 1 .. Len(s) : t[i] = s[i]
      /\ DOMAIN t = 1 .. Len(s) + 1 /\ DOMAIN s = 1 .. Len(s) /\ Len(s) \in Nat
  OBVIOUS
<1> HIDE DEF t
<1>2. SizesOf(t) = Append(SizesOf(s), Sign(l.side) * l.qty)
  <2>1. SizesOf(s) \in Seq(Int) /\ Len(SizesOf(s)) = Len(s) /\ Sign(l.side) * l.qty \in Int
    BY SequencesOfLots, LotNumbers
  <2> DEFINE u == Append(SizesOf(s), Sign(l.side) * l.qty)
  <2>2. u \in Seq(Int) /\ Len(u) = Len(s) + 1
    BY <2>1
  <2>3. ASSUME NEW i \in 1 .. Len(s) + 1  PROVE SizesOf(t)[i] = u[i]
    BY <1>1, <2>1 DEF SizesOf
  <2>4. SizesOf(t) \in Seq(Int) /\ Len(SizesOf(t)) = Len(s) + 1
    BY <1>1, SequencesOfLots
  <2> HIDE DEF u
  <2>5. SizesOf(t) = u
    BY <2>2, <2>3, <2>4, SeqEqual
  <2> QED  BY <2>5 DEF u
<1>3. CostsOf(t) = Append(CostsOf(s), Sign(l.side) * l.qty * l.price)
  <2>1. CostsOf(s) \in Seq(Int) /\ Len(CostsOf(s)) = Len(s) /\ Sign(l.side) * l.qty * l.price \in Int
    BY SequencesOfLots, LotNumbers
  <2> DEFINE u == Append(CostsOf(s), Sign(l.side) * l.qty * l.price)
  <2>2. u \in Seq(Int) /\ Len(u) = Len(s) + 1
    BY <2>1
  <2>3. ASSUME NEW i \in 1 .. Len(s) + 1  PROVE CostsOf(t)[i] = u[i]
    BY <1>1, <2>1 DEF CostsOf
  <2>4. CostsOf(t) \in Seq(Int) /\ Len(CostsOf(t)) = Len(s) + 1
    BY <1>1, SequencesOfLots
  <2> HIDE DEF u
  <2>5. CostsOf(t) = u
    BY <2>2, <2>3, <2>4, SeqEqual
  <2> QED  BY <2>5 DEF u
<1>4. FeesOf(t) = Append(FeesOf(s), l.fee)
  <2>1. FeesOf(s) \in Seq(Int) /\ Len(FeesOf(s)) = Len(s) /\ l.fee \in Int
    BY SequencesOfLots, LotNumbers
  <2> DEFINE u == Append(FeesOf(s), l.fee)
  <2>2. u \in Seq(Int) /\ Len(u) = Len(s) + 1
    BY <2>1
  <2>3. ASSUME NEW i \in 1 .. Len(s) + 1  PROVE FeesOf(t)[i] = u[i]
    BY <1>1, <2>1 DEF FeesOf
  <2>4. FeesOf(t) \in Seq(Int) /\ Len(FeesOf(t)) = Len(s) + 1
    BY <1>1, SequencesOfLots
  <2> HIDE DEF u
  <2>5. FeesOf(t) = u
    BY <2>2, <2>3, <2>4, SeqEqual
  <2> QED  BY <2>5 DEF u
<1>5. /\ Held(t) = Held(s) + Sign(l.side) * l.qty
      /\ Cost(t) = Cost(s) + Sign(l.side) * l.qty * l.price
      /\ OpenFees(t) = OpenFees(s) + l.fee
  <2>1. l.fee \in Int
    BY LotNumbers
  <2> QED  BY <1>2, <1>3, <1>4, <2>1, SumOfAppend, SequencesOfLots, LotNumbers DEF Held, Cost, OpenFees
<1> QED  BY <1>1, <1>5 DEF t

-----------------------------------------------------------------------------
(* Bars and prices.                                                        *)

LEMMA ConfigIs ==
    ASSUME NEW c \in Config
    PROVE  /\ c.capital \in Nat /\ c.slip \in Nat /\ c.rate \in Nat /\ c.verify \in Nat
           /\ c.maxSize \in Nat \cup {Unlimited} /\ c.maxFilled \in Nat \cup {Unlimited}
BY DEF Config

OkBar ==
    {v \in Bar : v.low <= v.open /\ v.low <= v.close /\ v.open <= v.high /\ v.close <= v.high}

LEMMA BarIs ==
    ASSUME NEW v \in OkBar
    PROVE  /\ v.open \in Nat /\ v.high \in Nat /\ v.low \in Nat /\ v.close \in Nat
           /\ v.low <= v.open /\ v.low <= v.close /\ v.open <= v.high /\ v.close <= v.high
           /\ AtClose(v) \in OkBar /\ AtClose(v).low = v.close /\ AtClose(v).high = v.close
           /\ AtClose(v).open = v.close /\ AtClose(v).close = v.close
<1>1. /\ v \in Bar /\ v.open \in Nat /\ v.high \in Nat /\ v.low \in Nat /\ v.close \in Nat
      /\ v.low <= v.open /\ v.low <= v.close /\ v.open <= v.high /\ v.close <= v.high
  BY DEF OkBar, Bar
<1>2. v = [open |-> v.open, high |-> v.high, low |-> v.low, close |-> v.close, first |-> v.first]
      /\ v.first \in BOOLEAN
  BY <1>1 DEF Bar
<1>3. AtClose(v) = [open |-> v.close, high |-> v.close, low |-> v.close, close |-> v.close,
                    first |-> v.first]
  <2> DEFINE x == v.close
             first == v.first
             v1 == [v EXCEPT !.open = x]
             v2 == [v1 EXCEPT !.high = x]
             v3 == [v2 EXCEPT !.low = x]
  <2>1. v1 = [open |-> x, high |-> v.high, low |-> v.low, close |-> x, first |-> first]
    BY <1>2
  <2>2. AtClose(v) = v3
    BY DEF AtClose
  <2> HIDE DEF v1, x, first
  <2>3. v2 = [open |-> x, high |-> x, low |-> v.low, close |-> x, first |-> first]
    BY <2>1
  <2> HIDE DEF v2
  <2>4. v3 = [open |-> x, high |-> x, low |-> x, close |-> x, first |-> first]
    BY <2>3
  <2> HIDE DEF v3
  <2> QED  BY <2>2, <2>4 DEF x, first
<1>4. AtClose(v) \in OkBar
  <2>1. AtClose(v) \in Bar
    BY <1>1, <1>2, <1>3 DEF Bar
  <2>2. AtClose(v).low = v.close /\ AtClose(v).high = v.close /\ AtClose(v).open = v.close /\ AtClose(v).close = v.close
    BY <1>3
  <2> QED  BY <1>1, <2>1, <2>2 DEF OkBar
<1> QED  BY <1>1, <1>3, <1>4

Price(p) == p \in Nat \cup {NoPrice}

LEMMA StopPriceIs ==
    ASSUME NEW side \in Side, NEW v \in OkBar, NEW stop, Price(stop), StopHit(side, v, stop)
    PROVE  LET p == StopPrice(side, v, stop)
           IN  p \in Nat /\ v.low <= p /\ p <= v.high
<1>1. /\ v.open \in Nat /\ v.high \in Nat /\ v.low \in Nat
      /\ v.low <= v.open /\ v.open <= v.high
  BY BarIs
<1>2. stop \in Nat /\ (side = "long" => v.high >= stop) /\ (side # "long" => v.low <= stop)
  BY DEF StopHit, Price
<1> QED  BY <1>1, <1>2 DEF StopPrice, Max2, Min2

LEMMA LimitPriceIs ==
    ASSUME NEW c \in Config, NEW side \in Side, NEW v \in OkBar, NEW limit, Price(limit),
           LimitHit(c, side, v, limit)
    PROVE  LET p == LimitPrice(side, v, limit)
           IN  p \in Nat /\ v.low <= p /\ p <= v.high
<1>1. /\ v.open \in Nat /\ v.high \in Nat /\ v.low \in Nat /\ c.verify \in Nat
      /\ v.low <= v.open /\ v.open <= v.high
  BY BarIs, ConfigIs
<1>2. /\ limit \in Nat
      /\ side = "long" => v.low <= limit - c.verify
      /\ side # "long" => v.high >= limit + c.verify
  BY DEF LimitHit, Price
<1> QED  BY <1>1, <1>2 DEF LimitPrice, Max2, Min2

LEMMA ExitPriceIs ==
    ASSUME NEW c \in Config, NEW side \in Side, NEW v \in OkBar,
           NEW x, Price(x.limit), Price(x.stop), ExitPrice(c, x, side, v) # NoPrice
    PROVE  LET p == ExitPrice(c, x, side, v)
           IN  p \in Nat /\ v.low <= p /\ p <= v.high
<1>1. CASE StopHit(side, v, x.stop) /\ (StopWins(c, side) \/ ~LimitHit(c, side, v, x.limit))
  <2>1. ExitPrice(c, x, side, v) = StopPrice(side, v, x.stop)
    BY <1>1 DEF ExitPrice
  <2> QED  BY <1>1, <2>1, StopPriceIs
<1>2. CASE ~(StopHit(side, v, x.stop) /\ (StopWins(c, side) \/ ~LimitHit(c, side, v, x.limit)))
  <2>1. /\ LimitHit(c, side, v, x.limit)
        /\ ExitPrice(c, x, side, v) = LimitPrice(side, v, x.limit)
    BY <1>2 DEF ExitPrice
  <2> QED  BY <2>1, LimitPriceIs
<1> QED  BY <1>1, <1>2

LEMMA PathIs ==
    ASSUME NEW c, NEW v \in OkBar, NEW i \in 1 .. 4
    PROVE  PathOf(c, v)[i] \in Nat /\ v.low <= PathOf(c, v)[i] /\ PathOf(c, v)[i] <= v.high
<1>1. /\ v.open \in Nat /\ v.high \in Nat /\ v.low \in Nat /\ v.close \in Nat
      /\ v.low <= v.open /\ v.low <= v.close /\ v.open <= v.high /\ v.close <= v.high
  BY BarIs
<1>2. i = 1 \/ i = 2 \/ i = 3 \/ i = 4
  OBVIOUS
<1>3. \/ PathOf(c, v) = <<v.open, v.high, v.low, v.close>>
      \/ PathOf(c, v) = <<v.open, v.low, v.high, v.close>>
  BY DEF PathOf
<1> QED  BY <1>1, <1>2, <1>3

LEMMA StopLimitPrice ==
    ASSUME NEW c \in Config, NEW v \in OkBar,
           NEW o, o.side \in Side, Price(o.limit), Price(o.stop), o.limit # NoPrice, o.stop # NoPrice
    PROVE  LET r == StopLimit(c, o, PathOf(c, v))
           IN  /\ r.armed \in BOOLEAN
               /\ r.price # NoPrice =>
                     /\ r.price \in Nat
                     /\ v.low - c.verify <= r.price /\ r.price <= v.high + c.verify
<1> DEFINE path == PathOf(c, v)
           arming == Arming(o, path)
           from == Min(arming)
           price == IF from = 1 THEN path[1] ELSE o.stop
           r == StopLimit(c, o, path)
<1>1. /\ \A i \in 1 .. 4 : path[i] \in Nat /\ v.low <= path[i] /\ path[i] <= v.high
      /\ v.low \in Nat /\ v.high \in Nat /\ c.verify \in Nat
      /\ o.limit \in Nat /\ o.stop \in Nat /\ o.side \in Side
  BY PathIs, BarIs, ConfigIs DEF Price
<1> HIDE DEF path
<1>2. CASE arming = {}
  <2>1. r = [armed |-> FALSE, price |-> NoPrice]
    BY <1>2 DEF StopLimit
  <2> HIDE DEF r
  <2>2. r.armed \in BOOLEAN /\ r.price = NoPrice
    BY <2>1
  <2> QED  BY <2>2 DEF r, path
<1>3. CASE arming # {}
  <2>1. r = [armed |-> TRUE, price |-> LimitOnPath(c, o, path, from, price)]
    BY <1>3 DEF StopLimit
  <2>2. arming \subseteq 1 .. 4
    BY DEF Arming
  <2>3. from \in arming /\ \A i \in arming : from <= i
    <3> HIDE DEF arming
    <3> QED  BY <1>3, <2>2, MinIs
  <2> HIDE DEF from
  <2>4. from \in 1 .. 4
    BY <2>2, <2>3
  <2>5. price \in Nat /\ v.low <= price /\ price <= v.high
    <3>1. CASE from = 1
      BY <1>1, <3>1
    <3>2. CASE from # 1
      <4>1. ~o.armed /\ 1 \notin arming
        BY <2>3, <2>4, <3>2 DEF Arming
      <4>2. StopHit(o.side, At(path[from]), o.stop) /\ ~StopHit(o.side, At(path[1]), o.stop)
        BY <2>3, <2>4, <4>1 DEF Arming
      <4>3. /\ path[from] \in Nat /\ path[1] \in Nat /\ path[from] <= v.high /\ path[1] >= v.low
            /\ path[from] >= v.low /\ path[1] <= v.high
        BY <1>1, <2>4
      <4>4. CASE o.side = "long"
        <5>1. path[from] >= o.stop /\ path[1] < o.stop
          BY <1>1, <4>2, <4>3, <4>4 DEF StopHit, At
        <5> QED  BY <1>1, <3>2, <4>3, <5>1
      <4>5. CASE o.side # "long"
        <5>1. path[from] <= o.stop /\ path[1] > o.stop
          BY <1>1, <4>2, <4>3, <4>5 DEF StopHit, At
        <5> QED  BY <1>1, <3>2, <4>3, <5>1
      <4> QED  BY <4>4, <4>5
    <3> QED  BY <3>1, <3>2
  <2> HIDE DEF price, arming, r
  <2>6. CASE LimitHit(c, o.side, At(price), o.limit)
    <3>1. r.armed = TRUE /\ r.price = price
      BY <2>1, <2>6 DEF LimitOnPath
    <3>2. v.low - c.verify <= price /\ price <= v.high + c.verify
      BY <1>1, <2>5
    <3> QED  BY <2>5, <3>1, <3>2 DEF r, path
  <2>7. CASE /\ ~LimitHit(c, o.side, At(price), o.limit)
             /\ \E i \in from + 1 .. 4 : LimitHit(c, o.side, At(path[i]), o.limit)
    <3>1. r.armed = TRUE /\ r.price = o.limit
      BY <2>1, <2>7 DEF LimitOnPath
    <3>2. PICK i \in from + 1 .. 4 : LimitHit(c, o.side, At(path[i]), o.limit)
      BY <2>7
    <3>3. path[i] \in Nat /\ v.low <= path[i] /\ path[i] <= v.high
      BY <1>1, <2>4
    <3>4. v.low - c.verify <= o.limit /\ o.limit <= v.high + c.verify
      <4>1. CASE o.side = "long"
        <5>1. path[i] <= o.limit - c.verify /\ price > o.limit - c.verify
          BY <1>1, <2>5, <2>7, <3>2, <3>3, <4>1 DEF LimitHit, At
        <5> QED  BY <1>1, <2>5, <3>3, <5>1
      <4>2. CASE o.side # "long"
        <5>1. path[i] >= o.limit + c.verify /\ price < o.limit + c.verify
          BY <1>1, <2>5, <2>7, <3>2, <3>3, <4>2 DEF LimitHit, At
        <5> QED  BY <1>1, <2>5, <3>3, <5>1
      <4> QED  BY <4>1, <4>2
    <3> QED  BY <1>1, <3>1, <3>4 DEF r, path
  <2>8. CASE /\ ~LimitHit(c, o.side, At(price), o.limit)
             /\ ~\E i \in from + 1 .. 4 : LimitHit(c, o.side, At(path[i]), o.limit)
    <3>1. r.armed = TRUE /\ r.price = NoPrice
      BY <2>1, <2>8 DEF LimitOnPath
    <3> QED  BY <3>1 DEF r, path
  <2> QED  BY <2>6, <2>7, <2>8
<1> QED  BY <1>2, <1>3 DEF path

\* A price an order triggers at, if it does, is one the bar has seen, or the
\* price of an order for the close.
LEMMA TriggerPrice ==
    ASSUME NEW c \in Config, NEW v \in OkBar,
           NEW o, o.side \in Side, Price(o.limit), Price(o.stop)
    PROVE  LET r == Trigger(c, o, v)
           IN  /\ r.armed \in BOOLEAN
               /\ o.market => r.price = o.price
               /\ ~o.market /\ r.price # NoPrice =>
                     /\ r.price \in Nat
                     /\ v.low - c.verify <= r.price /\ r.price <= v.high + c.verify
                     /\ o.stop = NoPrice \/ o.limit = NoPrice =>
                           v.low <= r.price /\ r.price <= v.high
<1> DEFINE r == Trigger(c, o, v)
<1>1. CASE o.market
  <2>1. r.armed = FALSE /\ r.price = o.price
    BY <1>1 DEF Trigger
  <2> QED  BY <1>1, <2>1
<1>2. CASE ~o.market /\ o.stop # NoPrice /\ o.limit # NoPrice
  <2>1. r = StopLimit(c, o, PathOf(c, v))
    BY <1>2 DEF Trigger
  <2> HIDE DEF r
  <2>2. /\ r.armed \in BOOLEAN
        /\ r.price # NoPrice =>
              /\ r.price \in Nat
              /\ v.low - c.verify <= r.price /\ r.price <= v.high + c.verify
    BY <1>2, <2>1, StopLimitPrice
  <2> QED  BY <1>2, <2>2 DEF r
<1>3. CASE ~o.market /\ ~(o.stop # NoPrice /\ o.limit # NoPrice)
  <2>1. /\ r.armed = FALSE
        /\ r.price = IF StopHit(o.side, v, o.stop) THEN StopPrice(o.side, v, o.stop)
                     ELSE IF LimitHit(c, o.side, v, o.limit) THEN LimitPrice(o.side, v, o.limit)
                     ELSE NoPrice
    BY <1>3 DEF Trigger
  <2> HIDE DEF r
  <2>2. r.price # NoPrice => r.price \in Nat /\ v.low <= r.price /\ r.price <= v.high
    <3>1. CASE StopHit(o.side, v, o.stop)
      BY <2>1, <3>1, StopPriceIs
    <3>2. CASE ~StopHit(o.side, v, o.stop) /\ LimitHit(c, o.side, v, o.limit)
      BY <2>1, <3>2, LimitPriceIs
    <3>3. CASE ~StopHit(o.side, v, o.stop) /\ ~LimitHit(c, o.side, v, o.limit)
      BY <2>1, <3>3
    <3> QED  BY <3>1, <3>2, <3>3
  <2>3. v.low \in Nat /\ v.high \in Nat /\ c.verify \in Nat
    BY BarIs, ConfigIs
  <2>4. r.price # NoPrice => v.low - c.verify <= r.price /\ r.price <= v.high + c.verify
    BY <2>2, <2>3
  <2> QED  BY <1>3, <2>1, <2>2, <2>4 DEF r
<1> QED  BY <1>1, <1>2, <1>3

LEMMA CappedIs ==
    ASSUME NEW c \in Config, NEW side \in Side, NEW P \in Int, NEW want \in Nat
    PROVE  LET q == Capped(c, side, P, want)
           IN  /\ q \in Nat /\ q <= want
               /\ c.maxSize # Unlimited /\ q # 0 => q <= c.maxSize - Max2(Sign(side) * P, 0)
<1>1. c.maxSize \in Nat \cup {Unlimited} /\ Sign(side) * P \in Int
  BY ConfigIs, SideSign
<1> DEFINE m == Sign(side) * P
<1>2. Capped(c, side, P, want) = IF c.maxSize = Unlimited THEN want ELSE Max2(Min2(want, c.maxSize - Max2(m, 0)), 0)
  BY DEF Capped
<1> HIDE DEF m
<1>3. m \in Int
  BY <1>1 DEF m
<1>4. LET q == Capped(c, side, P, want)
      IN  q \in Nat /\ q <= want /\ (c.maxSize # Unlimited /\ q # 0 => q <= c.maxSize - Max2(m, 0))
  BY <1>1, <1>2, <1>3, SMTT(60) DEF Max2, Min2, Unlimited
<1> QED  BY <1>4 DEF m
=============================================================================
