------------------------------ MODULE Rationals ------------------------------
(***************************************************************************)
(* The numbers of the technical analysis library: a present observation is *)
(* an exact fraction <<n, d>> in lowest terms with d > 0, a missing one    *)
(* (NaN in the batch arrays, None in the incremental helpers) is Missing.  *)
(* Binary64 rounding and the two infinities are abstracted away: the code  *)
(* keeps its rolling sums as exact integers and rounds once per output.    *)
(* Every operation propagates Missing the way NaN propagates, comparisons  *)
(* with Missing are false, and a quotient by zero is Missing (0 / 0; the   *)
(* code guards the other quotients by zero).                               *)
(***************************************************************************)
EXTENDS Integers, Sequences, SequencesExt

Missing == <<>>
Present(x) == x # Missing

RECURSIVE Gcd(_, _)
Gcd(a, b) == IF b = 0 THEN a ELSE Gcd(b, a % b)

Magnitude(n) == IF n < 0 THEN -n ELSE n

\* The fraction n / d for d # 0.
Reduced(n, d, g) == IF d < 0 THEN <<-(n \div g), -(d \div g)>> ELSE <<n \div g, d \div g>>
Frac(n, d) == Reduced(n, d, Gcd(Magnitude(n), Magnitude(d)))

Q(n) == <<n, 1>>
Zero == Q(0)

Plus(x, y)  == IF Present(x) /\ Present(y)
               THEN Frac(x[1] * y[2] + y[1] * x[2], x[2] * y[2]) ELSE Missing
Minus(x, y) == IF Present(x) /\ Present(y)
               THEN Frac(x[1] * y[2] - y[1] * x[2], x[2] * y[2]) ELSE Missing
Times(x, y) == IF Present(x) /\ Present(y)
               THEN Frac(x[1] * y[1], x[2] * y[2]) ELSE Missing
Over(x, y)  == IF Present(x) /\ Present(y) /\ y # Zero
               THEN Frac(x[1] * y[2], x[2] * y[1]) ELSE Missing
Size(x)     == IF Present(x) THEN <<Magnitude(x[1]), x[2]>> ELSE Missing

Less(x, y)  == Present(x) /\ Present(y) /\ x[1] * y[2] < y[1] * x[2]
AtMost(x, y) == Less(x, y) \/ (Present(x) /\ x = y)

\* max() and min() of two present numbers; np.maximum and np.minimum propagate Missing.
Larger(x, y)  == IF ~Present(x) \/ ~Present(y) THEN Missing
                 ELSE IF Less(x, y) THEN y ELSE x
Smaller(x, y) == IF ~Present(x) \/ ~Present(y) THEN Missing
                 ELSE IF Less(y, x) THEN y ELSE x

Total(s) == FoldLeft(Plus, Zero, s)
Mean(s) == Over(Total(s), Q(Len(s)))
MeanDeviation(window) ==
    LET mean == Mean(window)
    IN  Mean([i \in DOMAIN window |-> Size(Minus(window[i], mean))])
==============================================================================
