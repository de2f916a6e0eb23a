--------------------------- MODULE ClmmMathProofs ---------------------------
(***************************************************************************)
(* What the arithmetic of ClmmMath guarantees for every width and every    *)
(* price table: the types of its results, and that a step of a swap never  *)
(* takes the price past the target it was given, whichever way it goes and *)
(* whichever amount is fixed.                                              *)
(***************************************************************************)
EXTENDS ClmmMath, TLAPS

----------------------------------------------------------------------------
(* Integer arithmetic.                                                     *)

\* A remainder is below its divisor.
LEMMA ModType ==
    ASSUME NEW x \in Int, NEW n \in Nat \ {0}
    PROVE  x % n \in 0 .. n - 1
OBVIOUS

\* What a floored quotient is.
LEMMA DivType ==
    ASSUME NEW x \in Nat, NEW n \in Nat \ {0}
    PROVE  /\ x \div n \in Nat
           /\ n * (x \div n) <= x
           /\ x < n * ((x \div n) + 1)
OBVIOUS

\* Multiplication by a natural number is monotone.
LEMMA MulMono ==
    ASSUME NEW a \in Int, NEW b \in Int, NEW c \in Nat, a <= b
    PROVE  c * a <= c * b
OBVIOUS

\* A natural factor can be cancelled from an inequality.
LEMMA MulCancel ==
    ASSUME NEW a \in Int, NEW b \in Int, NEW c \in Nat, c * a < c * b
    PROVE  a < b
OBVIOUS

\* Natural numbers are closed under multiplication.
LEMMA MulNat ==
    ASSUME NEW a \in Nat, NEW b \in Nat
    PROVE  a * b \in Nat
OBVIOUS

\* So are positive ones.
LEMMA MulPos ==
    ASSUME NEW a \in Nat \ {0}, NEW b \in Nat \ {0}
    PROVE  a * b \in Nat \ {0}
OBVIOUS

(***************************************************************************)
(* A quotient lies between the integers its dividend lies between the      *)
(* multiples of, rounded down or up.                                       *)
(***************************************************************************)
LEMMA FloorBetween ==
    ASSUME NEW n \in Nat, NEW d \in Nat \ {0}, NEW lo \in Nat, NEW hi \in Nat,
           d * lo <= n, n <= d * hi
    PROVE  /\ n \div d \in Nat
           /\ lo <= n \div d
           /\ n \div d <= hi
<1> DEFINE q == n \div d
<1>1. q \in Nat /\ d * q <= n /\ n < d * (q + 1)
  BY DivType
<1> HIDE DEF q
<1>2. lo < q + 1
  <2>1. d * lo < d * (q + 1)
    BY <1>1, MulNat
  <2> QED BY <1>1, <2>1, MulCancel
<1>3. q < hi + 1
  <2>1. d * (hi + 1) = d * hi + d
    OBVIOUS
  <2>2. d * q < d * (hi + 1)
    BY <1>1, <2>1, MulNat
  <2> QED BY <1>1, <2>2, MulCancel
<1> QED BY <1>1, <1>2, <1>3 DEF q

\* The same of a quotient rounded up.
LEMMA CeilBetween ==
    ASSUME NEW n \in Nat, NEW d \in Nat \ {0}, NEW lo \in Nat, NEW hi \in Nat,
           d * lo <= n, n <= d * hi
    PROVE  /\ (n + d - 1) \div d \in Nat
           /\ lo <= (n + d - 1) \div d
           /\ (n + d - 1) \div d <= hi
<1> DEFINE q == (n + d - 1) \div d
<1>1. q \in Nat /\ d * q <= n + d - 1 /\ n + d - 1 < d * (q + 1)
  BY DivType, n + d - 1 \in Nat
<1> HIDE DEF q
<1>2. lo < q + 1
  <2>1. d * lo < d * (q + 1)
    BY <1>1, MulNat
  <2> QED BY <1>1, <2>1, MulCancel
<1>3. q < hi + 1
  <2>1. d * (hi + 1) = d * hi + d
    OBVIOUS
  <2>2. d * q < d * (hi + 1)
    BY <1>1, <2>1, MulNat
  <2> QED BY <1>1, <2>2, MulCancel
<1> QED BY <1>1, <1>2, <1>3 DEF q

(***************************************************************************)
(* An integer below a quotient, rounded either way, times the divisor is   *)
(* below the dividend.                                                     *)
(***************************************************************************)
LEMMA BelowQuotient ==
    ASSUME NEW n \in Nat, NEW d \in Nat \ {0}, NEW up \in BOOLEAN, NEW x \in Nat,
           x < DivRoundUpIf(n, d, up)
    PROVE  d * x < n
<1>1. CASE up
  <2> DEFINE q == (n + d - 1) \div d
  <2>1. q \in Nat /\ d * q <= n + d - 1
    BY DivType, n + d - 1 \in Nat
  <2>2. x + 1 <= q
    BY <1>1, <2>1 DEF DivRoundUpIf
  <2> HIDE DEF q
  <2>3. d * (x + 1) <= d * q
    BY <2>1, <2>2, MulMono
  <2>4. d * (x + 1) = d * x + d
    OBVIOUS
  <2> QED BY <2>1, <2>3, <2>4, MulNat
<1>2. CASE ~up
  <2> DEFINE q == n \div d
  <2>1. q \in Nat /\ d * q <= n
    BY DivType
  <2>2. x + 1 <= q
    BY <1>2, <2>1 DEF DivRoundUpIf
  <2> HIDE DEF q
  <2>3. d * (x + 1) <= d * q
    BY <2>1, <2>2, MulMono
  <2>4. d * (x + 1) = d * x + d
    OBVIOUS
  <2> QED BY <2>1, <2>3, <2>4, MulNat
<1> QED BY <1>1, <1>2

----------------------------------------------------------------------------
(* One step's price, in the four ways a swap can go.  P is the price the   *)
(* step starts from, T its target, L the liquidity, x an amount that does  *)
(* not reach the target.                                                   *)

Q64Type == Q64 \in Nat \ {0}

\* Token a comes in: the price falls, not below T if x is less than T takes.
LEMMA PriceAfterAIn ==
    ASSUME Q64Type, NEW P \in Nat \ {0}, NEW T \in Nat \ {0}, NEW L \in Nat, NEW x \in Nat,
           T <= P,
           x < DivRoundUpIf(L * (P - T) * Q64, P * T, TRUE),
           NEW next, next = GetNextSqrtPriceFromARoundUp(P, L, x, TRUE), next # Err
    PROVE  next \in T .. P
<1> USE DEF Q64Type
<1> DEFINE n == L * (P - T) * Q64
           N == L * P * Q64
           D == L * Q64 + P * x
<1>1. CASE x = 0
  BY <1>1 DEF GetNextSqrtPriceFromARoundUp
<1>2. CASE x # 0
  <2>1. n \in Nat /\ N \in Nat /\ P * T \in Nat \ {0}
    BY MulNat, MulPos
  <2>2. (P * T) * x < n
    BY <2>1, BelowQuotient
  <2>3. D \in Nat \ {0}
    BY <1>2, MulNat, MulPos
  <2>4. D * T <= N
    <3>1. D * T = L * T * Q64 + (P * T) * x
      OBVIOUS
    <3>2. n = N - L * T * Q64
      OBVIOUS
    <3> QED BY <2>1, <2>2, <3>1, <3>2, MulNat
  <2>5. N <= D * P
    <3>1. D * P = N + P * (P * x)
      OBVIOUS
    <3>2. P * (P * x) \in Nat
      BY MulNat
    <3> QED BY <2>1, <3>1, <3>2
  <2>6. next = (N + D - 1) \div D
    BY <1>2, <2>3 DEF GetNextSqrtPriceFromARoundUp, DivRoundUpIf, Checked, Err
  <2> HIDE DEF n, N, D
  <2>7. (N + D - 1) \div D \in T .. P
    BY <2>1, <2>3, <2>4, <2>5, CeilBetween
  <2> QED BY <2>6, <2>7
<1> QED BY <1>1, <1>2

\* Token a goes out: the price rises, not above T if x is less than T gives.
LEMMA PriceAfterAOut ==
    ASSUME Q64Type, NEW P \in Nat \ {0}, NEW T \in Nat \ {0}, NEW L \in Nat, NEW x \in Nat,
           P <= T,
           x < DivRoundUpIf(L * (T - P) * Q64, T * P, FALSE),
           NEW next, next = GetNextSqrtPriceFromARoundUp(P, L, x, FALSE), next # Err
    PROVE  next \in P .. T
<1> USE DEF Q64Type
<1> DEFINE n == L * (T - P) * Q64
           N == L * P * Q64
           D == L * Q64 + (-(P * x))
<1>1. CASE x = 0
  BY <1>1 DEF GetNextSqrtPriceFromARoundUp
<1>2. CASE x # 0
  <2>1. n \in Nat /\ N \in Nat /\ T * P \in Nat \ {0}
    BY MulNat, MulPos
  <2>2. (T * P) * x < n
    BY <2>1, BelowQuotient
  <2>3. D \in Nat \ {0}
    <3>1. D \in Int
      BY MulNat
    <3>2. ~(D <= 0)
      <4>1. SUFFICES ASSUME D <= 0 PROVE FALSE
        OBVIOUS
      <4>2. GetNextSqrtPriceFromARoundUp(P, L, x, FALSE) = Err
        BY <1>2, <4>1, Zenon DEF GetNextSqrtPriceFromARoundUp
      <4> QED BY <4>2
    <3> HIDE DEF D
    <3> QED BY <3>1, <3>2
  <2>4. D * P <= N
    <3>1. D * P = N - P * (P * x)
      OBVIOUS
    <3>2. P * (P * x) \in Nat
      BY MulNat
    <3> QED BY <2>1, <3>1, <3>2
  <2>5. N <= D * T
    <3>1. D * T = L * T * Q64 - (T * P) * x
      OBVIOUS
    <3>2. n = L * T * Q64 - N
      OBVIOUS
    <3> QED BY <2>1, <2>2, <3>1, <3>2, MulNat
  <2>6. next = (N + D - 1) \div D
    BY <1>2, <2>3 DEF GetNextSqrtPriceFromARoundUp, DivRoundUpIf, Checked, Err
  <2> HIDE DEF n, N, D
  <2>7. (N + D - 1) \div D \in P .. T
    BY <2>1, <2>3, <2>4, <2>5, CeilBetween
  <2> QED BY <2>6, <2>7
<1> QED BY <1>1, <1>2

\* Token b comes in: the price rises, not above T if x is less than T takes.
LEMMA PriceAfterBIn ==
    ASSUME Q64Type, NEW P \in Nat \ {0}, NEW T \in Nat \ {0}, NEW L \in Nat, NEW x \in Nat,
           P <= T,
           x < DivRoundUpIf(L * (T - P), Q64, TRUE),
           NEW next, next = GetNextSqrtPriceFromBRoundDown(P, L, x, TRUE), next # Err
    PROVE  next \in P .. T
<1> USE DEF Q64Type
<1> DEFINE n == L * (T - P)
           N == x * Q64
<1>1. n \in Nat /\ N \in Nat
  BY MulNat
<1>2. Q64 * x < n
  BY <1>1, BelowQuotient
<1>3. L # 0
  BY <1>1, <1>2
<1>4. next = P + (N \div L)
  BY <1>3 DEF GetNextSqrtPriceFromBRoundDown, DivRoundUpIf, Checked, Err
<1>5. N <= L * (T - P) /\ L * 0 <= N
  BY <1>1, <1>2
<1> HIDE DEF n, N
<1> DEFINE q == N \div L
<1>6. q \in Nat /\ q <= T - P
  BY <1>1, <1>3, <1>5, FloorBetween, T - P \in Nat
<1>7. next = P + q
  BY <1>4
<1> HIDE DEF q
<1>8. P + q \in P .. T
  BY <1>6
<1> QED BY <1>7, <1>8

\* Token b goes out: the price falls, not below T if x is less than T gives.
LEMMA PriceAfterBOut ==
    ASSUME Q64Type, NEW P \in Nat \ {0}, NEW T \in Nat \ {0}, NEW L \in Nat, NEW x \in Nat,
           T <= P,
           x < DivRoundUpIf(L * (P - T), Q64, FALSE),
           NEW next, next = GetNextSqrtPriceFromBRoundDown(P, L, x, FALSE), next # Err
    PROVE  next \in T .. P
<1> USE DEF Q64Type
<1> DEFINE n == L * (P - T)
           N == x * Q64
<1>1. n \in Nat /\ N \in Nat
  BY MulNat
<1>2. Q64 * x < n
  BY <1>1, BelowQuotient
<1>3. L # 0
  BY <1>1, <1>2
<1>4. next = P - ((N + L - 1) \div L)
  BY <1>3 DEF GetNextSqrtPriceFromBRoundDown, DivRoundUpIf, Checked, Err
<1>5. N <= L * (P - T) /\ L * 0 <= N
  BY <1>1, <1>2
<1> HIDE DEF n, N
<1> DEFINE q == (N + L - 1) \div L
<1>6. q \in Nat /\ q <= P - T
  BY <1>1, <1>3, <1>5, CeilBetween, P - T \in Nat
<1>7. next = P - q
  BY <1>4
<1> HIDE DEF q
<1>8. P - q \in T .. P
  BY <1>6
<1> QED BY <1>7, <1>8

----------------------------------------------------------------------------
(* Quotients rounded up.                                                   *)

\* A quotient rounded up.
CeilDiv(n, d) == (n + d - 1) \div d

\* It is what DivRoundUpIf gives when asked to round up.
LEMMA CeilIsDivRoundUp ==
    ASSUME NEW n, NEW d, d # 0
    PROVE  DivRoundUpIf(n, d, TRUE) = CeilDiv(n, d)
BY DEF DivRoundUpIf, CeilDiv

\* Times the divisor it is enough, and not by a whole divisor more.
LEMMA CeilType ==
    ASSUME NEW n \in Nat, NEW d \in Nat \ {0}
    PROVE  /\ CeilDiv(n, d) \in Nat
           /\ n <= d * CeilDiv(n, d)
           /\ d * CeilDiv(n, d) < n + d
<1> DEFINE q == (n + d - 1) \div d
<1>1. q \in Nat /\ d * q <= n + d - 1 /\ n + d - 1 < d * (q + 1)
  BY DivType, n + d - 1 \in Nat
<1>2. CeilDiv(n, d) = q
  BY DEF CeilDiv
<1> HIDE DEF q
<1>3. d * (q + 1) = d * q + d
  BY <1>1
<1>4. d * q \in Nat
  BY <1>1, MulNat
<1>5. n <= d * q /\ d * q < n + d
  BY <1>1, <1>3, <1>4
<1> QED BY <1>1, <1>2, <1>5

\* It is at least x as soon as one less than x is not enough.
LEMMA CeilAtLeast ==
    ASSUME NEW n \in Nat, NEW d \in Nat \ {0}, NEW x \in Int, d * (x - 1) < n
    PROVE  x <= CeilDiv(n, d)
<1> DEFINE q == CeilDiv(n, d)
<1>1. q \in Nat /\ n <= d * q
  BY CeilType
<1> HIDE DEF q
<1>2. d * (x - 1) \in Int /\ d * q \in Int
  BY <1>1
<1>3. d * (x - 1) < d * q
  BY <1>1, <1>2
<1>4. x - 1 < q
  BY <1>1, <1>3, MulCancel, x - 1 \in Int
<1> QED BY <1>1, <1>4 DEF q

\* It is at most x when x is enough.
LEMMA CeilAtMost ==
    ASSUME NEW n \in Nat, NEW d \in Nat \ {0}, NEW x \in Int, n <= d * x
    PROVE  CeilDiv(n, d) <= x
<1> DEFINE q == CeilDiv(n, d)
<1>1. q \in Nat /\ d * q < n + d
  BY CeilType
<1> HIDE DEF q
<1>2. d * (x + 1) = d * x + d
  OBVIOUS
<1>3. d * x \in Int /\ d * q \in Int
  BY <1>1
<1>4. d * q < d * (x + 1)
  BY <1>1, <1>2, <1>3
<1>5. q < x + 1
  BY <1>1, <1>4, MulCancel, x + 1 \in Int
<1> QED BY <1>1, <1>5 DEF q

----------------------------------------------------------------------------
(* One step of a swap.                                                     *)

\* An amount between two prices that is no error is a u64.
LEMMA GetAmountDeltaType ==
    ASSUME NEW token, NEW p0, NEW p1, NEW L, NEW up,
           GetAmountDelta(token, p0, p1, L, up) # Err
    PROVE  GetAmountDelta(token, p0, p1, L, up) \in U64
BY DEF GetAmountDelta, GetAmountDeltaA, GetAmountDeltaB, Checked

(***************************************************************************)
(* The amount a step has left after its fee, and whether it gets to the    *)
(* target, as ComputeSwap decides.                                         *)
(***************************************************************************)
AfterFee(remaining, feeRate, isInput) ==
    IF isInput THEN (remaining * (FEE_RATE_MUL_VALUE - feeRate)) \div FEE_RATE_MUL_VALUE
    ELSE remaining

FixedAmount(L, current, to, isInput, aToB) ==
    GetAmountDelta(FixedToken(isInput, aToB), current, to, L, isInput)

StepPrice(remaining, feeRate, L, current, target, isInput, aToB) ==
    IF AfterFee(remaining, feeRate, isInput) >= FixedAmount(L, current, target, isInput, aToB)
    THEN target
    ELSE GetNextSqrtPrice(current, L, AfterFee(remaining, feeRate, isInput), isInput, aToB)

\* What a successful compute_swap returns: u64 amounts, and the target or the price the
\* amount leads to when it does not take the price to the target.
LEMMA ComputeSwapOk ==
    ASSUME NEW remaining \in U64, NEW feeRate, NEW L, NEW current, NEW target,
           NEW isInput \in BOOLEAN, NEW aToB \in BOOLEAN,
           ComputeSwap(remaining, feeRate, L, current, target, isInput, aToB).ok
    PROVE  LET c == ComputeSwap(remaining, feeRate, L, current, target, isInput, aToB)
           IN  /\ c.amount_in \in U64
               /\ c.amount_out \in U64
               /\ c.fee_amount \in U64
               /\ c.next_price = StepPrice(remaining, feeRate, L, current, target, isInput, aToB)
               /\ c.next_price # Err
               /\ FixedAmount(L, current, target, isInput, aToB) \in U64
<1> DEFINE fixed(to) == FixedAmount(L, current, to, isInput, aToB)
           unfixed(to) ==
               GetAmountDelta(UnfixedToken(isInput, aToB), current, to, L, ~isInput)
           next == StepPrice(remaining, feeRate, L, current, target, isInput, aToB)
           amountIn == IF isInput THEN fixed(next) ELSE unfixed(next)
           amountOut == IF isInput THEN unfixed(next) ELSE Lesser(fixed(next), remaining)
           fee == StepFee(remaining, amountIn, feeRate, isInput, next = target)
           failed == \/ fixed(target) = Err \/ next = Err
                     \/ fixed(next) = Err \/ unfixed(next) = Err
                     \/ fee \notin U64
           c == ComputeSwap(remaining, feeRate, L, current, target, isInput, aToB)
<1>1. c = IF failed THEN [ok |-> FALSE]
          ELSE [ok |-> TRUE, amount_in |-> amountIn, amount_out |-> amountOut,
                next_price |-> next, fee_amount |-> fee]
  BY DEF ComputeSwap, StepPrice, FixedAmount, AfterFee
<1> HIDE DEF fixed, unfixed, next, amountIn, amountOut, fee, c
<1>2. ~failed
  BY <1>1 DEF c
<1>3. /\ c.amount_in = amountIn
      /\ c.amount_out = amountOut
      /\ c.next_price = next
      /\ c.fee_amount = fee
  BY <1>1, <1>2
<1>4. \A to : fixed(to) # Err => fixed(to) \in U64
  BY GetAmountDeltaType DEF fixed, FixedAmount
<1>5. \A to : unfixed(to) # Err => unfixed(to) \in U64
  BY GetAmountDeltaType DEF unfixed
<1>6. amountIn \in U64
  BY <1>2, <1>4, <1>5 DEF amountIn
<1>7. amountOut \in U64
  BY <1>2, <1>4, <1>5 DEF amountOut, Lesser
<1>8. fixed(target) \in U64
  BY <1>2, <1>4
<1> QED BY <1>2, <1>3, <1>6, <1>7, <1>8 DEF c, next, fixed

\* An amount less its fee is an amount.
LEMMA AfterFeeType ==
    ASSUME NEW remaining \in Nat, NEW feeRate \in 0 .. FEE_RATE_MUL_VALUE - 1,
           NEW isInput \in BOOLEAN
    PROVE  AfterFee(remaining, feeRate, isInput) \in Nat
<1>1. remaining * (FEE_RATE_MUL_VALUE - feeRate) \in Nat
  BY MathAssumption, MulNat, FEE_RATE_MUL_VALUE - feeRate \in Nat
<1>2. (remaining * (FEE_RATE_MUL_VALUE - feeRate)) \div FEE_RATE_MUL_VALUE \in Nat
  BY <1>1, DivType, MathAssumption
<1> QED BY <1>2 DEF AfterFee

(***************************************************************************)
(* A step of a swap never passes its target (compute_swap): the price it   *)
(* returns lies between the price it started from and the target.          *)
(***************************************************************************)
THEOREM StepStaysBeforeTarget ==
    ASSUME NEW remaining \in U64, NEW feeRate \in 0 .. FEE_RATE_MUL_VALUE - 1,
           NEW L \in U128, NEW P \in Nat \ {0}, NEW T \in Nat \ {0},
           NEW isInput \in BOOLEAN, NEW aToB \in BOOLEAN,
           IF aToB THEN T <= P ELSE P <= T,
           ComputeSwap(remaining, feeRate, L, P, T, isInput, aToB).ok
    PROVE  LET next == ComputeSwap(remaining, feeRate, L, P, T, isInput, aToB).next_price
           IN  next \in IF aToB THEN T .. P ELSE P .. T
<1> DEFINE x == AfterFee(remaining, feeRate, isInput)
           full == FixedAmount(L, P, T, isInput, aToB)
           next == ComputeSwap(remaining, feeRate, L, P, T, isInput, aToB).next_price
<1>1. /\ next = StepPrice(remaining, feeRate, L, P, T, isInput, aToB)
      /\ next # Err
      /\ full \in U64
  BY ComputeSwapOk
<1>2. /\ Q64Type
      /\ L \in Nat
      /\ remaining \in Nat
  BY MathAssumption DEF U128, U64, Q64Type
<1>3. x \in Nat
  BY <1>2, AfterFeeType
<1>4. CASE x >= full
  <2>1. next = T
    BY <1>1, <1>4 DEF StepPrice
  <2> QED BY <2>1
<1>5. CASE ~(x >= full)
  <2>1. next = GetNextSqrtPrice(P, L, x, isInput, aToB)
    BY <1>1, <1>5 DEF StepPrice
  <2>2. x < full
    BY <1>1, <1>3, <1>5 DEF U64
  <2>3. full # Err
    BY <1>1 DEF U64, Err
  <2> HIDE DEF x, next
  <2>4. CASE isInput /\ aToB
    <3>0. Lesser(P, T) = T /\ Greater(P, T) = P
      BY <2>4 DEF Lesser, Greater
    <3>1. full = DivRoundUpIf(L * (P - T) * Q64, P * T, TRUE)
      BY <2>3, <2>4, <3>0 DEF FixedAmount, FixedToken, GetAmountDelta, GetAmountDeltaA,
                              Checked
    <3>2. next = GetNextSqrtPriceFromARoundUp(P, L, x, TRUE)
      BY <2>1, <2>4 DEF GetNextSqrtPrice
    <3> QED BY <1>1, <1>2, <1>3, <2>2, <2>4, <3>1, <3>2, PriceAfterAIn DEF next
  <2>5. CASE ~isInput /\ ~aToB
    <3>1. full = DivRoundUpIf(L * (T - P) * Q64, T * P, FALSE)
      BY <2>3, <2>5 DEF FixedAmount, FixedToken, GetAmountDelta, GetAmountDeltaA,
                        Checked, Lesser, Greater
    <3>2. next = GetNextSqrtPriceFromARoundUp(P, L, x, FALSE)
      BY <2>1, <2>5 DEF GetNextSqrtPrice
    <3> QED BY <1>1, <1>2, <1>3, <2>2, <2>5, <3>1, <3>2, PriceAfterAOut DEF next
  <2>6. CASE isInput /\ ~aToB
    <3>1. full = DivRoundUpIf(L * (T - P), Q64, TRUE)
      BY <2>3, <2>6 DEF FixedAmount, FixedToken, GetAmountDelta, GetAmountDeltaB,
                        Checked, Lesser, Greater
    <3>2. next = GetNextSqrtPriceFromBRoundDown(P, L, x, TRUE)
      BY <2>1, <2>6 DEF GetNextSqrtPrice
    <3> QED BY <1>1, <1>2, <1>3, <2>2, <2>6, <3>1, <3>2, PriceAfterBIn DEF next
  <2>7. CASE ~isInput /\ aToB
    <3>0. Lesser(P, T) = T /\ Greater(P, T) = P
      BY <2>7 DEF Lesser, Greater
    <3>1. full = DivRoundUpIf(L * (P - T), Q64, FALSE)
      BY <2>3, <2>7, <3>0 DEF FixedAmount, FixedToken, GetAmountDelta, GetAmountDeltaB,
                              Checked
    <3>2. next = GetNextSqrtPriceFromBRoundDown(P, L, x, FALSE)
      BY <2>1, <2>7 DEF GetNextSqrtPrice
    <3> QED BY <1>1, <1>2, <1>3, <2>2, <2>7, <3>1, <3>2, PriceAfterBOut DEF next
  <2> QED BY <2>4, <2>5, <2>6, <2>7
<1> QED BY <1>4, <1>5

----------------------------------------------------------------------------
(* A step that stops short of its target takes all that remains.           *)

\* An integer that the divisor takes below the dividend is no more than the quotient.
LEMMA FloorAtLeast ==
    ASSUME NEW n \in Nat, NEW d \in Nat \ {0}, NEW x \in Int, d * x <= n
    PROVE  x <= n \div d
<1> DEFINE q == n \div d
<1>1. q \in Nat /\ n < d * (q + 1)
  BY DivType
<1> HIDE DEF q
<1>2. d * x \in Int /\ d * (q + 1) \in Int /\ q + 1 \in Int
  BY <1>1
<1>3. d * x < d * (q + 1)
  BY <1>1, <1>2
<1>4. x < q + 1
  BY <1>2, <1>3, MulCancel
<1> QED BY <1>1, <1>4 DEF q

\* Token a goes out: the price rises by enough for the amount.
LEMMA PriceOfAOut ==
    ASSUME Q64Type, NEW P \in Nat \ {0}, NEW L \in Nat, NEW x \in Nat \ {0},
           NEW next, next = GetNextSqrtPriceFromARoundUp(P, L, x, FALSE), next # Err
    PROVE  L * P * Q64 <= (L * Q64 - P * x) * next
<1> USE DEF Q64Type
<1> DEFINE N == L * P * Q64
           D == L * Q64 + (-(P * x))
<1>1. N \in Nat /\ D \in Int
  BY MulNat
<1>2. ~(D <= 0)
  <2>1. SUFFICES ASSUME D <= 0 PROVE FALSE
    OBVIOUS
  <2>2. GetNextSqrtPriceFromARoundUp(P, L, x, FALSE) = Err
    BY <2>1, Zenon DEF GetNextSqrtPriceFromARoundUp
  <2> QED BY <2>2
<1>3. next = (N + D - 1) \div D
  BY <1>2 DEF GetNextSqrtPriceFromARoundUp, DivRoundUpIf, Checked
<1>4. L * Q64 - P * x = D
  OBVIOUS
<1> HIDE DEF N, D
<1>5. N <= D * CeilDiv(N, D)
  BY <1>1, <1>2, CeilType
<1> QED BY <1>3, <1>4, <1>5 DEF CeilDiv, N

\* And between the two prices lies at least that amount.
LEMMA AmountOfAOut ==
    ASSUME Q64Type, NEW P \in Nat \ {0}, NEW L \in Nat, NEW x \in Nat \ {0},
           NEW to \in Nat \ {0}, P <= to,
           L * P * Q64 <= (L * Q64 - P * x) * to
    PROVE  x <= DivRoundUpIf(L * (to - P) * Q64, to * P, FALSE)
<1> USE DEF Q64Type
<1> DEFINE n == L * (to - P) * Q64
           d == to * P
<1>1. n \in Nat /\ d \in Nat \ {0}
  BY MulNat, MulPos, to - P \in Nat
<1>2. d * x <= n
  <2>1. (L * Q64 - P * x) * to = L * Q64 * to - d * x
    OBVIOUS
  <2>2. n = L * Q64 * to - L * P * Q64
    OBVIOUS
  <2>3. L * Q64 * to \in Int /\ d * x \in Int /\ L * P * Q64 \in Int
    OBVIOUS
  <2> HIDE DEF n, d
  <2> QED BY <2>1, <2>2, <2>3
<1> HIDE DEF n, d
<1>3. x <= n \div d
  BY <1>1, <1>2, FloorAtLeast
<1> QED BY <1>1, <1>3 DEF DivRoundUpIf, n, d

\* Token b goes out: the price falls by enough, too.
LEMMA PriceOfBOut ==
    ASSUME Q64Type, NEW P \in Nat \ {0}, NEW L \in Nat, NEW x \in Nat \ {0},
           NEW next, next = GetNextSqrtPriceFromBRoundDown(P, L, x, FALSE), next # Err
    PROVE  Q64 * x <= L * (P - next)
<1> USE DEF Q64Type
<1> DEFINE N == x * Q64
           q == CeilDiv(N, L)
<1>1. L # 0
  BY DEF GetNextSqrtPriceFromBRoundDown, DivRoundUpIf
<1>2. N \in Nat /\ N = Q64 * x
  BY MulNat
<1>3. DivRoundUpIf(N, L, TRUE) = q
  BY <1>1, CeilIsDivRoundUp
<1> HIDE DEF N
<1>4. q \in Nat /\ N <= L * q
  BY <1>1, <1>2, CeilType
<1> HIDE DEF q
<1>5. q # Err
  BY <1>4 DEF Err
<1>6. next = P - q
  BY <1>3, <1>5 DEF GetNextSqrtPriceFromBRoundDown, Checked, N
<1>7. P - (P - q) = q
  BY <1>4
<1> QED BY <1>2, <1>4, <1>6, <1>7

LEMMA AmountOfBOut ==
    ASSUME Q64Type, NEW P \in Nat \ {0}, NEW L \in Nat, NEW x \in Nat \ {0},
           NEW to \in Nat, to <= P, Q64 * x <= L * (P - to)
    PROVE  x <= DivRoundUpIf(L * (P - to), Q64, FALSE)
<1> USE DEF Q64Type
<1> DEFINE n == L * (P - to)
<1>1. n \in Nat
  BY MulNat, P - to \in Nat
<1> HIDE DEF n
<1>2. x <= n \div Q64
  BY <1>1, FloorAtLeast DEF n
<1> QED BY <1>2 DEF DivRoundUpIf, n

\* The rest of what a successful compute_swap returns.
LEMMA ComputeSwapAmounts ==
    ASSUME NEW remaining, NEW feeRate, NEW L, NEW current, NEW target,
           NEW isInput \in BOOLEAN, NEW aToB \in BOOLEAN,
           ComputeSwap(remaining, feeRate, L, current, target, isInput, aToB).ok
    PROVE  LET c == ComputeSwap(remaining, feeRate, L, current, target, isInput, aToB)
               fixed == FixedAmount(L, current, c.next_price, isInput, aToB)
           IN  /\ fixed \in U64
               /\ ~isInput => c.amount_out = Lesser(fixed, remaining)
               /\ c.fee_amount = StepFee(remaining, c.amount_in, feeRate, isInput,
                                         c.next_price = target)
<1> DEFINE fixed(to) == FixedAmount(L, current, to, isInput, aToB)
           unfixed(to) ==
               GetAmountDelta(UnfixedToken(isInput, aToB), current, to, L, ~isInput)
           next == StepPrice(remaining, feeRate, L, current, target, isInput, aToB)
           amountIn == IF isInput THEN fixed(next) ELSE unfixed(next)
           amountOut == IF isInput THEN unfixed(next) ELSE Lesser(fixed(next), remaining)
           fee == StepFee(remaining, amountIn, feeRate, isInput, next = target)
           failed == \/ fixed(target) = Err \/ next = Err
                     \/ fixed(next) = Err \/ unfixed(next) = Err
                     \/ fee \notin U64
           c == ComputeSwap(remaining, feeRate, L, current, target, isInput, aToB)
<1>1. c = IF failed THEN [ok |-> FALSE]
          ELSE [ok |-> TRUE, amount_in |-> amountIn, amount_out |-> amountOut,
                next_price |-> next, fee_amount |-> fee]
  BY DEF ComputeSwap, StepPrice, FixedAmount, AfterFee
<1> HIDE DEF fixed, unfixed, next, amountIn, amountOut, fee, c
<1>2. ~failed
  BY <1>1 DEF c
<1>3. /\ c.amount_in = amountIn
      /\ c.amount_out = amountOut
      /\ c.next_price = next
      /\ c.fee_amount = fee
  BY <1>1, <1>2
<1>4. fixed(next) \in U64
  BY <1>2, GetAmountDeltaType DEF fixed, FixedAmount
<1>5. ~isInput => amountOut = Lesser(fixed(next), remaining)
  BY DEF amountOut
<1>6. fee = StepFee(remaining, amountIn, feeRate, isInput, next = target)
  BY DEF fee
<1> QED BY <1>3, <1>4, <1>5, <1>6 DEF c, fixed

(***************************************************************************)
(* A step that stops short of its target takes all that remains            *)
(* (compute_swap): an exact output is given out in full, whatever the      *)
(* price was rounded to; of an exact input the fee takes what the price    *)
(* did not, unless that wraps, and then more was taken than there was.     *)
(***************************************************************************)
THEOREM ShortStepTakesRest ==
    ASSUME NEW remaining \in U64 \ {0}, NEW feeRate \in 0 .. FEE_RATE_MUL_VALUE - 1,
           NEW L \in U128, NEW P \in Nat \ {0}, NEW T \in Nat \ {0},
           NEW isInput \in BOOLEAN, NEW aToB \in BOOLEAN,
           IF aToB THEN T <= P ELSE P <= T,
           ComputeSwap(remaining, feeRate, L, P, T, isInput, aToB).ok,
           ComputeSwap(remaining, feeRate, L, P, T, isInput, aToB).next_price # T
    PROVE  LET c == ComputeSwap(remaining, feeRate, L, P, T, isInput, aToB)
           IN  IF isInput
               THEN \/ remaining - c.amount_in - c.fee_amount = 0
                    \/ remaining - c.amount_in - c.fee_amount < 0
               ELSE c.amount_out = remaining
<1> DEFINE c == ComputeSwap(remaining, feeRate, L, P, T, isInput, aToB)
           next == c.next_price
           fixed == FixedAmount(L, P, next, isInput, aToB)
           Taken == IF isInput
                    THEN \/ remaining - c.amount_in - c.fee_amount = 0
                         \/ remaining - c.amount_in - c.fee_amount < 0
                    ELSE c.amount_out = remaining
<1> SUFFICES Taken
  OBVIOUS
<1>1. /\ Q64Type /\ L \in Nat /\ remaining \in Nat \ {0}
      /\ \A n \in U64 : n \in Nat /\ n < Q64
  BY MathAssumption DEF U128, U64, Q64Type
<1>2. next \in IF aToB THEN T .. P ELSE P .. T
  BY StepStaysBeforeTarget
<1>3. /\ next = StepPrice(remaining, feeRate, L, P, T, isInput, aToB)
      /\ c.amount_in \in U64
  BY ComputeSwapOk
<1>4. next # T
  OBVIOUS
<1>5. /\ fixed \in U64
      /\ ~isInput => c.amount_out = Lesser(fixed, remaining)
      /\ c.fee_amount = StepFee(remaining, c.amount_in, feeRate, isInput, next = T)
  BY ComputeSwapAmounts
<1>6. next = GetNextSqrtPrice(P, L, AfterFee(remaining, feeRate, isInput), isInput, aToB)
  BY <1>3, <1>4 DEF StepPrice
<1>9. remaining < Q64 /\ remaining \in Nat \ {0} /\ c.amount_in \in Nat /\ Q64 \in Nat \ {0}
  BY <1>1, <1>3 DEF Q64Type
<1> HIDE DEF next, c, Taken
<1>7. CASE isInput
  <2> DEFINE rest == remaining - c.amount_in
  <2>1. c.fee_amount = rest % Q64
    BY <1>4, <1>5, <1>7 DEF StepFee
  <2>2. rest \in Int /\ rest < Q64 /\ Q64 \in Nat \ {0} /\ remaining - c.amount_in = rest
    BY <1>1, <1>9
  <2> HIDE DEF rest
  <2>3. rest % Q64 \in Nat /\ (rest >= 0 => rest % Q64 = rest)
    BY <2>2
  <2>4. rest - c.fee_amount = 0 \/ rest - c.fee_amount < 0
    BY <2>1, <2>2, <2>3
  <2> QED BY <1>7, <2>2, <2>4 DEF Taken
<1>8. CASE ~isInput
  <2>1. next \in Nat \ {0} /\ next # Err
    BY <1>2 DEF Err
  <2>0. next = GetNextSqrtPrice(P, L, remaining, FALSE, aToB)
    BY <1>6, <1>8 DEF AfterFee
  <2>2. remaining <= fixed
    <3>1. fixed # Err
      BY <1>1, <1>5 DEF Err
    <3>2. CASE aToB
      <4>0. next \in T .. P /\ next \in Nat
        BY <1>2, <2>1, <3>2
      <4> HIDE DEF fixed
      <4>1. next <= P /\ (Lesser(P, next) = next) /\ (Greater(P, next) = P)
        BY <4>0 DEF Lesser, Greater
      <4>2. fixed = DivRoundUpIf(L * (P - next), Q64, FALSE)
        BY <1>8, <3>1, <3>2, <4>1
           DEF fixed, FixedAmount, FixedToken, GetAmountDelta, GetAmountDeltaB, Checked
      <4>3. next = GetNextSqrtPriceFromBRoundDown(P, L, remaining, FALSE)
        BY <2>0, <3>2 DEF GetNextSqrtPrice
      <4>4. Q64 * remaining <= L * (P - next)
        BY <1>1, <2>1, <4>3, PriceOfBOut
      <4> QED BY <1>1, <2>1, <4>1, <4>2, <4>4, AmountOfBOut
    <3>3. CASE ~aToB
      <4>0. next \in P .. T /\ next \in Nat
        BY <1>2, <2>1, <3>3
      <4> HIDE DEF fixed
      <4>1. P <= next /\ Lesser(P, next) = P /\ Greater(P, next) = next
        BY <4>0 DEF Lesser, Greater
      <4>2. fixed = DivRoundUpIf(L * (next - P) * Q64, next * P, FALSE)
        BY <1>8, <3>1, <3>3, <4>1
           DEF fixed, FixedAmount, FixedToken, GetAmountDelta, GetAmountDeltaA, Checked
      <4>3. next = GetNextSqrtPriceFromARoundUp(P, L, remaining, FALSE)
        BY <2>0, <3>3 DEF GetNextSqrtPrice
      <4>4. L * P * Q64 <= (L * Q64 - P * remaining) * next
        BY <1>1, <2>1, <4>3, PriceOfAOut
      <4> QED BY <1>1, <2>1, <4>1, <4>2, <4>4, AmountOfAOut
    <3> QED BY <3>2, <3>3
  <2> HIDE DEF fixed
  <2>3. Lesser(fixed, remaining) = remaining
    BY <1>1, <1>5, <2>2 DEF Lesser
  <2> QED BY <1>5, <1>8, <2>3 DEF Taken
<1> QED BY <1>7, <1>8

=============================================================================
