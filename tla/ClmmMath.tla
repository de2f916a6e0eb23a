------------------------------ MODULE ClmmMath ------------------------------
(***************************************************************************)
(* The arithmetic of the pool: amounts between two prices, the price an    *)
(* amount leads to, one step of a swap, and the fee split.                 *)
(*                                                                         *)
(* Integers keep their widths.  A u64 is below Q64, a u128 is below Q64^2  *)
(* and a Q64.64 number x stands for x/Q64; in the code Q64 is 2^64, a run  *)
(* gives it a small value and the same expressions round, overflow and     *)
(* wrap at the same places.  A Rust Result is its value, or Err.           *)
(***************************************************************************)
EXTENDS Integers

CONSTANTS
    Q64,                        \* one as a Q64.64 number (TO_Q64)
    MIN_TICK_INDEX,
    MAX_TICK_INDEX,
    SqrtPrice,                  \* sqrt_price_from_tick_index, as a table
    FEE_RATE_MUL_VALUE,         \* the unit of fee_rate
    PROTOCOL_FEE_RATE_MUL_VALUE \* the unit of protocol_fee_rate

TickIndex == MIN_TICK_INDEX .. MAX_TICK_INDEX
U64 == 0 .. Q64 - 1
U128 == 0 .. Q64 * Q64 - 1
Err == -1

MIN_SQRT_PRICE_X64 == SqrtPrice[MIN_TICK_INDEX]
MAX_SQRT_PRICE_X64 == SqrtPrice[MAX_TICK_INDEX]

ASSUME MathAssumption ==
    /\ Q64 \in Nat \ {0, 1}
    /\ MIN_TICK_INDEX \in Int
    /\ MAX_TICK_INDEX \in Int
    /\ MIN_TICK_INDEX < MAX_TICK_INDEX
    /\ SqrtPrice \in [TickIndex -> U128 \ {0}]
    /\ \A t, u \in TickIndex : t < u => SqrtPrice[t] < SqrtPrice[u]
    /\ FEE_RATE_MUL_VALUE \in Nat \ {0}
    /\ PROTOCOL_FEE_RATE_MUL_VALUE \in Nat \ {0}

----------------------------------------------------------------------------
Lesser(x, y) == IF x <= y THEN x ELSE y
Greater(x, y) == IF x <= y THEN y ELSE x

\* n / d, rounded up if asked; Err on d = 0.
DivRoundUpIf(n, d, roundUp) ==
    IF d = 0 THEN Err ELSE IF roundUp THEN (n + d - 1) \div d ELSE n \div d

\* A result that must fit the type T.
Checked(T, x) == IF x \in T THEN x ELSE Err

\* wrapping_add and wrapping_sub on u128 and u64.
WrappingAdd(x, y) == (x + y) % (Q64 * Q64)
WrappingSub(x, y) == (x - y) % (Q64 * Q64)
WrappingAdd64(x, y) == (x + y) % Q64

\* checked_mul_shift_right(n, x).unwrap_or(0): n tokens' worth of growth x, or
\* nothing at all when the product overflows.
MulShiftRightOrZero(n, x) == IF n * x \in U128 THEN (n * x) \div Q64 ELSE 0

\* add_liquidity_delta
AddLiquidityDelta(liquidity, delta) == Checked(U128, liquidity + delta)

\* tick_index_from_sqrt_price: the last tick whose price is not above.
TickIndexFromSqrtPrice(price) ==
    CHOOSE t \in TickIndex :
        /\ SqrtPrice[t] <= price
        /\ t = MAX_TICK_INDEX \/ price < SqrtPrice[t + 1]

----------------------------------------------------------------------------
(* Tokens between two prices, for a liquidity.                             *)

GetAmountDeltaA(price0, price1, liquidity, roundUp) ==
    LET lower == Lesser(price0, price1)
        upper == Greater(price0, price1)
    IN  Checked(U64, DivRoundUpIf(liquidity * (upper - lower) * Q64, upper * lower, roundUp))

GetAmountDeltaB(price0, price1, liquidity, roundUp) ==
    LET diff == Greater(price0, price1) - Lesser(price0, price1)
    IN  Checked(U64, DivRoundUpIf(liquidity * diff, Q64, roundUp))

GetAmountDelta(token, price0, price1, liquidity, roundUp) ==
    IF token = "a" THEN GetAmountDeltaA(price0, price1, liquidity, roundUp)
    ELSE GetAmountDeltaB(price0, price1, liquidity, roundUp)

(* The price after an amount of one token came in or went out.             *)

GetNextSqrtPriceFromARoundUp(price, liquidity, amount, isInput) ==
    LET moved == IF isInput THEN price * amount ELSE -(price * amount)
        denominator == liquidity * Q64 + moved
        next == DivRoundUpIf(liquidity * price * Q64, denominator, TRUE)
    IN  IF amount = 0 THEN price
        ELSE IF denominator <= 0 \/ liquidity * price >= Q64 * Q64 * Q64 THEN Err
        ELSE Checked(MIN_SQRT_PRICE_X64 .. MAX_SQRT_PRICE_X64, next)

GetNextSqrtPriceFromBRoundDown(price, liquidity, amount, isInput) ==
    LET delta == DivRoundUpIf(amount * Q64, liquidity, ~isInput)
    IN  IF delta = Err THEN Err
        ELSE Checked(U128, IF isInput THEN price + delta ELSE price - delta)

GetNextSqrtPrice(price, liquidity, amount, isInput, aToB) ==
    IF isInput = aToB
    THEN GetNextSqrtPriceFromARoundUp(price, liquidity, amount, isInput)
    ELSE GetNextSqrtPriceFromBRoundDown(price, liquidity, amount, isInput)

----------------------------------------------------------------------------
\* The token whose amount the caller fixes, and the other one.
FixedToken(isInput, aToB) == IF isInput = aToB THEN "a" ELSE "b"
UnfixedToken(isInput, aToB) == IF isInput = aToB THEN "b" ELSE "a"

\* The fee of a step.  An exact input that stops short of the target leaves its
\* whole rest as the fee.  (The first form, for a mutant, does not.)
StepFeeByRate(remaining, amountIn, feeRate, isInput, reached) ==
    DivRoundUpIf(amountIn * feeRate, FEE_RATE_MUL_VALUE - feeRate, TRUE)

StepFee(remaining, amountIn, feeRate, isInput, reached) ==
    IF isInput /\ ~reached THEN (remaining - amountIn) % Q64
    ELSE DivRoundUpIf(amountIn * feeRate, FEE_RATE_MUL_VALUE - feeRate, TRUE)

(***************************************************************************)
(* compute_swap: one step towards the target price.  The input is rounded  *)
(* up and the output down, and an exact output never exceeds what is       *)
(* asked for.                                                              *)
(***************************************************************************)
ComputeSwap(remaining, feeRate, liquidity, current, target, isInput, aToB) ==
    LET fixed(to) ==
            GetAmountDelta(FixedToken(isInput, aToB), current, to, liquidity, isInput)
        unfixed(to) ==
            GetAmountDelta(UnfixedToken(isInput, aToB), current, to, liquidity, ~isInput)
        afterFee == IF isInput
                    THEN (remaining * (FEE_RATE_MUL_VALUE - feeRate)) \div FEE_RATE_MUL_VALUE
                    ELSE remaining
        next == IF afterFee >= fixed(target) THEN target
                ELSE GetNextSqrtPrice(current, liquidity, afterFee, isInput, aToB)
        amountIn == IF isInput THEN fixed(next) ELSE unfixed(next)
        amountOut == IF isInput THEN unfixed(next) ELSE Lesser(fixed(next), remaining)
        fee == StepFee(remaining, amountIn, feeRate, isInput, next = target)
        failed == \/ fixed(target) = Err \/ next = Err
                  \/ fixed(next) = Err \/ unfixed(next) = Err
                  \/ fee \notin U64
    IN  IF failed THEN [ok |-> FALSE]
        ELSE [ok |-> TRUE, amount_in |-> amountIn, amount_out |-> amountOut,
              next_price |-> next, fee_amount |-> fee]

\* calculate_protocol_fee and calculate_fees: the protocol's share, and the
\* growth of the input token's fees per unit of liquidity (checked, not
\* wrapping; nobody earns the fee of a step without liquidity).  The second form
\* of the three, for a mutant, pays out the protocol's share as well.
CalculateProtocolFee(fee, protocolFeeRate) ==
    (fee * protocolFeeRate) \div PROTOCOL_FEE_RATE_MUL_VALUE

FeeGrowthOfWholeFee(fee, protocolFeeRate, liquidity) ==
    IF liquidity = 0 THEN 0 ELSE (fee * Q64) \div liquidity

FeeGrowth(fee, protocolFeeRate, liquidity) ==
    IF liquidity = 0 THEN 0
    ELSE ((fee - CalculateProtocolFee(fee, protocolFeeRate)) * Q64) \div liquidity

=============================================================================
