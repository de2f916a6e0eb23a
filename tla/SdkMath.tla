------------------------------- MODULE SdkMath -------------------------------
(***************************************************************************)
(* The arithmetic of the TypeScript SDK: the second implementation of what *)
(* ClmmMath takes from the program.  Names are those of the SDK (in lower  *)
(* case: the program's counterpart has the same name with a capital).      *)
(* Integers have no width; a limit is checked where the SDK checks one,    *)
(* and an exception is Err.                                                *)
(***************************************************************************)
EXTENDS TransferFees

Percentage == [numerator : Nat, denominator : Nat \ {0}]

\* A quote whose field ok is FALSE is an exception.
NoQuote == [ok |-> FALSE]

----------------------------------------------------------------------------
(* utils/public/token-extension-util.ts: what is sent for an amount to     *)
(* arrive, and what arrives of an amount sent, in the present epoch.       *)

calculateTransferFeeIncludedAmount(fee, excluded) == SdkIncludedAmount(fee, excluded)
calculateTransferFeeExcludedAmount(fee, included) == included - CalculateFee(fee, included)

----------------------------------------------------------------------------
(* utils/math/bit-math.ts                                                  *)

mulDivRoundUpIf(n0, n1, d, roundUp, T) ==
    IF d = 0 \/ n0 * n1 \notin T THEN Err ELSE DivRoundUpIf(n0 * n1, d, roundUp)

\* The fraction of the product does not decide on the rounding: a quotient that is
\* not zero is rounded up, exact or not, and zero never is.
checked_mul_shift_right_round_up_if(n0, n1, roundUp) ==
    LET result == (n0 * n1) \div Q64
        shouldRound == roundUp /\ result % Q64 > 0
    IN  IF n0 * n1 \notin U128 \/ (shouldRound /\ result = Q64 - 1) THEN Err
        ELSE IF shouldRound THEN result + 1
        ELSE result

\* (The rounding of the program, for a mutant that repairs the SDK.)
shift_right_round_up_if_fraction(n0, n1, roundUp) ==
    IF n0 * n1 \notin U128 THEN Err ELSE DivRoundUpIf(n0 * n1, Q64, roundUp)

----------------------------------------------------------------------------
(* utils/math/token-math.ts                                                *)

getAmountDeltaA(price0, price1, liquidity, roundUp) ==
    LET lower == Lesser(price0, price1)
        upper == Greater(price0, price1)
    IN  Checked(U64, DivRoundUpIf(liquidity * (upper - lower) * Q64, lower * upper, roundUp))

\* (The first form, for a mutant, never rounds up.)
getAmountDeltaBRoundedDown(price0, price1, liquidity, roundUp) ==
    checked_mul_shift_right_round_up_if(liquidity,
        Greater(price0, price1) - Lesser(price0, price1), FALSE)

getAmountDeltaB(price0, price1, liquidity, roundUp) ==
    LET diff == Greater(price0, price1) - Lesser(price0, price1)
    IN  checked_mul_shift_right_round_up_if(liquidity, diff, roundUp)

getNextSqrtPriceFromARoundUp(price, liquidity, amount, isInput) ==
    LET p == price * amount
        numerator == liquidity * price * Q64
        denominator == IF isInput THEN liquidity * Q64 + p ELSE liquidity * Q64 - p
        next == DivRoundUpIf(numerator, denominator, TRUE)
    IN  IF amount = 0 THEN price
        ELSE IF liquidity * price >= Q64 * Q64 * Q64 \/ denominator <= 0 THEN Err
        ELSE Checked(MIN_SQRT_PRICE_X64 .. MAX_SQRT_PRICE_X64, next)

getNextSqrtPriceFromBRoundDown(price, liquidity, amount, isInput) ==
    LET delta == DivRoundUpIf(amount * Q64, liquidity, ~isInput)
    IN  IF delta = Err THEN Err ELSE IF isInput THEN price + delta ELSE price - delta

getNextSqrtPrice(price, liquidity, amount, isInput, aToB) ==
    IF isInput = aToB
    THEN getNextSqrtPriceFromARoundUp(price, liquidity, amount, isInput)
    ELSE getNextSqrtPriceFromBRoundDown(price, liquidity, amount, isInput)

\* (The first form, for a mutant, widens a minimum.)
adjustForSlippageAlwaysUp(n, slippage, adjustUp) ==
    (n * (slippage.denominator + slippage.numerator)) \div slippage.denominator

adjustForSlippage(n, slippage, adjustUp) ==
    IF adjustUp
    THEN (n * (slippage.denominator + slippage.numerator)) \div slippage.denominator
    ELSE (n * slippage.denominator) \div (slippage.denominator + slippage.numerator)

----------------------------------------------------------------------------
(* utils/math/swap-math.ts: one step of a swap.                            *)

getAmountFixedDelta(current, target, liquidity, isInput, aToB) ==
    IF aToB = isInput THEN getAmountDeltaA(current, target, liquidity, isInput)
    ELSE getAmountDeltaB(current, target, liquidity, isInput)

getAmountUnfixedDelta(current, target, liquidity, isInput, aToB) ==
    IF aToB = isInput THEN getAmountDeltaB(current, target, liquidity, ~isInput)
    ELSE getAmountDeltaA(current, target, liquidity, ~isInput)

computeSwapStep(remaining, feeRate, liquidity, current, target, isInput, aToB) ==
    LET fixed(to) == getAmountFixedDelta(current, to, liquidity, isInput, aToB)
        unfixed(to) == getAmountUnfixedDelta(current, to, liquidity, isInput, aToB)
        amountCalc ==
            IF isInput THEN mulDivRoundUpIf(remaining, FEE_RATE_MUL_VALUE - feeRate,
                                            FEE_RATE_MUL_VALUE, FALSE, U128)
            ELSE remaining
        next == IF amountCalc >= fixed(target) THEN target
                ELSE getNextSqrtPrice(current, liquidity, amountCalc, isInput, aToB)
        amountIn == IF isInput THEN fixed(next) ELSE unfixed(next)
        amountOut == IF isInput THEN unfixed(next) ELSE Lesser(fixed(next), remaining)
        rated == mulDivRoundUpIf(amountIn, feeRate, FEE_RATE_MUL_VALUE - feeRate, TRUE, U128)
        fee == IF isInput /\ next # target THEN remaining - amountIn ELSE rated
        failed == \/ amountCalc = Err \/ fixed(target) = Err \/ next = Err
                  \/ fixed(next) = Err \/ unfixed(next) = Err \/ rated = Err
    IN  IF failed THEN [ok |-> FALSE]
        ELSE [ok |-> TRUE, amountIn |-> amountIn, amountOut |-> amountOut,
              nextPrice |-> next, feeAmount |-> fee]

----------------------------------------------------------------------------
(* utils/position-util.ts: the tokens of a position.                       *)

\* By the tick, and by the price: there an end of the range is outside of it.
getPositionStatus(tick, lower, upper) ==
    IF tick < lower THEN "BelowRange" ELSE IF tick < upper THEN "InRange" ELSE "AboveRange"

getStrictPositionStatus(price, lower, upper) ==
    IF price <= SqrtPrice[lower] THEN "BelowRange"
    ELSE IF price >= SqrtPrice[upper] THEN "AboveRange"
    ELSE "InRange"

\* Two roundings, each down, or each up.
getLiquidityFromTokenA(amount, lower, upper, roundUp) ==
    DivRoundUpIf((amount * lower * upper) \div (upper - lower), Q64, roundUp)

getLiquidityFromTokenB(amount, lower, upper, roundUp) ==
    DivRoundUpIf(amount * Q64, upper - lower, roundUp)

getTokenAFromLiquidity(liquidity, price0, price1, roundUp) ==
    LET lower == Lesser(price0, price1)
        upper == Greater(price0, price1)
    IN  DivRoundUpIf(liquidity * (upper - lower) * Q64, upper * lower, roundUp)

getTokenBFromLiquidity(liquidity, price0, price1, roundUp) ==
    DivRoundUpIf(liquidity * (Greater(price0, price1) - Lesser(price0, price1)), Q64, roundUp)

\* utils/swap-utils.ts: the price after an amount, without a check.
getLowerSqrtPriceFromTokenA(amount, liquidity, price) ==
    DivRoundUpIf(liquidity * price * Q64, liquidity * Q64 + amount * price, TRUE)

getUpperSqrtPriceFromTokenA(amount, liquidity, price) ==
    DivRoundUpIf(liquidity * price * Q64, liquidity * Q64 - amount * price, TRUE)

getLowerSqrtPriceFromTokenB(amount, liquidity, price) ==
    price - DivRoundUpIf(amount * Q64, liquidity, TRUE)

getUpperSqrtPriceFromTokenB(amount, liquidity, price) ==
    price + (amount * Q64) \div liquidity

=============================================================================
