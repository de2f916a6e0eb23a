--------------------------- MODULE PositionQuotes ---------------------------
(***************************************************************************)
(* What the SDK says a position will pay, get and earn: the quotes of the  *)
(* liquidity instructions, whose token limits the transaction will carry,  *)
(* and of the fees and the rewards to collect.                             *)
(*                                                                         *)
(* Snapshots are those of SwapQuotes; fee also has the mint of a reward.   *)
(* The two tokens of a quote are a function from "a" and "b".              *)
(***************************************************************************)
EXTENDS SdkMath, SdkTicks

\* Decimal's rounding of a square root: the nearest integer to price times the
\* root of n/d.
RoundedTimesRoot(price, n, d) ==
    CHOOSE r \in 0 .. price * (Greater(n, 0) \div d + 1) :
        /\ r = 0 \/ (2 * r - 1) * (2 * r - 1) * d <= 4 * price * price * n
        /\ 4 * price * price * n < (2 * r + 1) * (2 * r + 1) * d

InPriceRange(price) == Lesser(Greater(price, MIN_SQRT_PRICE_X64), MAX_SQRT_PRICE_X64)

\* utils/public/price-math.ts, getSlippageBoundForSqrtPrice: the slippage is one of
\* the price, of which this is the root.  (The first form, for a mutant, takes it
\* to be of the root, and half of it for the upper bound.)
getSlippageBoundTooNarrow(price, slippage) ==
    LET d == slippage.denominator
    IN  <<InPriceRange((price * (d - slippage.numerator)) \div d), InPriceRange(price)>>

getSlippageBoundForSqrtPrice(price, slippage) ==
    LET d == slippage.denominator
        bound(n) == InPriceRange(RoundedTimesRoot(price, n, d))
    IN  <<bound(d - slippage.numerator), bound(d + slippage.numerator)>>

----------------------------------------------------------------------------
(* The tokens of some liquidity in a range, at a price.                    *)

getTokenEstimatesFromLiquidity(liquidity, price, lower, upper, roundUp) ==
    LET status == getStrictPositionStatus(price, lower, upper)
        within == IF status = "BelowRange" THEN SqrtPrice[lower]
                  ELSE IF status = "AboveRange" THEN SqrtPrice[upper]
                  ELSE price
    IN  [k \in Token |->
            IF k = "a"
            THEN IF status = "AboveRange" THEN 0
                 ELSE getTokenAFromLiquidity(liquidity, within, SqrtPrice[upper], roundUp)
            ELSE IF status = "BelowRange" THEN 0
                 ELSE getTokenBFromLiquidity(liquidity, SqrtPrice[lower], within, roundUp)]

\* The liquidity some of one token is worth: none of the token on the other side
\* of the range.  (The first form, for a mutant, takes the other side of the price.)
LiquidityOfOtherSide(token, amount, price, lower, upper) ==
    LET within == Lesser(Greater(price, SqrtPrice[lower] + 1), SqrtPrice[upper] - 1)
    IN  IF token = "a" THEN getLiquidityFromTokenA(amount, SqrtPrice[lower], within, FALSE)
        ELSE getLiquidityFromTokenB(amount, within, SqrtPrice[upper], FALSE)

LiquidityOfToken(token, amount, price, lower, upper) ==
    LET status == getStrictPositionStatus(price, lower, upper)
        from == IF status = "InRange" THEN price ELSE SqrtPrice[lower]
        to == IF status = "InRange" THEN price ELSE SqrtPrice[upper]
    IN  IF token = "a"
        THEN IF status = "AboveRange" THEN 0
             ELSE getLiquidityFromTokenA(amount, from, SqrtPrice[upper], FALSE)
        ELSE IF status = "BelowRange" THEN 0
             ELSE getLiquidityFromTokenB(amount, SqrtPrice[lower], to, FALSE)

\* The mint withholds its fee on the way into the vault, or out of it.
Included(data, tokens) ==
    [k \in Token |-> calculateTransferFeeIncludedAmount(data.fee[k], tokens[k])]
Excluded(data, tokens) ==
    [k \in Token |-> calculateTransferFeeExcludedAmount(data.fee[k], tokens[k])]

ZeroTokens == [k \in Token |-> 0]

\* The most and the least of a token at a price and at the bounds around it.
MostOf(x, y, z) == [k \in Token |-> Greater(Greater(x[k], y[k]), z[k])]
LeastOf(x, y, z) == [k \in Token |-> Lesser(Lesser(x[k], y[k]), z[k])]

----------------------------------------------------------------------------
(* quotes/public/increase-liquidity-quote.ts                               *)

IncreaseQuote(data, liquidity, max, est) ==
    LET tokenMax == Included(data, max)
        tokenEst == Included(data, est)
    IN  IF \E k \in Token : tokenMax[k] = Err \/ tokenEst[k] = Err THEN NoQuote
        ELSE [ok |-> TRUE, liquidityAmount |-> liquidity, tokenMax |-> tokenMax,
              tokenEst |-> tokenEst]

increaseLiquidityQuoteByLiquidityWithParams(data, liquidity, lower, upper, slippage) ==
    LET at(price) == getTokenEstimatesFromLiquidity(liquidity, price, lower, upper, TRUE)
        price == data.pool.sqrt_price
        bound == getSlippageBoundForSqrtPrice(price, slippage)
    IN  IF liquidity = 0 THEN IncreaseQuote(data, 0, ZeroTokens, ZeroTokens)
        ELSE IncreaseQuote(data, liquidity, MostOf(at(price), at(bound[1]), at(bound[2])),
                           at(price))

\* The fee of the mint is taken from the input first.
getLiquidityFromInputToken(data, token, amount, lower, upper) ==
    LiquidityOfToken(token, calculateTransferFeeExcludedAmount(data.fee[token], amount),
                     data.pool.sqrt_price, lower, upper)

RangeInBounds(lower, upper) == checkTickInBounds(lower) /\ checkTickInBounds(upper)

increaseLiquidityQuoteByInputTokenWithParamsUsingPriceSlippage(data, token, amount, lower, upper, slippage) ==
    IF ~RangeInBounds(lower, upper) \/ lower >= upper THEN NoQuote
    ELSE increaseLiquidityQuoteByLiquidityWithParams(data,
            getLiquidityFromInputToken(data, token, amount, lower, upper),
            lower, upper, slippage)

\* The caller's ticks are moved to usable ones, towards zero.
increaseLiquidityQuoteByInputTokenUsingPriceSlippage(data, token, amount, lower, upper, slippage) ==
    increaseLiquidityQuoteByInputTokenWithParamsUsingPriceSlippage(data, token, amount,
        getInitializableTickIndex(lower), getInitializableTickIndex(upper), slippage)

\* Deprecated: the slippage is one of the tokens.
quotePositionBelowRange(data, token, amount, lower, upper, slippage) ==
    LET arrives == calculateTransferFeeExcludedAmount(data.fee["a"], amount)
        liquidity == getLiquidityFromTokenA(arrives, SqrtPrice[lower], SqrtPrice[upper], FALSE)
        est == [ZeroTokens EXCEPT !["a"] =
                   getTokenAFromLiquidity(liquidity, SqrtPrice[lower], SqrtPrice[upper], TRUE)]
    IN  IF token # "a" THEN IncreaseQuote(data, 0, ZeroTokens, ZeroTokens)
        ELSE IncreaseQuote(data, liquidity,
                [k \in Token |-> adjustForSlippage(est[k], slippage, TRUE)], est)

quotePositionInRange(data, token, amount, lower, upper, slippage) ==
    LET price == data.pool.sqrt_price
        arrives == calculateTransferFeeExcludedAmount(data.fee[token], amount)
        liquidity == IF token = "a"
                     THEN getLiquidityFromTokenA(arrives, price, SqrtPrice[upper], FALSE)
                     ELSE getLiquidityFromTokenB(arrives, SqrtPrice[lower], price, FALSE)
        est == [k \in Token |->
                   IF k = "a" THEN getTokenAFromLiquidity(liquidity, price, SqrtPrice[upper], TRUE)
                   ELSE getTokenBFromLiquidity(liquidity, SqrtPrice[lower], price, TRUE)]
    IN  IncreaseQuote(data, liquidity,
            [k \in Token |-> adjustForSlippage(est[k], slippage, TRUE)], est)

quotePositionAboveRange(data, token, amount, lower, upper, slippage) ==
    LET arrives == calculateTransferFeeExcludedAmount(data.fee["b"], amount)
        liquidity == getLiquidityFromTokenB(arrives, SqrtPrice[lower], SqrtPrice[upper], FALSE)
        est == [ZeroTokens EXCEPT !["b"] =
                   getTokenBFromLiquidity(liquidity, SqrtPrice[lower], SqrtPrice[upper], TRUE)]
    IN  IF token # "b" THEN IncreaseQuote(data, 0, ZeroTokens, ZeroTokens)
        ELSE IncreaseQuote(data, liquidity,
                [k \in Token |-> adjustForSlippage(est[k], slippage, TRUE)], est)

increaseLiquidityQuoteByInputTokenWithParams(data, token, amount, lower, upper, slippage) ==
    LET status == getStrictPositionStatus(data.pool.sqrt_price, lower, upper)
    IN  IF ~RangeInBounds(lower, upper) THEN NoQuote
        ELSE CASE status = "BelowRange" ->
                    quotePositionBelowRange(data, token, amount, lower, upper, slippage)
               [] status = "InRange" ->
                    quotePositionInRange(data, token, amount, lower, upper, slippage)
               [] status = "AboveRange" ->
                    quotePositionAboveRange(data, token, amount, lower, upper, slippage)

increaseLiquidityQuoteByInputToken(data, token, amount, lower, upper, slippage) ==
    increaseLiquidityQuoteByInputTokenWithParams(data, token, amount,
        getInitializableTickIndex(lower), getInitializableTickIndex(upper), slippage)

----------------------------------------------------------------------------
(* quotes/public/decrease-liquidity-quote.ts                               *)

DecreaseQuote(data, liquidity, min, est) ==
    [ok |-> TRUE, liquidityAmount |-> liquidity, tokenMin |-> Excluded(data, min),
     tokenEst |-> Excluded(data, est)]

decreaseLiquidityQuoteByLiquidityWithParams(data, liquidity, lower, upper, slippage) ==
    LET est == getTokenEstimatesFromLiquidity(liquidity, data.pool.sqrt_price, lower, upper, FALSE)
    IN  IF ~RangeInBounds(lower, upper) \/ ~checkTickInBounds(data.pool.tick_current_index)
        THEN NoQuote
        ELSE IF liquidity = 0 THEN DecreaseQuote(data, 0, ZeroTokens, ZeroTokens)
        ELSE DecreaseQuote(data, liquidity,
                [k \in Token |-> adjustForSlippage(est[k], slippage, FALSE)], est)

decreaseLiquidityQuoteByLiquidity(data, liquidity, position, slippage) ==
    IF liquidity > position.liquidity THEN NoQuote
    ELSE decreaseLiquidityQuoteByLiquidityWithParams(data, liquidity,
            position.tick_lower_index, position.tick_upper_index, slippage)

decreaseLiquidityQuoteByLiquidityWithParamsUsingPriceSlippage(data, liquidity, lower, upper, slippage) ==
    LET at(price) == getTokenEstimatesFromLiquidity(liquidity, price, lower, upper, FALSE)
        price == data.pool.sqrt_price
        bound == getSlippageBoundForSqrtPrice(price, slippage)
    IN  IF liquidity = 0 THEN DecreaseQuote(data, 0, ZeroTokens, ZeroTokens)
        ELSE DecreaseQuote(data, liquidity, LeastOf(at(price), at(bound[1]), at(bound[2])),
                           at(price))

----------------------------------------------------------------------------
(* quotes/public/collect-fees-quote.ts and collect-rewards-quote.ts: what  *)
(* the position would be owed if it were updated now.                      *)

\* What grew inside of a range.  (The first form, for a mutant, takes the upper
\* tick to be in the range.)
InsideUpperInclusive(tick, global, lower, lowerOutside, upper, upperOutside) ==
    LET below == IF tick < lower THEN WrappingSub(global, lowerOutside) ELSE lowerOutside
        above == IF tick <= upper THEN upperOutside ELSE WrappingSub(global, upperOutside)
    IN  WrappingSub(WrappingSub(global, below), above)

Inside(tick, global, lower, lowerOutside, upper, upperOutside) ==
    LET below == IF tick < lower THEN WrappingSub(global, lowerOutside) ELSE lowerOutside
        above == IF tick < upper THEN upperOutside ELSE WrappingSub(global, upperOutside)
    IN  WrappingSub(WrappingSub(global, below), above)

Earned(owed, inside, checkpoint, liquidity) ==
    owed + (WrappingSub(inside, checkpoint) * liquidity) \div Q64

collectFeesQuote(data, position) ==
    LET lower == position.tick_lower_index
        upper == position.tick_upper_index
        inside(k) == Inside(data.pool.tick_current_index, data.pool.fee_growth_global[k],
                            lower, data.ticks[lower].fee_growth_outside[k],
                            upper, data.ticks[upper].fee_growth_outside[k])
    IN  Excluded(data, [k \in Token |->
            Earned(position.fee_owed[k], inside(k), position.fee_growth_checkpoint[k],
                   position.liquidity)])

\* The growth of a reward up to the clock of the client; a product beyond 128 bits
\* throws.  (The first form, for a mutant, forgets the time since the last update.)
adjustedRewardGrowthAtLastUpdate(pool, r, timestamp) == pool.reward_infos[r].growth_global

adjustedRewardGrowthGlobal(pool, r, timestamp) ==
    LET elapsed == timestamp - pool.reward_last_updated_timestamp
        delta == mulDivRoundUpIf(elapsed, pool.reward_infos[r].emissions, pool.liquidity,
                                 FALSE, U128)
    IN  IF pool.liquidity = 0 THEN pool.reward_infos[r].growth_global
        ELSE IF delta = Err THEN Err
        ELSE pool.reward_infos[r].growth_global + delta

\* The outside of a tick that is not initialized does not count.
collectRewardsQuote(data, position, r, timestamp) ==
    LET global == adjustedRewardGrowthGlobal(data.pool, r, timestamp)
        lower == data.ticks[position.tick_lower_index]
        upper == data.ticks[position.tick_upper_index]
        tick == data.pool.tick_current_index
        below == IF ~lower.initialized THEN global
                 ELSE IF tick < position.tick_lower_index
                 THEN WrappingSub(global, lower.reward_growths_outside[r])
                 ELSE lower.reward_growths_outside[r]
        above == IF ~upper.initialized THEN 0
                 ELSE IF tick < position.tick_upper_index THEN upper.reward_growths_outside[r]
                 ELSE WrappingSub(global, upper.reward_growths_outside[r])
        inside == WrappingSub(WrappingSub(global, below), above)
    IN  IF global = Err THEN Err
        ELSE calculateTransferFeeExcludedAmount(data.fee[r],
                Earned(position.reward_owed[r], inside, position.reward_growth_checkpoint[r],
                       position.liquidity))

----------------------------------------------------------------------------
(* utils/public/pool-utils.ts                                              *)

\* The tokens of a position, in decimals rounded once.
getTokenAmountsFromLiquidity(liquidity, price, lowerPrice, upperPrice, roundUp) ==
    LET within == Lesser(Greater(price, lowerPrice), upperPrice)
    IN  [k \in Token |->
            IF k = "a"
            THEN DivRoundUpIf(liquidity * Q64 * (upperPrice - within), within * upperPrice, roundUp)
            ELSE DivRoundUpIf(liquidity * (within - lowerPrice), Q64, roundUp)]

estLiquidityForTokenA(price1, price2, amount) ==
    ((amount * price1 * price2) \div Q64)
        \div (Greater(price1, price2) - Lesser(price1, price2))

estLiquidityForTokenB(price1, price2, amount) ==
    (amount * Q64) \div (Greater(price1, price2) - Lesser(price1, price2))

=============================================================================
