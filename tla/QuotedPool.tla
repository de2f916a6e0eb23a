----------------------------- MODULE QuotedPool -----------------------------
(***************************************************************************)
(* A client of the SDK beside everyone else who uses a pool.  It fetches   *)
(* the accounts, computes a quote, and later sends the transaction that    *)
(* the quote describes; meanwhile others may have used the pool.  A quote  *)
(* is fresh while the accounts it was computed from have not changed.      *)
(*                                                                         *)
(* One quote is followed through every run: `quote' is none, then swap,    *)
(* increase or decrease, sent while its swap executes, and done.           *)
(***************************************************************************)
EXTENDS PoolQuotes, SwapQuotes

CONSTANTS
    TradeAmounts,       \* what the client may want to swap,
    DepositAmounts,     \* to deposit, in one of the tokens,
    Slippages           \* and how much it allows for

ASSUME ClientAssumption ==
    /\ TradeAmounts \subseteq U64
    /\ DepositAmounts \subseteq U64
    /\ Slippages \subseteq [numerator : Nat, denominator : Nat \ {0}]

VARIABLE quote

clientVars == <<pool, ticks, arrays, positions, vault, now, swap, budget, emitted, paid, quote>>

NoQuoteYet == [kind |-> "none"]
Done == [kind |-> "done"]
Quoted == quote.kind \in {"swap", "increase", "decrease"}

ClientInit == Init /\ quote = NoQuoteYet

----------------------------------------------------------------------------
(* Asking for a quote.  An exception leaves the client where it was.       *)

TakeQuote(taken) ==
    /\ Idle
    /\ quote = NoQuoteYet
    /\ taken.q.ok
    /\ quote' = taken
    /\ UNCHANGED vars

QuoteSwap(token, amount, slippage) ==
    LET taken(q) == [kind |-> "swap", fresh |-> TRUE, q |-> q, slippage |-> slippage]
    IN  \/ TakeQuote(taken(swapQuoteByInputToken(Snapshot, token, amount, slippage)))
        \/ TakeQuote(taken(swapQuoteByOutputToken(Snapshot, token, amount, slippage)))

\* What a liquidity quote was asked for: the price and how far it may move, or no
\* price if the slippage is one of the tokens, and the deposit.
NoPrice == 0

QuoteIncrease(p, token, amount, slippage) ==
    LET pos == positions[p]
        taken(q, price) == [kind |-> "increase", fresh |-> TRUE, q |-> q, position |-> p,
                            price |-> price, slippage |-> slippage,
                            deposit |-> <<token, amount>>]
    IN  /\ pos.open
        /\ \/ TakeQuote(taken(increaseLiquidityQuoteByInputTokenUsingPriceSlippage(Snapshot,
                            token, amount, pos.tick_lower_index, pos.tick_upper_index, slippage),
                        pool.sqrt_price))
           \/ TakeQuote(taken(increaseLiquidityQuoteByInputToken(Snapshot,
                            token, amount, pos.tick_lower_index, pos.tick_upper_index, slippage),
                        NoPrice))

QuoteDecrease(p, slippage) ==
    LET pos == positions[p]
        taken(q, price) == [kind |-> "decrease", fresh |-> TRUE, q |-> q, position |-> p,
                            price |-> price, slippage |-> slippage]
    IN  /\ pos.open
        /\ \/ TakeQuote(taken(decreaseLiquidityQuoteByLiquidityWithParamsUsingPriceSlippage(
                            Snapshot, pos.liquidity, pos.tick_lower_index, pos.tick_upper_index,
                            slippage),
                        pool.sqrt_price))
           \/ TakeQuote(taken(decreaseLiquidityQuoteByLiquidity(Snapshot, pos.liquidity,
                            pos, slippage),
                        NoPrice))

----------------------------------------------------------------------------
(* Sending the transaction.                                                *)

SwapArgsOfQuote == getSwapParamsFromQuote(quote.q)

\* The encoder throws at an amount that is too wide, and the tests before the loop may
\* fail, if the arrays or the limit are not what the pool's price asks for any more.
SendSwap ==
    /\ quote.kind = "swap"
    /\ IF /\ SwapArgsOfQuote \in SwapRequest
          /\ SwapArraysLoad(SwapArgsOfQuote)
          /\ SwapAllowed(pool, SwapArgsOfQuote)
       THEN SwapBegin(SwapArgsOfQuote) /\ quote' = [quote EXCEPT !.kind = "sent"]
       ELSE Idle /\ quote' = Done /\ UNCHANGED vars

RunSwap ==
    /\ quote.kind = "sent"
    /\ Swapping
    /\ quote' = IF swap' = NoSwap THEN Done ELSE quote

\* increase_liquidity and decrease_liquidity compare the amounts with the limits
\* that the quote gave.
Owes(k) == LiquidityTokenDelta(k, positions[quote.position], quote.q.liquidityAmount, TRUE)
Gets(k) == LiquidityTokenDelta(k, positions[quote.position], quote.q.liquidityAmount, FALSE)

WithinTokenMax == \A k \in Token : Owes(k) # Err /\ Owes(k) <= quote.q.tokenMax[k]
WithinTokenMin == \A k \in Token : Gets(k) # Err /\ quote.q.tokenMin[k] <= Gets(k)

SendIncrease ==
    /\ quote.kind = "increase"
    /\ WithinTokenMax
    /\ IncreaseLiquidity(quote.position, quote.q.liquidityAmount)
    /\ quote' = Done

SendDecrease ==
    /\ quote.kind = "decrease"
    /\ WithinTokenMin
    /\ DecreaseLiquidity(quote.position, quote.q.liquidityAmount)
    /\ quote' = Done

RejectLiquidity ==
    /\ Idle
    /\ \/ quote.kind = "increase" /\ ~WithinTokenMax
       \/ quote.kind = "decrease" /\ ~WithinTokenMin
    /\ quote' = Done
    /\ UNCHANGED vars

\* Anyone else's instruction; the client's position stays open meanwhile.
Others ==
    /\ quote.kind # "sent"
    /\ Next
    /\ quote.kind \in {"increase", "decrease"} => positions'[quote.position].open
    /\ quote' = IF Quoted /\ <<pool, ticks, arrays>>' # <<pool, ticks, arrays>>
                THEN [quote EXCEPT !.fresh = FALSE]
                ELSE quote

Client ==
    \/ \E token \in Token, amount \in TradeAmounts, slippage \in Slippages :
          QuoteSwap(token, amount, slippage)
    \/ \E p \in Position, token \in Token, amount \in DepositAmounts, slippage \in Slippages :
          QuoteIncrease(p, token, amount, slippage)
    \/ \E p \in Position, slippage \in Slippages : QuoteDecrease(p, slippage)
    \/ SendSwap
    \/ RunSwap
    \/ SendIncrease
    \/ SendDecrease
    \/ RejectLiquidity

ClientNext == Client \/ Others

ClientSpec == ClientInit /\ [][ClientNext]_clientVars

----------------------------------------------------------------------------
(* What a quote is good for.                                               *)

\* A quote cannot vouch for the caller's tokens, nor for two sums that only the program
\* checks: the amount it adds up, and the growth of the fees.
TokensExist == CanDeposit(vault, InputToken(swap.args), AmountIn(swap))

SumsFit ==
    SwapRunning(swap) /\ CanSearch(swap) =>
        \E j \in {NextArrayIndex(swap)} : \E t \in {NextTick(swap, j)} :
            \E c \in {SwapComputation(pool, swap, t)} :
                c.ok => /\ AmountCalculated(swap, c) \in U64
                        /\ NextFeeGrowth(pool, swap, c) \in U128

FreshSwapEnds ==
    /\ quote.kind = "sent" /\ quote.fresh /\ quote'.kind = "done"
    /\ TokensExist
    /\ SumsFit

Committed == budget'["swap"] < budget["swap"]

\* The SDK's "Edge case: nothing was ever touched" (tick-array-sequence.ts): it quotes a
\* swap whose limit is where the price is, and names no array.
NothingTouched == pool.sqrt_price = quote.q.sqrtPriceLimit

ThresholdTooWide == quote.q.otherAmountThreshold \notin U64

\* The swap of a fresh quote begins, because its arrays exist and are the ones the swap
\* begins in, and its limit is ahead of the price; unless the price was at the limit
\* already, or the room for slippage takes the threshold out of its integers.
FreshSwapIsAccepted ==
    [][quote.kind = "swap" /\ quote.fresh =>
        /\ quote'.kind = "done" => NothingTouched \/ ThresholdTooWide
        /\ quote'.kind = "sent" => ~NothingTouched /\ ~ThresholdTooWide]_clientVars

\* From a to b the second implementation of the loop is the first: the swap of a
\* fresh quote succeeds, even if it leaves no room for slippage, pays and returns
\* the amounts of the quote and ends at its price.
FreshQuoteFromAToBIsExact ==
    [][FreshSwapEnds /\ quote.q.aToB =>
        /\ Committed
        /\ AmountIn(swap) = quote.q.estimatedAmountIn
        /\ AmountOut(swap) = quote.q.estimatedAmountOut
        /\ swap.curr_sqrt_price = quote.q.estimatedEndSqrtPrice]_clientVars

\* From b to a the two round differently (checked_mul_shift_right_round_up_if): the SDK
\* takes a unit too much where the amount of b is exact, and nothing where it is less than
\* one, so that a step moves the price through liquidity for free.
IsFree(isInput, s, t) ==
    /\ s.currLiquidity > 0
    /\ t.currSqrtPrice # s.currSqrtPrice
    /\ t.totalFeeAmount - s.totalFeeAmount =
           IF isInput THEN s.amountRemaining - t.amountRemaining
           ELSE t.amountCalculated - s.amountCalculated

\* How many steps of the SDK's loop were free, in the quote whose swap is under way.
FreeSteps ==
    LET isInput == quote.q.amountSpecifiedIsInput
        token == IF isInput THEN InputOf(quote.q) ELSE OutputOf(quote.q)
        q == swapQuoteByToken(Snapshot, token, quote.q.amount, isInput)
        sequence == tickArraySequence(q.tickArrays, arrays)
        next(s) == LoopNext(Snapshot, sequence, q.sqrtPriceLimit, isInput, q.aToB, s)
        free[s \in LoopState] ==
            IF LoopEnded(q.sqrtPriceLimit, s) THEN 0
            ELSE free[next(s)] + IF IsFree(isInput, s, next(s)) THEN 1 ELSE 0
    IN  free[LoopStart(Snapshot, LoopAmount(Snapshot, q))]

\* The swap of a fresh quote from b to a fails in two cases only, however little room the
\* quote leaves.  Either the program has some of an exact input left where the SDK had
\* taken a unit too much, and needs an array that the quote does not name; or the SDK had
\* taken a step for free, and the threshold is missed.
FreshQuoteFailsOnlyMisrounded ==
    [][FreshSwapEnds /\ ~Committed /\ ~quote.q.aToB =>
        \/ /\ quote.q.amountSpecifiedIsInput
           /\ SwapRunning(swap)
           /\ swap.curr_sqrt_price >= quote.q.estimatedEndSqrtPrice
        \/ /\ ~SwapRunning(swap)
           /\ ~WithinThreshold(swap)
           /\ FreeSteps > 0]_clientVars

\* What the program takes for a step that the SDK had for free: a unit and its fee.
UnitAndFee ==
    1 + DivRoundUpIf(pool.fee_rate, FEE_RATE_MUL_VALUE - pool.fee_rate, TRUE)

\* An exact output from b to a is given whole, at the quote's price, and costs no more
\* than was quoted but for the steps that the SDK had for free.
ExactOutputCostsAsQuoted ==
    [][FreshSwapEnds /\ ~quote.q.aToB /\ ~quote.q.amountSpecifiedIsInput =>
        /\ ~SwapRunning(swap)
        /\ AmountOut(swap) = quote.q.estimatedAmountOut
        /\ swap.curr_sqrt_price = quote.q.estimatedEndSqrtPrice
        /\ AmountIn(swap) <= quote.q.estimatedAmountIn + FreeSteps * UnitAndFee]_clientVars

\* The price, which is the square of what the pool keeps, is within the slippage.
PriceWithinSlippage ==
    LET d == quote.slippage.denominator
        n == quote.slippage.numerator
        square == pool.sqrt_price * pool.sqrt_price * d
    IN  /\ quote.price * quote.price * (d - n) <= square
        /\ square <= quote.price * quote.price * (d + n)

\* A liquidity quote that reckons with a slippage of the price holds as long as the
\* price is within it, whatever else has changed, and any fresh one holds.
LiquidityQuoteHoldsWithinSlippage ==
    [][RejectLiquidity =>
        /\ ~quote.fresh
        /\ quote.price # NoPrice => ~PriceWithinSlippage]_clientVars

\* A deposit is enough for the liquidity that was computed from it.
DepositSuffices ==
    quote.kind = "increase" => quote.q.tokenEst[quote.deposit[1]] <= quote.deposit[2]

=============================================================================
