----------------------------- MODULE SwapQuotes -----------------------------
(***************************************************************************)
(* What the SDK says a swap will do: a second implementation of the loop   *)
(* of ClmmSwap, run off chain on fetched accounts.  It decides which tick  *)
(* arrays and which threshold the transaction will carry.                  *)
(*                                                                         *)
(* A snapshot holds the fetched accounts: pool, ticks, arrays (those that  *)
(* exist) and fee, the transfer fee of each token's mint in the present    *)
(* epoch.                                                                  *)
(***************************************************************************)
EXTENDS SdkMath, SdkTicks

----------------------------------------------------------------------------
(* utils/public/swap-utils.ts                                              *)

getDefaultSqrtPriceLimit(aToB) == IF aToB THEN MIN_SQRT_PRICE_X64 ELSE MAX_SQRT_PRICE_X64

getDefaultOtherAmountThreshold(isInput) == IF isInput THEN 0 ELSE Q64 - 1

\* a->b is told from b->a by the token the caller names.
getSwapDirection(token, isInput) == (token = "a") = isInput

InputOf(q) == IF q.aToB THEN "a" ELSE "b"
OutputOf(q) == IF q.aToB THEN "b" ELSE "a"

\* The threshold leaves room for slippage.
calculateSwapAmountsFromQuote(quote, slippage) ==
    [quote EXCEPT !.otherAmountThreshold =
        IF quote.amountSpecifiedIsInput
        THEN adjustForSlippage(quote.estimatedAmountOut, slippage, FALSE)
        ELSE adjustForSlippage(quote.estimatedAmountIn, slippage, TRUE)]

\* The instruction's arguments, in the program's names.  The program leaves out an
\* array that is given twice, as the padded ones are.
getSwapParamsFromQuote(quote) ==
    [a_to_b |-> quote.aToB, amount_specified_is_input |-> quote.amountSpecifiedIsInput,
     amount |-> quote.amount, sqrt_price_limit |-> quote.sqrtPriceLimit,
     other_amount_threshold |-> quote.otherAmountThreshold,
     arrays |-> SubSeq(quote.tickArrays, 1, Cardinality(ToSet(quote.tickArrays)))]

----------------------------------------------------------------------------
(* quotes/swap/swap-manager.ts.  The fee growth that the loop carries      *)
(* along is not part of its result.                                        *)

LoopStart(data, amount) ==
    [ok |-> TRUE, amountRemaining |-> amount, amountCalculated |-> 0,
     currSqrtPrice |-> data.pool.sqrt_price, currLiquidity |-> data.pool.liquidity,
     currTickIndex |-> data.pool.tick_current_index, totalFeeAmount |-> 0, touched |-> {}]

\* (The first form, for a mutant, has one sign for both directions.)
calculateNextLiquidityAdded(net, liquidity, aToB) == liquidity + net

calculateNextLiquidity(net, liquidity, aToB) ==
    IF aToB THEN liquidity - net ELSE liquidity + net

\* The slot of the fetched array that stands for a tick, initialized or not.
SlotOf(tick) == toTickIndex(fromTickIndex(tick))

\* The loop's state after a step of computeSwapStep towards the tick that the search
\* found, whose array slot is `slot'.
AfterStep(data, sequence, isInput, aToB, s, found, slot, step) ==
    LET reached == step.nextPrice = SqrtPrice[found.nextIndex]
        crossed == slot \in UsableTick /\ data.ticks[slot].initialized
        failed == \/ ~step.ok
                  \/ IF reached THEN ~CanGetTick(sequence, found.nextIndex, aToB)
                     ELSE ~HasTickIndex(step.nextPrice)
    IN  IF failed THEN [s EXCEPT !.ok = FALSE]
        ELSE [s EXCEPT
            !.amountRemaining =
                IF isInput THEN @ - step.amountIn - step.feeAmount ELSE @ - step.amountOut,
            !.amountCalculated =
                IF isInput THEN @ + step.amountOut ELSE @ + step.amountIn + step.feeAmount,
            !.currSqrtPrice = step.nextPrice,
            !.currLiquidity =
                IF reached /\ crossed
                THEN calculateNextLiquidity(data.ticks[slot].liquidity_net, @, aToB) ELSE @,
            !.currTickIndex =
                IF ~reached THEN sqrtPriceX64ToTickIndex(step.nextPrice)
                ELSE IF aToB THEN found.nextIndex - 1 ELSE found.nextIndex,
            !.totalFeeAmount = @ + step.feeAmount,
            !.touched = @ \cup found.touched]

\* One iteration.
LoopStep(data, sequence, limit, isInput, aToB, s, found) ==
    LET target == IF aToB THEN Greater(limit, SqrtPrice[found.nextIndex])
                  ELSE Lesser(limit, SqrtPrice[found.nextIndex])
    IN  IF ~found.ok THEN [s EXCEPT !.ok = FALSE]
        ELSE AfterStep(data, sequence, isInput, aToB, s, found, SlotOf(found.nextIndex),
                       computeSwapStep(s.amountRemaining, data.pool.fee_rate, s.currLiquidity,
                                       s.currSqrtPrice, target, isInput, aToB))

\* The variables of the loop, which ends when nothing is left or the price is at its limit.
LoopEnded(limit, s) == ~s.ok \/ s.amountRemaining <= 0 \/ s.currSqrtPrice = limit

LoopState ==
    [ok : BOOLEAN, amountRemaining : Int, amountCalculated : Int, currSqrtPrice : Int,
     currLiquidity : Int, currTickIndex : Int, totalFeeAmount : Int, touched : SUBSET Nat]

LoopNext(data, sequence, limit, isInput, aToB, s) ==
    LoopStep(data, sequence, limit, isInput, aToB, s,
             findNextInitializedTickIndex(sequence, data.ticks, s.currTickIndex, aToB))

SwapLoop(data, sequence, limit, isInput, aToB, start) ==
    LET loop[s \in LoopState] ==
            IF LoopEnded(limit, s) THEN s
            ELSE loop[LoopNext(data, sequence, limit, isInput, aToB, s)]
    IN  loop[start]

\* The amounts that go in and come out, whichever of the tokens they are.
calculateEstTokens(amount, isInput, s) ==
    LET specified == amount - s.amountRemaining
    IN  IF ~s.ok THEN NoQuote
        ELSE [ok |-> TRUE, touched |-> s.touched,
              amountIn |-> IF isInput THEN specified ELSE s.amountCalculated,
              amountOut |-> IF isInput THEN s.amountCalculated ELSE specified,
              nextTickIndex |-> s.currTickIndex, nextSqrtPrice |-> s.currSqrtPrice,
              totalFeeAmount |-> s.totalFeeAmount]

computeSwap(data, sequence, amount, limit, isInput, aToB) ==
    calculateEstTokens(amount, isInput,
        SwapLoop(data, sequence, limit, isInput, aToB, LoopStart(data, amount)))

----------------------------------------------------------------------------
(* quotes/swap/swap-quote-impl.ts                                          *)

\* The tests before the loop.
CanSimulate(data, sequence, q) ==
    /\ q.sqrtPriceLimit \in MIN_SQRT_PRICE_X64 .. MAX_SQRT_PRICE_X64
    /\ IF q.aToB THEN q.sqrtPriceLimit <= data.pool.sqrt_price
       ELSE data.pool.sqrt_price <= q.sqrtPriceLimit
    /\ q.tokenAmount # 0
    /\ sequence # <<>>
    /\ isValidTickArray0(sequence, data.pool.tick_current_index, q.aToB)

\* What the loop is asked for: the amount that will arrive in the pool, or that
\* must leave it.
LoopAmount(data, q) ==
    IF q.amountSpecifiedIsInput
    THEN calculateTransferFeeExcludedAmount(data.fee[InputOf(q)], q.tokenAmount)
    ELSE calculateTransferFeeIncludedAmount(data.fee[OutputOf(q)], q.tokenAmount)

\* What the loop's amounts are to the caller.  An input that the pool takes whole
\* is the one the caller named.
CallerAmountIn(data, q, result) ==
    IF q.amountSpecifiedIsInput /\ result.amountIn = LoopAmount(data, q) THEN q.tokenAmount
    ELSE calculateTransferFeeIncludedAmount(data.fee[InputOf(q)], result.amountIn)

CallerAmountOut(data, q, result) ==
    calculateTransferFeeExcludedAmount(data.fee[OutputOf(q)], result.amountOut)

\* The quote for the loop's result, in amounts of the caller, and the tests after the loop.
QuoteOf(q, sequence, result, amountIn, amountOut) ==
    LET failed == \/ amountIn = Err
                  \/ IF q.amountSpecifiedIsInput THEN amountOut < q.otherAmountThreshold
                     ELSE amountIn > q.otherAmountThreshold
                  \/ Cardinality(result.touched) > MAX_SWAP_TICK_ARRAYS
    IN  IF failed THEN NoQuote
        ELSE [ok |-> TRUE, amount |-> q.tokenAmount, aToB |-> q.aToB,
              amountSpecifiedIsInput |-> q.amountSpecifiedIsInput,
              sqrtPriceLimit |-> q.sqrtPriceLimit,
              otherAmountThreshold |-> q.otherAmountThreshold,
              estimatedAmountIn |-> amountIn, estimatedAmountOut |-> amountOut,
              estimatedEndTickIndex |-> result.nextTickIndex,
              estimatedEndSqrtPrice |-> result.nextSqrtPrice,
              estimatedFeeAmount |-> result.totalFeeAmount,
              tickArrays |-> getTouchedArrays(sequence, result.touched)]

QuoteOfResult(data, q, sequence, result) ==
    IF ~result.ok THEN NoQuote
    ELSE QuoteOf(q, sequence, result, CallerAmountIn(data, q, result),
                 CallerAmountOut(data, q, result))

SimulateIn(data, q, sequence, amount) ==
    IF \/ ~CanSimulate(data, sequence, q)
       \/ amount = Err
       \/ q.amountSpecifiedIsInput /\ amount = 0
    THEN NoQuote
    ELSE QuoteOfResult(data, q, sequence,
             computeSwap(data, sequence, amount, q.sqrtPriceLimit, q.amountSpecifiedIsInput, q.aToB))

simulateSwap(data, q) ==
    SimulateIn(data, q, tickArraySequence(q.tickArrays, data.arrays), LoopAmount(data, q))

----------------------------------------------------------------------------
(* quotes/public                                                           *)

\* swapQuoteByToken: the parameters, with the arrays that the swap may need.
swapQuoteByToken(data, token, amount, isInput) ==
    LET aToB == getSwapDirection(token, isInput)
    IN  [tokenAmount |-> amount, aToB |-> aToB, amountSpecifiedIsInput |-> isInput,
         sqrtPriceLimit |-> getDefaultSqrtPriceLimit(aToB),
         otherAmountThreshold |-> getDefaultOtherAmountThreshold(isInput),
         tickArrays |-> getTickArrayPublicKeys(data.pool.tick_current_index, aToB)]

swapQuoteWithParams(data, q, slippage) ==
    LET quote == simulateSwap(data, q)
    IN  IF quote.ok THEN calculateSwapAmountsFromQuote(quote, slippage) ELSE NoQuote

swapQuoteByInputToken(data, token, amount, slippage) ==
    swapQuoteWithParams(data, swapQuoteByToken(data, token, amount, TRUE), slippage)

swapQuoteByOutputToken(data, token, amount, slippage) ==
    swapQuoteWithParams(data, swapQuoteByToken(data, token, amount, FALSE), slippage)

\* A developer's share is taken from the input before it is quoted.
swapQuoteByInputTokenWithDevFees(data, token, amount, slippage, devFee) ==
    LET devFeeAmount == (amount * devFee.numerator) \div devFee.denominator
        quote == swapQuoteByInputToken(data, token, amount - devFeeAmount, slippage)
    IN  IF devFee.numerator >= devFee.denominator \/ ~quote.ok THEN NoQuote
        ELSE [quote EXCEPT !.estimatedAmountIn = @ + devFeeAmount,
                           !.estimatedFeeAmount = @ + devFeeAmount]
             @@ [devFeeAmount |-> devFeeAmount,
                 estimatedSwapFeeAmount |-> quote.estimatedFeeAmount]

\* Two quotes, one after the other: the amount of the hop where the caller named
\* one, and the threshold of the other hop.
twoHopSwapQuoteFromSwapQuotes(one, two) ==
    [amount |-> IF one.amountSpecifiedIsInput THEN one.amount ELSE two.amount,
     otherAmountThreshold |-> IF one.amountSpecifiedIsInput THEN two.otherAmountThreshold
                              ELSE one.otherAmountThreshold,
     amountSpecifiedIsInput |-> one.amountSpecifiedIsInput,
     swapOne |-> one, swapTwo |-> two]

=============================================================================
