------------------------------ MODULE ClmmSwap ------------------------------
(***************************************************************************)
(* The loop of swap_manager::swap.  A swap s is a record: what the caller  *)
(* asked for, the variables of the loop, and the ticks, which the loop     *)
(* updates as it crosses them and which reach the accounts only if the     *)
(* whole transaction succeeds.  Here an iteration is a function from a     *)
(* swap to the next; the modules that use it say when iterations happen.   *)
(***************************************************************************)
EXTENDS SwapTickSequence

\* The tests before the loop.
SwapAllowed(pool, a) ==
    /\ a.sqrt_price_limit \in MIN_SQRT_PRICE_X64 .. MAX_SQRT_PRICE_X64
    /\ IF a.a_to_b THEN a.sqrt_price_limit <= pool.sqrt_price
       ELSE pool.sqrt_price <= a.sqrt_price_limit
    /\ a.amount # 0

InputToken(a) == IF a.a_to_b THEN "a" ELSE "b"
OutputToken(a) == IF a.a_to_b THEN "b" ELSE "a"

\* The variables of the loop before its first iteration.
SwapStart(pool, ticks, a) ==
    [args |-> a,
     amount_remaining |-> a.amount,
     amount_calculated |-> 0,
     curr_sqrt_price |-> pool.sqrt_price,
     curr_tick_index |-> pool.tick_current_index,
     curr_liquidity |-> pool.liquidity,
     curr_protocol_fee |-> 0,
     curr_array_index |-> 1,
     curr_fee_growth_global_input |-> pool.fee_growth_global[InputToken(a)],
     ticks |-> ticks]

\* (The first form, for a mutant, forgets the limit.)
SwapRunsUntilExhausted(s) == s.amount_remaining > 0

SwapRunning(s) ==
    s.amount_remaining > 0 /\ s.args.sqrt_price_limit # s.curr_sqrt_price

----------------------------------------------------------------------------
(* What one iteration looks up and computes.                               *)

CanSearch(s) ==
    SearchOk(s.ticks, s.args.arrays, s.curr_array_index, s.curr_tick_index, s.args.a_to_b)

NextArrayIndex(s) ==
    StopArray(s.ticks, s.args.arrays, s.curr_array_index, s.curr_tick_index, s.args.a_to_b)

NextTick(s, j) ==
    NextTickIndex(s.ticks, s.args.arrays, j, s.curr_array_index, s.curr_tick_index,
                  s.args.a_to_b)

\* get_next_sqrt_prices: the price of that tick, or the limit if it is nearer.
\* (The first form, for a mutant, goes to the farther of the two.)
SqrtPriceTargetPastLimit(s, t) ==
    IF s.args.a_to_b THEN Lesser(s.args.sqrt_price_limit, SqrtPrice[t])
    ELSE Greater(s.args.sqrt_price_limit, SqrtPrice[t])

SqrtPriceTarget(s, t) ==
    IF s.args.a_to_b THEN Greater(s.args.sqrt_price_limit, SqrtPrice[t])
    ELSE Lesser(s.args.sqrt_price_limit, SqrtPrice[t])

SwapComputation(pool, s, t) ==
    ComputeSwap(s.amount_remaining, pool.fee_rate, s.curr_liquidity,
                s.curr_sqrt_price, SqrtPriceTarget(s, t),
                s.args.amount_specified_is_input, s.args.a_to_b)

\* The two amounts after the step.
AmountRemaining(s, c) ==
    IF s.args.amount_specified_is_input
    THEN s.amount_remaining - c.amount_in - c.fee_amount
    ELSE s.amount_remaining - c.amount_out

AmountCalculated(s, c) ==
    IF s.args.amount_specified_is_input
    THEN s.amount_calculated + c.amount_out
    ELSE s.amount_calculated + c.amount_in + c.fee_amount

\* calculate_fees
NextFeeGrowth(pool, s, c) ==
    s.curr_fee_growth_global_input
        + FeeGrowth(c.fee_amount, pool.protocol_fee_rate, s.curr_liquidity)

NextProtocolFee(pool, s, c) ==
    WrappingAdd64(s.curr_protocol_fee,
                  CalculateProtocolFee(c.fee_amount, pool.protocol_fee_rate))

----------------------------------------------------------------------------
(* Crossing an initialized tick.                                           *)

CrossesTick(s, j, t) ==
    IsInitializedTick(s.ticks, s.args.arrays[j], t)

\* Two faulty forms, for the mutants: the net always added, and the growth
\* outside of a crossed tick left as it was.
LiquidityAlwaysAdded(tick, aToB, liquidity) ==
    AddLiquidityDelta(liquidity, tick.liquidity_net)

CrossedTickNotFlipped(pool, s, t, c, rewardInfos) == s.ticks

\* calculate_update: leftwards the net leaves, rightwards it joins.  The least
\* i128 is its own negation.
LiquidityAfterCross(tick, aToB, liquidity) ==
    LET net == tick.liquidity_net
        signed == IF aToB /\ -net \in I128 THEN -net ELSE net
    IN  AddLiquidityDelta(liquidity, signed)

\* The ticks with the crossed one flipped, by the fee growth this step reached.
TicksAfterCross(pool, s, t, c, rewardInfos) ==
    LET growth == [pool.fee_growth_global EXCEPT
                      ![InputToken(s.args)] = NextFeeGrowth(pool, s, c)]
    IN  [s.ticks EXCEPT ![t] = NextTickCrossUpdate(@, growth, rewardInfos)]

\* Where the search goes on after the step reached the tick: past the array when
\* the tick is its last one in this direction, and past the tick to the left.
ArrayIndexAfterTick(s, j, t) ==
    LET offset == TickOffset(s.args.arrays[j], t)
    IN  IF offset = (IF s.args.a_to_b THEN 0 ELSE TICK_ARRAY_SIZE - 1)
        THEN j + 1
        ELSE j

\* (The first form, for a mutant, moves by a spacing instead of by one.)
TickAfterTickBySpacing(s, t) == IF s.args.a_to_b THEN t - TickSpacing ELSE t

TickAfterTick(s, t) == IF s.args.a_to_b THEN t - 1 ELSE t

\* A step that stops short of the tick finds its place by its price.  (Not so the
\* first form, for a mutant.)
TickKeptByShortStep(s, nextPrice) == s.curr_tick_index

TickAfterShortStep(s, nextPrice) ==
    IF nextPrice # s.curr_sqrt_price THEN TickIndexFromSqrtPrice(nextPrice)
    ELSE s.curr_tick_index

----------------------------------------------------------------------------
\* An iteration that reaches tick t of array j, if c says so, without an error.
StepOk(pool, s, j, t, c) ==
    /\ c.ok
    /\ AmountRemaining(s, c) >= 0
    /\ AmountCalculated(s, c) \in U64
    /\ NextFeeGrowth(pool, s, c) \in U128
    /\ c.next_price = SqrtPrice[t] /\ CrossesTick(s, j, t) =>
          LiquidityAfterCross(s.ticks[t], s.args.a_to_b, s.curr_liquidity) # Err

\* The swap after it.
StepSwap(pool, s, j, t, c, rewardInfos) ==
    LET reached == c.next_price = SqrtPrice[t]
        crossed == reached /\ CrossesTick(s, j, t)
    IN  [s EXCEPT
            !.amount_remaining = AmountRemaining(s, c),
            !.amount_calculated = AmountCalculated(s, c),
            !.curr_protocol_fee = NextProtocolFee(pool, s, c),
            !.curr_fee_growth_global_input = NextFeeGrowth(pool, s, c),
            !.curr_liquidity =
                IF crossed THEN LiquidityAfterCross(s.ticks[t], s.args.a_to_b, @) ELSE @,
            !.ticks = IF crossed THEN TicksAfterCross(pool, s, t, c, rewardInfos) ELSE @,
            !.curr_array_index = IF reached THEN ArrayIndexAfterTick(s, j, t) ELSE @,
            !.curr_tick_index =
                IF reached THEN TickAfterTick(s, t) ELSE TickAfterShortStep(s, c.next_price),
            !.curr_sqrt_price = c.next_price]

\* Some iteration is possible: the one of the tick the search finds.
CanStep(pool, s) ==
    /\ CanSearch(s)
    /\ \E j \in {NextArrayIndex(s)} : \E t \in {NextTick(s, j)} :
          \E c \in {SwapComputation(pool, s, t)} : StepOk(pool, s, j, t, c)

----------------------------------------------------------------------------
(* What the finished loop returns.                                         *)

AmountIn(s) ==
    IF s.args.amount_specified_is_input THEN s.args.amount - s.amount_remaining
    ELSE s.amount_calculated

AmountOut(s) ==
    IF s.args.amount_specified_is_input THEN s.amount_calculated
    ELSE s.args.amount - s.amount_remaining

\* The caller's other_amount_threshold: a minimum out, or a maximum in.
WithinThreshold(s) ==
    IF s.args.amount_specified_is_input THEN s.args.other_amount_threshold <= AmountOut(s)
    ELSE AmountIn(s) <= s.args.other_amount_threshold

\* update_after_swap.  (The first form, for a mutant, leaves the reward clock.)
PoolAfterSwapKeepsClock(pool, s, rewardInfos, now) ==
    [pool EXCEPT
        !.tick_current_index = s.curr_tick_index,
        !.sqrt_price = s.curr_sqrt_price,
        !.liquidity = s.curr_liquidity,
        !.reward_infos = rewardInfos,
        !.fee_growth_global[InputToken(s.args)] = s.curr_fee_growth_global_input,
        !.protocol_fee_owed[InputToken(s.args)] = WrappingAdd64(@, s.curr_protocol_fee)]

PoolAfterSwap(pool, s, rewardInfos, now) ==
    [pool EXCEPT
        !.tick_current_index = s.curr_tick_index,
        !.sqrt_price = s.curr_sqrt_price,
        !.liquidity = s.curr_liquidity,
        !.reward_infos = rewardInfos,
        !.reward_last_updated_timestamp = now,
        !.fee_growth_global[InputToken(s.args)] = s.curr_fee_growth_global_input,
        !.protocol_fee_owed[InputToken(s.args)] = WrappingAdd64(@, s.curr_protocol_fee)]

=============================================================================
