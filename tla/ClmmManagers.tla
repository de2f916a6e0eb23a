---------------------------- MODULE ClmmManagers ----------------------------
(***************************************************************************)
(* The pure updates of src/programs/dex/src/manager: what a change of      *)
(* liquidity, the passing of time or the crossing of a tick makes of the   *)
(* pool's rewards, a tick and a position.  Fees (tokens "a" and "b") and   *)
(* rewards (the pool's reward slots) grow by the same rules; both are      *)
(* functions from what grows to a Q64.64 number that wraps.                *)
(*                                                                         *)
(* A pool, a tick and a position are records with the source's fields.     *)
(***************************************************************************)
EXTENDS ClmmMath, Sequences

CONSTANT RewardSlots        \* the reward slots of a pool, in index order

ASSUME RewardAssumption ==
    /\ RewardSlots \in Seq(STRING)
    /\ \A i, j \in DOMAIN RewardSlots : RewardSlots[i] = RewardSlots[j] => i = j

Token == {"a", "b"}
Reward == {RewardSlots[i] : i \in DOMAIN RewardSlots}

I128 == -((Q64 * Q64) \div 2) .. ((Q64 * Q64) \div 2) - 1

DefaultTick ==
    [initialized |-> FALSE, liquidity_net |-> 0, liquidity_gross |-> 0,
     fee_growth_outside |-> [k \in Token |-> 0],
     reward_growths_outside |-> [r \in Reward |-> 0]]

----------------------------------------------------------------------------
\* next_pool_reward_infos: rewards accrue for the time since the last update,
\* at the pool's present liquidity; nothing accrues while there is none.
NextPoolRewardInfos(pool, now) ==
    LET elapsed == now - pool.reward_last_updated_timestamp
        delta(r) == LET emitted == elapsed * pool.reward_infos[r].emissions
                    IN  IF emitted \in U128 THEN emitted \div pool.liquidity ELSE 0
    IN  IF pool.liquidity = 0 \/ elapsed = 0 THEN pool.reward_infos
        ELSE [r \in Reward |->
                IF pool.reward_infos[r].initialized
                THEN [pool.reward_infos[r] EXCEPT !.growth_global = WrappingAdd(@, delta(r))]
                ELSE pool.reward_infos[r]]

\* next_pool_liquidity: only a position around the current tick counts.  (The
\* first form, for a mutant, takes its upper tick to be in its range.)
NextPoolLiquidityUpperInclusive(pool, lowerIndex, upperIndex, delta) ==
    IF lowerIndex <= pool.tick_current_index /\ pool.tick_current_index <= upperIndex
    THEN AddLiquidityDelta(pool.liquidity, delta)
    ELSE pool.liquidity

NextPoolLiquidity(pool, lowerIndex, upperIndex, delta) ==
    IF lowerIndex <= pool.tick_current_index /\ pool.tick_current_index < upperIndex
    THEN AddLiquidityDelta(pool.liquidity, delta)
    ELSE pool.liquidity

\* to_reward_growths
RewardGrowths(rewardInfos) == [r \in Reward |-> rewardInfos[r].growth_global]

----------------------------------------------------------------------------
\* next_tick_cross_update: what was outside becomes what is outside on the
\* other side.  Slots without a reward are left alone.
NextTickCrossUpdate(tick, feeGrowthGlobal, rewardInfos) ==
    [tick EXCEPT
        !.fee_growth_outside =
            [k \in Token |-> WrappingSub(feeGrowthGlobal[k], @[k])],
        !.reward_growths_outside =
            [r \in Reward |-> IF rewardInfos[r].initialized
                              THEN WrappingSub(rewardInfos[r].growth_global, @[r])
                              ELSE @[r]]]

\* next_tick_modify_liquidity_update: a tick that loses its last liquidity goes
\* back to the default; one that gains its first takes all growth so far to be
\* below it.  It is an error for the gross or the net to leave its type.  (For
\* mutants: a net that does not tell the two ends of a range apart, and a tick
\* that keeps its growth when its liquidity is gone.)
NextLiquidityNetSameOnBothEnds(tick, delta, isUpper) == tick.liquidity_net + delta

NextLiquidityNet(tick, delta, isUpper) ==
    IF isUpper THEN tick.liquidity_net - delta ELSE tick.liquidity_net + delta

TickCanModifyLiquidity(tick, delta, isUpper) ==
    LET gross == AddLiquidityDelta(tick.liquidity_gross, delta)
    IN  gross = 0 \/ (gross # Err /\ NextLiquidityNet(tick, delta, isUpper) \in I128)

NextTickModifyLiquidityNoReset(tick, tickIndex, pool, rewardInfos, delta, isUpper) ==
    LET gross == AddLiquidityDelta(tick.liquidity_gross, delta)
    IN  IF delta = 0 THEN tick
        ELSE [tick EXCEPT !.initialized = gross # 0,
                          !.liquidity_net = NextLiquidityNet(tick, delta, isUpper),
                          !.liquidity_gross = gross]

NextTickModifyLiquidityUpdate(tick, tickIndex, pool, rewardInfos, delta, isUpper) ==
    LET gross == AddLiquidityDelta(tick.liquidity_gross, delta)
        outside(recorded, global) ==
            IF tick.liquidity_gross # 0 THEN recorded
            ELSE [k \in DOMAIN recorded |->
                    IF pool.tick_current_index >= tickIndex THEN global[k] ELSE 0]
    IN  IF delta = 0 THEN tick
        ELSE IF gross = 0 THEN DefaultTick
        ELSE [initialized |-> TRUE,
              liquidity_net |-> NextLiquidityNet(tick, delta, isUpper),
              liquidity_gross |-> gross,
              fee_growth_outside |->
                  outside(tick.fee_growth_outside, pool.fee_growth_global),
              reward_growths_outside |->
                  outside(tick.reward_growths_outside, RewardGrowths(rewardInfos))]

----------------------------------------------------------------------------
\* next_fee_growths_inside and next_reward_growths_inside, for one of the
\* growths: what grew neither below the lower tick nor above the upper one.
GrowthInside(tick, global, lo, loInit, loOutside, up, upInit, upOutside) ==
    LET below == IF ~loInit THEN global
                 ELSE IF tick < lo THEN WrappingSub(global, loOutside)
                 ELSE loOutside
        above == IF ~upInit THEN 0
                 ELSE IF tick < up THEN upOutside
                 ELSE WrappingSub(global, upOutside)
    IN  WrappingSub(WrappingSub(global, below), above)

NextFeeGrowthsInside(pool, position, lower, upper) ==
    [k \in Token |->
        GrowthInside(pool.tick_current_index, pool.fee_growth_global[k],
            position.tick_lower_index, lower.initialized, lower.fee_growth_outside[k],
            position.tick_upper_index, upper.initialized, upper.fee_growth_outside[k])]

NextRewardGrowthsInside(pool, position, lower, upper, rewardInfos) ==
    [r \in Reward |->
        IF ~rewardInfos[r].initialized THEN 0
        ELSE GrowthInside(pool.tick_current_index, rewardInfos[r].growth_global,
            position.tick_lower_index, lower.initialized, lower.reward_growths_outside[r],
            position.tick_upper_index, upper.initialized, upper.reward_growths_outside[r])]

----------------------------------------------------------------------------
\* next_position_modify_liquidity_update: settle what grew inside since the
\* checkpoint, on the liquidity held until now, then change the liquidity.
Settled(owed, liquidity, inside, checkpoint) ==
    WrappingAdd64(owed, MulShiftRightOrZero(liquidity, WrappingSub(inside, checkpoint)))

NextPositionModifyLiquidityUpdate(position, delta, feesInside, rewardsInside) ==
    [position EXCEPT
        !.liquidity = AddLiquidityDelta(@, delta),
        !.fee_growth_checkpoint = feesInside,
        !.fee_owed = [k \in Token |->
            Settled(@[k], position.liquidity, feesInside[k],
                    position.fee_growth_checkpoint[k])],
        !.reward_growth_checkpoint = rewardsInside,
        !.reward_owed = [r \in Reward |->
            Settled(@[r], position.liquidity, rewardsInside[r],
                    position.reward_growth_checkpoint[r])]]

=============================================================================
