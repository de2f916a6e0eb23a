------------------------------ MODULE ClmmPool ------------------------------
(***************************************************************************)
(* One pool of the dex program: its positions, its ticks, its vaults, and  *)
(* every instruction of the first version of the program that changes      *)
(* them.  An instruction is a transaction: it happens whole or not at all, *)
(* so each is one action.  The swap is taken apart, because its loop is    *)
(* where the hard part is: SwapBegin, one SwapStep for an iteration, and   *)
(* SwapCommit or SwapRevert; no other transaction touches the pool then.   *)
(*                                                                         *)
(* Who may sign what is not modelled here (see PositionBundle for the      *)
(* position's authority); nor are the slippage limits of the liquidity     *)
(* instructions, whose rejection leaves everything as it was.              *)
(***************************************************************************)
EXTENDS ClmmSwap

CONSTANTS
    NumPositions,
    MAX_FEE_RATE, MAX_PROTOCOL_FEE_RATE,
    DAY_IN_SECONDS,
    Supply,             \* of each token, in the vaults and outside of them
    StartTime,          \* the clock when the pool was made
    \* What the callers may ask for:
    InitialPrices, InitialFeeRate, InitialProtocolFeeRate,
    PositionRanges,     \* <<lower, upper>> pairs
    LiquidityAmounts, SwapArgs, FeeRates, ProtocolFeeRates, Emissions, Fundings,
    Budgets             \* how many instructions of each kind a run may hold

Position == 1 .. NumPositions
Kind == {"array", "open", "liquidity", "swap", "collect", "fee_rate", "reward", "time"}

\* The arguments of a swap.
SwapRequest ==
    [a_to_b : BOOLEAN, amount_specified_is_input : BOOLEAN, amount : U64,
     sqrt_price_limit : U128, other_amount_threshold : U64, arrays : Seq(Int)]

ASSUME PoolAssumption ==
    /\ NumPositions \in Nat
    /\ 0 \in TickIndex
    /\ MAX_FEE_RATE \in 0 .. FEE_RATE_MUL_VALUE - 1
    /\ MAX_PROTOCOL_FEE_RATE \in 0 .. PROTOCOL_FEE_RATE_MUL_VALUE
    /\ Reward \cap Token = {}
    /\ DAY_IN_SECONDS \in Nat
    /\ Supply \in U64
    /\ StartTime \in Nat
    /\ InitialPrices \subseteq MIN_SQRT_PRICE_X64 .. MAX_SQRT_PRICE_X64
    /\ InitialFeeRate \in 0 .. MAX_FEE_RATE
    /\ InitialProtocolFeeRate \in 0 .. MAX_PROTOCOL_FEE_RATE
    /\ PositionRanges \subseteq Int \X Int
    /\ LiquidityAmounts \subseteq U128
    /\ SwapArgs \subseteq SwapRequest
    /\ FeeRates \subseteq Nat
    /\ ProtocolFeeRates \subseteq Nat
    /\ Emissions \subseteq U128
    /\ Fundings \subseteq U64
    /\ Budgets \subseteq [Kind -> Nat]

VARIABLES
    pool,       \* state::Pool
    ticks,      \* the ticks of all tick arrays, by index
    arrays,     \* the initialized tick arrays, by start tick
    positions,  \* state::Position of each position
    vault,      \* what the vault of each token and each reward holds
    now,        \* the clock
    swap,       \* the swap in progress, or NoSwap
    budget,     \* what is left of the budget
    emitted,    \* history: Q64.64 reward tokens emitted, time by time
    paid        \* history: reward tokens collected

vars == <<pool, ticks, arrays, positions, vault, now, swap, budget, emitted, paid>>

----------------------------------------------------------------------------
NoSwap == [args |-> "none"]
Idle == swap = NoSwap

Spend(kind) ==
    /\ budget[kind] > 0
    /\ budget' = [budget EXCEPT ![kind] = @ - 1]

\* SPL Token transfers between a vault and the rest of the world.
Deposit(v, k, amount) == [v EXCEPT ![k] = @ + amount]
Withdraw(v, k, amount) == [v EXCEPT ![k] = @ - amount]
CanDeposit(v, k, amount) == v[k] + amount <= Supply
CanWithdraw(v, k, amount) == amount <= v[k]

ClosedPosition ==
    [open |-> FALSE, tick_lower_index |-> 0, tick_upper_index |-> 0, liquidity |-> 0,
     fee_growth_checkpoint |-> [k \in Token |-> 0], fee_owed |-> [k \in Token |-> 0],
     reward_growth_checkpoint |-> [r \in Reward |-> 0],
     reward_owed |-> [r \in Reward |-> 0]]

\* Some initialized tick array holds the tick.
HasTick(t) == \E s \in arrays : t \in TicksOf(s)

\* is_position_empty
IsPositionEmpty(position) ==
    /\ position.liquidity = 0
    /\ \A k \in Token : position.fee_owed[k] = 0
    /\ \A r \in Reward : position.reward_owed[r] = 0

\* Pool::initialize: a pool of liquidity zero at the price the caller gives.
\* The reward clock starts at zero, not at the present time.
InitialPool(price) ==
    [liquidity |-> 0, sqrt_price |-> price,
     tick_current_index |-> TickIndexFromSqrtPrice(price),
     fee_rate |-> InitialFeeRate, protocol_fee_rate |-> InitialProtocolFeeRate,
     protocol_fee_owed |-> [k \in Token |-> 0],
     fee_growth_global |-> [k \in Token |-> 0],
     reward_infos |-> [r \in Reward |->
         [initialized |-> FALSE, emissions |-> 0, growth_global |-> 0]],
     reward_last_updated_timestamp |-> 0]

Init ==
    /\ \E price \in InitialPrices : pool = InitialPool(price)
    /\ ticks = [t \in UsableTick |-> DefaultTick]
    /\ arrays = {}
    /\ positions = [p \in Position |-> ClosedPosition]
    /\ vault = [k \in Token \cup Reward |-> 0]
    /\ now = StartTime
    /\ swap = NoSwap
    /\ budget \in Budgets
    /\ emitted = [r \in Reward |-> 0]
    /\ paid = [r \in Reward |-> 0]

----------------------------------------------------------------------------
(* Tick arrays and positions.                                              *)

InitializeTickArray(start) ==
    /\ Idle
    /\ IsValidStartTick(start)
    /\ start \notin arrays
    /\ Spend("array")
    /\ arrays' = arrays \cup {start}
    /\ UNCHANGED <<pool, ticks, positions, vault, now, swap, emitted, paid>>

\* The arrays of the two ticks need not exist yet.
OpenPosition(p, lower, upper) ==
    /\ Idle
    /\ ~positions[p].open
    /\ lower \in UsableTick
    /\ upper \in UsableTick
    /\ lower < upper
    /\ Spend("open")
    /\ positions' = [positions EXCEPT ![p] =
          [ClosedPosition EXCEPT !.open = TRUE, !.tick_lower_index = lower,
                                 !.tick_upper_index = upper]]
    /\ UNCHANGED <<pool, ticks, arrays, vault, now, swap, emitted, paid>>

ClosePosition(p) ==
    /\ Idle
    /\ positions[p].open
    /\ IsPositionEmpty(positions[p])
    /\ positions' = [positions EXCEPT ![p] = ClosedPosition]
    /\ UNCHANGED <<pool, ticks, arrays, vault, now, swap, budget, emitted, paid>>

----------------------------------------------------------------------------
(* Liquidity.                                                              *)

NewRewardInfos == NextPoolRewardInfos(pool, now)

FeesInside(p) ==
    LET pos == positions[p]
    IN  NextFeeGrowthsInside(pool, pos, ticks[pos.tick_lower_index],
                             ticks[pos.tick_upper_index])

RewardsInside(p) ==
    LET pos == positions[p]
    IN  NextRewardGrowthsInside(pool, pos, ticks[pos.tick_lower_index],
                                ticks[pos.tick_upper_index], NewRewardInfos)

\* calculate_modify_liquidity: the position, and what becomes of a tick.
UpdatedPosition(p, delta) ==
    NextPositionModifyLiquidityUpdate(positions[p], delta, FeesInside(p), RewardsInside(p))

UpdatedTick(t, delta, isUpper) ==
    NextTickModifyLiquidityUpdate(ticks[t], t, pool, NewRewardInfos, delta, isUpper)

CanModifyLiquidity(p, delta) ==
    LET pos == positions[p]
    IN  /\ pos.open
        /\ HasTick(pos.tick_lower_index)
        /\ HasTick(pos.tick_upper_index)
        /\ ~(delta = 0 /\ pos.liquidity = 0)
        /\ AddLiquidityDelta(pos.liquidity, delta) # Err
        /\ NextPoolLiquidity(pool, pos.tick_lower_index, pos.tick_upper_index, delta) # Err
        /\ TickCanModifyLiquidity(ticks[pos.tick_lower_index], delta, FALSE)
        /\ TickCanModifyLiquidity(ticks[pos.tick_upper_index], delta, TRUE)

\* calculate_liquidity_token_deltas, for one of the tokens.
LiquidityTokenDelta(k, pos, amount, roundUp) ==
    LET lower == SqrtPrice[pos.tick_lower_index]
        upper == SqrtPrice[pos.tick_upper_index]
        tick == pool.tick_current_index
    IN  IF tick < pos.tick_lower_index
        THEN IF k = "a" THEN GetAmountDelta(k, lower, upper, amount, roundUp) ELSE 0
        ELSE IF tick < pos.tick_upper_index
        THEN IF k = "a" THEN GetAmountDelta(k, pool.sqrt_price, upper, amount, roundUp)
             ELSE GetAmountDelta(k, lower, pool.sqrt_price, amount, roundUp)
        ELSE IF k = "b" THEN GetAmountDelta(k, lower, upper, amount, roundUp) ELSE 0

\* sync_modify_liquidity_values
SyncModifyLiquidity(p, delta) ==
    LET pos == positions[p]
    IN  /\ positions' = [positions EXCEPT ![p] = UpdatedPosition(p, delta)]
        /\ ticks' = [ticks EXCEPT
              ![pos.tick_lower_index] = UpdatedTick(pos.tick_lower_index, delta, FALSE),
              ![pos.tick_upper_index] = UpdatedTick(pos.tick_upper_index, delta, TRUE)]
        /\ pool' = [pool EXCEPT
              !.liquidity = NextPoolLiquidity(pool, pos.tick_lower_index,
                                              pos.tick_upper_index, delta),
              !.reward_infos = NewRewardInfos,
              !.reward_last_updated_timestamp = now]

\* The caller pays what the liquidity is worth, rounded up.
IncreaseLiquidity(p, amount) ==
    LET owes(k) == LiquidityTokenDelta(k, positions[p], amount, TRUE)
    IN  /\ Idle
        /\ amount # 0
        /\ amount \in I128
        /\ CanModifyLiquidity(p, amount)
        /\ \A k \in Token : owes(k) # Err /\ CanDeposit(vault, k, owes(k))
        /\ Spend("liquidity")
        /\ SyncModifyLiquidity(p, amount)
        /\ vault' = Deposit(Deposit(vault, "a", owes("a")), "b", owes("b"))
        /\ UNCHANGED <<arrays, now, swap, emitted, paid>>

\* The caller is paid what the liquidity is worth, rounded down.
DecreaseLiquidity(p, amount) ==
    LET gets(k) == LiquidityTokenDelta(k, positions[p], amount, FALSE)
    IN  /\ Idle
        /\ amount # 0
        /\ amount \in I128
        /\ CanModifyLiquidity(p, -amount)
        /\ \A k \in Token : gets(k) # Err /\ CanWithdraw(vault, k, gets(k))
        /\ Spend("liquidity")
        /\ SyncModifyLiquidity(p, -amount)
        /\ vault' = Withdraw(Withdraw(vault, "a", gets("a")), "b", gets("b"))
        /\ UNCHANGED <<arrays, now, swap, emitted, paid>>

\* A change of zero: fees and rewards settle.  The pool's liquidity and the
\* ticks are not written.
UpdateFeesAndRewards(p) ==
    /\ Idle
    /\ CanModifyLiquidity(p, 0)
    /\ positions' = [positions EXCEPT ![p] = UpdatedPosition(p, 0)]
    /\ pool' = [pool EXCEPT !.reward_infos = NewRewardInfos,
                            !.reward_last_updated_timestamp = now]
    /\ UNCHANGED <<ticks, arrays, vault, now, swap, budget, emitted, paid>>

----------------------------------------------------------------------------
(* Swaps.                                                                  *)

\* load_mut fails on an account that is borrowed already, and the second and the
\* third array are then left out: no array comes twice.
SwapArraysLoad(a) ==
    /\ a.arrays # <<>>
    /\ Len(a.arrays) <= 3
    /\ \A i \in DOMAIN a.arrays : a.arrays[i] \in arrays
    /\ \A i, j \in DOMAIN a.arrays : a.arrays[i] = a.arrays[j] => i = j

SwapBegin(a) ==
    /\ Idle
    /\ budget["swap"] > 0
    /\ SwapArraysLoad(a)
    /\ SwapAllowed(pool, a)
    /\ swap' = SwapStart(pool, ticks, a)
    /\ UNCHANGED <<pool, ticks, arrays, positions, vault, now, budget, emitted, paid>>

SwapStep ==
    /\ ~Idle
    /\ SwapRunning(swap)
    /\ CanSearch(swap)
    /\ \E j \in {NextArrayIndex(swap)} : \E t \in {NextTick(swap, j)} :
          \E c \in {SwapComputation(pool, swap, t)} :
             /\ StepOk(pool, swap, j, t, c)
             /\ swap' = StepSwap(pool, swap, j, t, c, NewRewardInfos)
    /\ UNCHANGED <<pool, ticks, arrays, positions, vault, now, budget, emitted, paid>>

\* perform_swap: the deposit first, then the withdrawal.
SwapTransfers(v, s) ==
    Withdraw(Deposit(v, InputToken(s.args), AmountIn(s)), OutputToken(s.args), AmountOut(s))

CanCommit(s) ==
    /\ WithinThreshold(s)
    /\ CanDeposit(vault, InputToken(s.args), AmountIn(s))
    /\ CanWithdraw(vault, OutputToken(s.args), AmountOut(s))

SwapCommit ==
    /\ ~Idle
    /\ ~SwapRunning(swap)
    /\ CanCommit(swap)
    /\ pool' = PoolAfterSwap(pool, swap, NewRewardInfos, now)
    /\ ticks' = swap.ticks
    /\ vault' = SwapTransfers(vault, swap)
    /\ swap' = NoSwap
    /\ Spend("swap")
    /\ UNCHANGED <<arrays, positions, now, emitted, paid>>

\* An error in the loop or after it: the transaction leaves no trace.
SwapRevert ==
    /\ ~Idle
    /\ IF SwapRunning(swap) THEN ~CanStep(pool, swap) ELSE ~CanCommit(swap)
    /\ swap' = NoSwap
    /\ UNCHANGED <<pool, ticks, arrays, positions, vault, now, budget, emitted, paid>>

----------------------------------------------------------------------------
(* Collecting what is owed.                                                *)

CollectFees(p) ==
    LET owed == positions[p].fee_owed
    IN  /\ Idle
        /\ positions[p].open
        /\ \A k \in Token : CanWithdraw(vault, k, owed[k])
        /\ Spend("collect")
        /\ positions' = [positions EXCEPT ![p].fee_owed = [k \in Token |-> 0]]
        /\ vault' = Withdraw(Withdraw(vault, "a", owed["a"]), "b", owed["b"])
        /\ UNCHANGED <<pool, ticks, arrays, now, swap, emitted, paid>>

CollectProtocolFees ==
    LET owed == pool.protocol_fee_owed
    IN  /\ Idle
        /\ \A k \in Token : CanWithdraw(vault, k, owed[k])
        /\ Spend("collect")
        /\ pool' = [pool EXCEPT !.protocol_fee_owed = [k \in Token |-> 0]]
        /\ vault' = Withdraw(Withdraw(vault, "a", owed["a"]), "b", owed["b"])
        /\ UNCHANGED <<ticks, arrays, positions, now, swap, emitted, paid>>

\* The vault of a reward may hold less than is owed: it is emptied, and the rest
\* stays owed.
CollectReward(p, r) ==
    LET amount == Lesser(positions[p].reward_owed[r], vault[r])
    IN  /\ Idle
        /\ positions[p].open
        /\ pool.reward_infos[r].initialized
        /\ Spend("collect")
        /\ positions' = [positions EXCEPT ![p].reward_owed[r] = @ - amount]
        /\ vault' = Withdraw(vault, r, amount)
        /\ paid' = [paid EXCEPT ![r] = @ + amount]
        /\ UNCHANGED <<pool, ticks, arrays, now, swap, emitted>>

----------------------------------------------------------------------------
(* Rewards, fee rates and time.                                            *)

\* Only the lowest slot without a reward can get one.
InitializeReward(i) ==
    /\ Idle
    /\ ~pool.reward_infos[RewardSlots[i]].initialized
    /\ \A j \in 1 .. i - 1 : pool.reward_infos[RewardSlots[j]].initialized
    /\ Spend("reward")
    /\ pool' = [pool EXCEPT !.reward_infos[RewardSlots[i]].initialized = TRUE]
    /\ UNCHANGED <<ticks, arrays, positions, vault, now, swap, emitted, paid>>

\* Anyone may send tokens to a reward's vault.
FundReward(r, amount) ==
    /\ Idle
    /\ pool.reward_infos[r].initialized
    /\ CanDeposit(vault, r, amount)
    /\ Spend("reward")
    /\ vault' = Deposit(vault, r, amount)
    /\ UNCHANGED <<pool, ticks, arrays, positions, now, swap, emitted, paid>>

\* The vault must hold what a day emits; the rewards settle at the old rate.  (The
\* first form, for a mutant, settles them at the new one.)
SetRewardEmissionsThenSettle(r, emissions) ==
    LET perDay == DAY_IN_SECONDS * emissions
        changed == [pool EXCEPT !.reward_infos[r].emissions = emissions]
    IN  /\ Idle
        /\ pool.reward_infos[r].initialized
        /\ perDay \in U128
        /\ vault[r] >= perDay \div Q64
        /\ Spend("reward")
        /\ pool' = [changed EXCEPT !.reward_infos = NextPoolRewardInfos(changed, now),
                                   !.reward_last_updated_timestamp = now]
        /\ UNCHANGED <<ticks, arrays, positions, vault, now, swap, emitted, paid>>

SetRewardEmissions(r, emissions) ==
    LET perDay == DAY_IN_SECONDS * emissions
    IN  /\ Idle
        /\ pool.reward_infos[r].initialized
        /\ perDay \in U128
        /\ vault[r] >= perDay \div Q64
        /\ Spend("reward")
        /\ pool' = [pool EXCEPT
              !.reward_infos = [NewRewardInfos EXCEPT ![r].emissions = emissions],
              !.reward_last_updated_timestamp = now]
        /\ UNCHANGED <<ticks, arrays, positions, vault, now, swap, emitted, paid>>

SetFeeRate(rate) ==
    /\ Idle
    /\ rate <= MAX_FEE_RATE
    /\ Spend("fee_rate")
    /\ pool' = [pool EXCEPT !.fee_rate = rate]
    /\ UNCHANGED <<ticks, arrays, positions, vault, now, swap, emitted, paid>>

SetProtocolFeeRate(rate) ==
    /\ Idle
    /\ rate <= MAX_PROTOCOL_FEE_RATE
    /\ Spend("fee_rate")
    /\ pool' = [pool EXCEPT !.protocol_fee_rate = rate]
    /\ UNCHANGED <<ticks, arrays, positions, vault, now, swap, emitted, paid>>

\* A second passes; the history counts what the emissions promise for it.
AdvanceTime ==
    /\ Idle
    /\ Spend("time")
    /\ now' = now + 1
    /\ emitted' = [r \in Reward |-> emitted[r] + pool.reward_infos[r].emissions]
    /\ UNCHANGED <<pool, ticks, arrays, positions, vault, swap, paid>>

----------------------------------------------------------------------------
PositionInstruction(p) ==
    \/ \E range \in PositionRanges : OpenPosition(p, range[1], range[2])
    \/ ClosePosition(p)
    \/ \E amount \in LiquidityAmounts : IncreaseLiquidity(p, amount)
    \/ \E amount \in LiquidityAmounts : DecreaseLiquidity(p, amount)
    \/ UpdateFeesAndRewards(p)
    \/ CollectFees(p)
    \/ \E r \in Reward : CollectReward(p, r)

RewardInstruction ==
    \/ \E i \in DOMAIN RewardSlots : InitializeReward(i)
    \/ \E r \in Reward, amount \in Fundings : FundReward(r, amount)
    \/ \E r \in Reward, emissions \in Emissions : SetRewardEmissions(r, emissions)

PoolInstruction ==
    \/ \E start \in ArrayStart : InitializeTickArray(start)
    \/ CollectProtocolFees
    \/ \E rate \in FeeRates : SetFeeRate(rate)
    \/ \E rate \in ProtocolFeeRates : SetProtocolFeeRate(rate)

Swapping == SwapStep \/ SwapCommit \/ SwapRevert

Next ==
    \/ \E p \in Position : PositionInstruction(p)
    \/ RewardInstruction
    \/ PoolInstruction
    \/ \E a \in SwapArgs : SwapBegin(a)
    \/ Swapping
    \/ AdvanceTime

Spec == Init /\ [][Next]_vars

\* A transaction, once begun, runs to its end.
FairSpec == Spec /\ WF_vars(Swapping)

----------------------------------------------------------------------------
(* Types.                                                                  *)

SqrtPriceRange == MIN_SQRT_PRICE_X64 .. MAX_SQRT_PRICE_X64

\* A swap to the left that ends on the first tick leaves the pool before it.
CurrentTick == MIN_TICK_INDEX - 1 .. MAX_TICK_INDEX

RewardInfos ==
    [Reward -> [initialized : BOOLEAN, emissions : U128, growth_global : U128]]

PoolType ==
    [liquidity : U128, sqrt_price : SqrtPriceRange, tick_current_index : CurrentTick,
     fee_rate : 0 .. MAX_FEE_RATE, protocol_fee_rate : 0 .. MAX_PROTOCOL_FEE_RATE,
     protocol_fee_owed : [Token -> U64], fee_growth_global : [Token -> U128],
     reward_infos : RewardInfos,
     reward_last_updated_timestamp : Nat]

TickType ==
    [initialized : BOOLEAN, liquidity_net : I128, liquidity_gross : U128,
     fee_growth_outside : [Token -> U128], reward_growths_outside : [Reward -> U128]]

PositionType ==
    [open : BOOLEAN, tick_lower_index : UsableTick, tick_upper_index : UsableTick,
     liquidity : U128, fee_growth_checkpoint : [Token -> U128], fee_owed : [Token -> U64],
     reward_growth_checkpoint : [Reward -> U128], reward_owed : [Reward -> U64]]

SwapType ==
    [args : SwapRequest, amount_remaining : U64, amount_calculated : U64,
     curr_sqrt_price : SqrtPriceRange, curr_tick_index : CurrentTick,
     curr_liquidity : U128, curr_protocol_fee : U64, curr_array_index : 1 .. 4,
     curr_fee_growth_global_input : U128, ticks : [UsableTick -> TickType]]

\* The types of the accounts, and of the variables of a swap in progress.
TypeOK ==
    /\ pool \in PoolType
    /\ ticks \in [UsableTick -> TickType]
    /\ arrays \subseteq ArrayStart
    /\ positions \in [Position -> PositionType]
    /\ vault \in [Token \cup Reward -> 0 .. Supply]
    /\ now \in Nat
    /\ swap = NoSwap \/ swap \in SwapType
    /\ budget \in [Kind -> Nat]
    /\ emitted \in [Reward -> Nat]
    /\ paid \in [Reward -> Nat]

----------------------------------------------------------------------------
(* Safety.                                                                 *)

SumOver(f) ==
    LET sum[n \in 0 .. NumPositions] == IF n = 0 THEN 0 ELSE sum[n - 1] + f[n]
    IN  sum[NumPositions]

SumWhere(P(_)) ==
    SumOver([p \in Position |-> IF P(positions[p]) THEN positions[p].liquidity ELSE 0])

LiquidityAt(t) ==
    LET around(pos) == pos.tick_lower_index <= t /\ t < pos.tick_upper_index
    IN  SumWhere(around)

\* The liquidity in force is that of the positions around the current tick, in
\* the pool and after every iteration of a swap.  The code never adds it up: it
\* follows it by the nets of the ticks it crosses.
LiquidityMatchesPositions ==
    /\ pool.liquidity = LiquidityAt(pool.tick_current_index)
    /\ ~Idle => swap.curr_liquidity = LiquidityAt(swap.curr_tick_index)

TickMatchesPositions(tick, t) ==
    LET from(pos) == pos.tick_lower_index = t
        to(pos) == pos.tick_upper_index = t
    IN  /\ tick.liquidity_gross = SumWhere(from) + SumWhere(to)
        /\ tick.liquidity_net = SumWhere(from) - SumWhere(to)

\* A tick's gross and net are those of the positions that end on it.
TicksMatchPositions ==
    \A t \in UsableTick :
        /\ TickMatchesPositions(ticks[t], t)
        /\ ~Idle => TickMatchesPositions(swap.ticks[t], t)

\* A tick is initialized while some position ends on it; one that is not has no
\* growth left over from its earlier use.
UnusedTicksAreDefault ==
    \A t \in UsableTick :
        IF ticks[t].liquidity_gross = 0 THEN ticks[t] = DefaultTick ELSE ticks[t].initialized

PriceIsAt(price, tick) ==
    \/ tick \in TickIndex /\ tick = TickIndexFromSqrtPrice(price)
    \/ tick + 1 \in TickIndex /\ price = SqrtPrice[tick + 1]

\* The current tick is the one of the price, or the one before it when the price
\* is exactly on a tick a swap reached from above.
PriceMatchesTick ==
    /\ PriceIsAt(pool.sqrt_price, pool.tick_current_index)
    /\ ~Idle => PriceIsAt(swap.curr_sqrt_price, swap.curr_tick_index)

PendingFee(p, k) ==
    Settled(0, positions[p].liquidity, FeesInside(p)[k], positions[p].fee_growth_checkpoint[k])

Claim(p, k) ==
    LET pos == positions[p]
    IN  pos.fee_owed[k] + PendingFee(p, k)
            + LiquidityTokenDelta(k, pos, pos.liquidity, FALSE)

\* The vaults can pay everyone at once: every position its liquidity and all its
\* fees, settled or not, and the protocol its share.
Solvent ==
    Idle => \A k \in Token :
        vault[k] >= pool.protocol_fee_owed[k] + SumOver([p \in Position |-> Claim(p, k)])

----------------------------------------------------------------------------
(* What a step may do.                                                     *)

SwapCommitted == ~Idle /\ Idle' /\ pool' # pool

\* A swap pays the fees of its input token, and only to positions whose range it
\* touched; nobody earns the output token.
EarnsOnlyWhereTraded ==
    [][SwapCommitted =>
        \A p \in Position : positions[p].liquidity > 0 =>
            LET lo == Lesser(pool.tick_current_index, pool'.tick_current_index)
                hi == Greater(pool.tick_current_index, pool'.tick_current_index)
                touched == /\ positions[p].tick_lower_index <= hi
                           /\ lo < positions[p].tick_upper_index
            IN  \A k \in Token :
                    \/ k = InputToken(swap.args) /\ touched
                    \/ FeesInside(p)'[k] = FeesInside(p)[k]]_vars

\* An iteration moves the price towards the limit or not at all, never past it.
PriceMovesTowardsLimit ==
    [][~Idle /\ ~Idle' =>
        IF swap.args.a_to_b
        THEN /\ swap.args.sqrt_price_limit <= swap'.curr_sqrt_price
             /\ swap'.curr_sqrt_price <= swap.curr_sqrt_price
        ELSE /\ swap.curr_sqrt_price <= swap'.curr_sqrt_price
             /\ swap'.curr_sqrt_price <= swap.args.sqrt_price_limit]_vars

\* An iteration that stops short of its target was the last: nothing remains.
ShortStepExhausts ==
    [][~Idle /\ ~Idle' =>
        \/ swap'.curr_sqrt_price = SqrtPriceTarget(swap, NextTick(swap, NextArrayIndex(swap)))
        \/ swap'.amount_remaining = 0]_vars

\* An iteration that is not the last moves the tick the swap's way.
IterationsMoveOn ==
    [][~Idle /\ ~Idle' /\ SwapRunning(swap') =>
        IF swap.args.a_to_b
        THEN swap'.curr_tick_index < swap.curr_tick_index
        ELSE swap.curr_tick_index < swap'.curr_tick_index]_vars

\* What a step adds to the growth of a reward is what the rate before the step emits in
\* the time by which the step moves the reward clock, shared by the liquidity before the
\* step and rounded down: nothing if the slot is not taken, if nobody was there to share
\* it, if the time times the rate overflows, or if the clock stays.
AccruesOnOldTerms(r) ==
    LET due == (pool'.reward_last_updated_timestamp - pool.reward_last_updated_timestamp)
                   * pool.reward_infos[r].emissions
        grown == WrappingSub(pool'.reward_infos[r].growth_global,
                             pool.reward_infos[r].growth_global)
    IN  IF ~pool.reward_infos[r].initialized \/ pool.liquidity = 0 \/ due \notin U128
        THEN grown = 0
        ELSE /\ grown * pool.liquidity <= due
             /\ due < (grown + 1) * pool.liquidity

\* The terms on which rewards accrue: how much, for whom, and among how much liquidity.
RewardTerms ==
    <<[r \in Reward |-> pool.reward_infos[r].emissions],
      pool.tick_current_index, pool.liquidity>>

\* Whatever changes the emissions, the liquidity in force or the tick, settles the rewards
\* until now first, on the old terms; and no time is ever accounted for on other terms than
\* those in force in it, twice, or ahead.
RewardsSettledBeforeChange ==
    [][/\ RewardTerms' # RewardTerms => pool'.reward_last_updated_timestamp = now
       /\ pool'.reward_last_updated_timestamp \in {pool.reward_last_updated_timestamp, now}
       /\ \A r \in Reward : AccruesOnOldTerms(r)]_vars

PendingReward(p, r) ==
    Settled(0, positions[p].liquidity, RewardsInside(p)[r],
            positions[p].reward_growth_checkpoint[r])

\* Positions never earn more of a reward than was emitted while they could.
RewardsNotOverdistributed ==
    Idle => \A r \in Reward :
        Q64 * (paid[r] + SumOver([p \in Position |->
                    positions[p].reward_owed[r] + PendingReward(p, r)])) <= emitted[r]

\* Every swap ends.
SwapTerminates == ~Idle ~> Idle

----------------------------------------------------------------------------
(* The pool, between swaps, is a LiquidityLedger.                          *)

Ledger == INSTANCE LiquidityLedger WITH
    Tick <- CurrentTick,
    Sum <- SumOver,
    range <- [p \in Position |->
                <<positions[p].tick_lower_index, positions[p].tick_upper_index>>],
    liquidity <- [p \in Position |-> positions[p].liquidity],
    tick <- pool.tick_current_index,
    active <- pool.liquidity

ImplementsLedger == Ledger!Spec

=============================================================================
