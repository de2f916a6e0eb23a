----------------------------- MODULE TwoHopSwap -----------------------------
(***************************************************************************)
(* Several pools, whose mints may withhold a fee of every transfer, and    *)
(* the instructions that reckon with it: the second version of the swap    *)
(* and of the liquidity instructions, and the two-hop swap in both its     *)
(* versions, which swaps in one pool what it swapped out of another.       *)
(*                                                                         *)
(* A trade is one transaction: TradeBegin, a SwapIteration per iteration   *)
(* of a loop, NextHop between the two loops, and TradeCommit or            *)
(* TradeRevert.  Each pool has one position.  Time stands still: rewards   *)
(* are ClmmPool's, of which this module takes the rest, pool by pool.      *)
(* The vaults exist, of Token-2022 mints too, as the second version of the *)
(* instructions expects (how they come about is Administration's).         *)
(***************************************************************************)
EXTENDS ClmmSwap, TransferFees

CONSTANTS
    Pool, Mint,
    MintOf,             \* the two mints of each pool
    Token2022Sets,      \* which mints may be those of Token-2022
    PositionRange,      \* <<lower, upper>> of the position of each pool
    InitialPrice, InitialFeeRate, InitialProtocolFeeRate,
    Funds,              \* what the wallet holds of each mint at first
    \* What the callers may ask for:
    LiquidityAmounts, Trades, FeesSet,
    Budget

Kind == {"liquidity", "trade", "collect", "transfer_fee"}

Hop == [pool : Pool, a_to_b : BOOLEAN, sqrt_price_limit : U128, arrays : Seq(Int)]

ASSUME TwoHopAssumption ==
    /\ 0 \in TickIndex
    /\ Reward \cap Token = {}
    /\ MintOf \in [Pool -> [Token -> Mint]]
    /\ \A p \in Pool : MintOf[p]["a"] # MintOf[p]["b"]
    /\ Token2022Sets \subseteq SUBSET Mint
    /\ PositionRange \in [Pool -> UsableTick \X UsableTick]
    /\ \A p \in Pool : PositionRange[p][1] < PositionRange[p][2]
    /\ InitialPrice \in MIN_SQRT_PRICE_X64 .. MAX_SQRT_PRICE_X64
    /\ InitialFeeRate \in 0 .. FEE_RATE_MUL_VALUE - 1
    /\ InitialProtocolFeeRate \in 0 .. PROTOCOL_FEE_RATE_MUL_VALUE
    /\ Funds \in U64
    /\ LiquidityAmounts \subseteq U128
    /\ Trades \subseteq [version : {1, 2}, hops : Seq(Hop), amount : U64,
                         amount_specified_is_input : BOOLEAN,
                         other_amount_threshold : U64]
    /\ \A a \in Trades : Len(a.hops) = 2 \/ (Len(a.hops) = 1 /\ a.version = 2)
    /\ FeesSet \subseteq TransferFee
    /\ Budget \in [Kind -> Nat]

VARIABLES
    pool, ticks, position, vault,   \* of each pool, as in ClmmPool
    wallet,         \* what the trader, to whom all that leaves a vault goes, holds
    token2022,      \* the mints of the Token-2022 program; the others are of the Token program
    transfer_fee,   \* the transfer fee of each mint in the present epoch
    trade,          \* the trade in progress, or NoTrade
    budget

vars == <<pool, ticks, position, vault, wallet, token2022, transfer_fee, trade, budget>>

\* The operators of ClmmPool for one pool, at rest, with all its tick arrays.
PoolOf(p) == INSTANCE ClmmPool WITH
    NumPositions <- 1, MAX_FEE_RATE <- InitialFeeRate,
    MAX_PROTOCOL_FEE_RATE <- InitialProtocolFeeRate, DAY_IN_SECONDS <- 0, Supply <- Funds,
    StartTime <- 0, InitialPrices <- {InitialPrice}, PositionRanges <- {PositionRange[p]},
    SwapArgs <- {}, FeeRates <- {}, ProtocolFeeRates <- {}, Emissions <- {},
    Fundings <- {}, Budgets <- {},
    pool <- pool[p], ticks <- ticks[p], positions <- <<position[p]>>, vault <- vault[p],
    arrays <- ArrayStart, now <- 0, swap <- [args |-> "none"],
    emitted <- <<>>, paid <- <<>>

----------------------------------------------------------------------------
NoTrade == [args |-> "none"]
Idle == trade = NoTrade

Spend(kind) ==
    /\ budget[kind] > 0
    /\ budget' = [budget EXCEPT ![kind] = @ - 1]

\* What the token program takes from the sender, and what the receiver gets, whose
\* balance stays a u64.
Sent(holdings, k, amount) == [holdings EXCEPT ![k] = @ - amount]
Received(holdings, k, amount, mint) ==
    [holdings EXCEPT ![k] = @ + TransferFeeExcludedAmount(transfer_fee[mint], amount)]
CanReceive(holdings, k, amount, mint) == Received(holdings, k, amount, mint)[k] \in U64

FeeOf(p, k) == transfer_fee[MintOf[p][k]]

InMint(h) == MintOf[h.pool][InputToken(h)]
OutMint(h) == MintOf[h.pool][OutputToken(h)]

Init ==
    /\ pool = [p \in Pool |-> PoolOf(p)!InitialPool(InitialPrice)]
    /\ ticks = [p \in Pool |-> [t \in UsableTick |-> DefaultTick]]
    /\ position = [p \in Pool |->
          [PoolOf(p)!ClosedPosition EXCEPT !.open = TRUE,
                                           !.tick_lower_index = PositionRange[p][1],
                                           !.tick_upper_index = PositionRange[p][2]]]
    /\ vault = [p \in Pool |-> [k \in Token |-> 0]]
    /\ wallet = [m \in Mint |-> Funds]
    /\ token2022 \in Token2022Sets
    /\ transfer_fee = [m \in Mint |-> NoFee]
    /\ trade = NoTrade
    /\ budget = Budget

----------------------------------------------------------------------------
(* Liquidity and fees.                                                     *)

SyncModifyLiquidity(p, delta) ==
    LET lower == PositionRange[p][1]
        upper == PositionRange[p][2]
    IN  /\ position' = [position EXCEPT ![p] = PoolOf(p)!UpdatedPosition(1, delta)]
        /\ ticks' = [ticks EXCEPT
              ![p] = [@ EXCEPT ![lower] = PoolOf(p)!UpdatedTick(lower, delta, FALSE),
                               ![upper] = PoolOf(p)!UpdatedTick(upper, delta, TRUE)]]
        /\ pool' = [pool EXCEPT ![p].liquidity = NextPoolLiquidity(pool[p], lower, upper, delta)]

\* What must be sent for the vault to get what the liquidity is worth.  (The
\* first form, for a mutant, sends that.)
SentForLiquidityAsOwed(p, k, owed) == owed

SentForLiquidity(p, k, owed) == TransferFeeIncludedAmount(FeeOf(p, k), owed)

IncreaseLiquidityV2(p, amount) ==
    LET owed(k) == PoolOf(p)!LiquidityTokenDelta(k, position[p], amount, TRUE)
        pays(k) == SentForLiquidity(p, k, owed(k))
        mint == MintOf[p]
    IN  /\ Idle
        /\ amount # 0
        /\ amount \in I128
        /\ PoolOf(p)!CanModifyLiquidity(1, amount)
        /\ \A k \in Token : /\ owed(k) # Err
                            /\ pays(k) # Err
                            /\ pays(k) <= wallet[mint[k]]
                            /\ CanReceive(vault[p], k, pays(k), mint[k])
        /\ Spend("liquidity")
        /\ SyncModifyLiquidity(p, amount)
        /\ wallet' = Sent(Sent(wallet, mint["a"], pays("a")), mint["b"], pays("b"))
        /\ vault' = [vault EXCEPT ![p] =
              Received(Received(@, "a", pays("a"), mint["a"]), "b", pays("b"), mint["b"])]
        /\ UNCHANGED <<token2022, transfer_fee, trade>>

\* The vault pays amounts to the wallet.
PaidOut(p, amount) ==
    LET mint == MintOf[p]
    IN  /\ \A k \in Token : /\ amount[k] <= vault[p][k]
                            /\ CanReceive(wallet, mint[k], amount[k], mint[k])
        /\ vault' = [vault EXCEPT ![p] = Sent(Sent(@, "a", amount["a"]), "b", amount["b"])]
        /\ wallet' = Received(Received(wallet, mint["a"], amount["a"], mint["a"]),
                              mint["b"], amount["b"], mint["b"])

DecreaseLiquidityV2(p, amount) ==
    LET owed == [k \in Token |-> PoolOf(p)!LiquidityTokenDelta(k, position[p], amount, FALSE)]
    IN  /\ Idle
        /\ amount # 0
        /\ amount \in I128
        /\ PoolOf(p)!CanModifyLiquidity(1, -amount)
        /\ \A k \in Token : owed[k] # Err
        /\ PaidOut(p, owed)
        /\ Spend("liquidity")
        /\ SyncModifyLiquidity(p, -amount)
        /\ UNCHANGED <<token2022, transfer_fee, trade>>

CollectFeesV2(p) ==
    /\ Idle
    /\ PaidOut(p, position[p].fee_owed)
    /\ Spend("collect")
    /\ position' = [position EXCEPT ![p].fee_owed = [k \in Token |-> 0]]
    /\ UNCHANGED <<pool, ticks, token2022, transfer_fee, trade>>

CollectProtocolFeesV2(p) ==
    /\ Idle
    /\ PaidOut(p, pool[p].protocol_fee_owed)
    /\ Spend("collect")
    /\ pool' = [pool EXCEPT ![p].protocol_fee_owed = [k \in Token |-> 0]]
    /\ UNCHANGED <<ticks, position, token2022, transfer_fee, trade>>

\* An epoch begins in which a mint has another fee.
SetTransferFee(m, f) ==
    /\ Idle
    /\ m \in token2022
    /\ f # transfer_fee[m]
    /\ Spend("transfer_fee")
    /\ transfer_fee' = [transfer_fee EXCEPT ![m] = f]
    /\ UNCHANGED <<pool, ticks, position, vault, wallet, token2022, trade>>

----------------------------------------------------------------------------
(* A trade.  Its hops are computed in the order of exactness: from the     *)
(* first if the input is fixed, from the last if the output is.  An        *)
(* amount is that of the instruction, with transfer fees; the swap in the  *)
(* pool has its own, without the fee of its input.                         *)

IsInput(t) == t.args.amount_specified_is_input
HopCount(t) == Len(t.args.hops)
FirstComputed(a) == IF a.amount_specified_is_input THEN 1 ELSE Len(a.hops)
LastComputed(a) == IF a.amount_specified_is_input THEN Len(a.hops) ELSE 1

\* swap_with_transfer_fee_extension, before its swap: the amount it asks the pool for.
SwapAmount(h, isInput, amount) ==
    IF isInput THEN TransferFeeExcludedAmount(transfer_fee[InMint(h)], amount)
    ELSE TransferFeeIncludedAmount(transfer_fee[OutMint(h)], amount)

SwapArgsOf(h, isInput, amount) ==
    [a_to_b |-> h.a_to_b, amount_specified_is_input |-> isInput,
     amount |-> SwapAmount(h, isInput, amount), sqrt_price_limit |-> h.sqrt_price_limit,
     arrays |-> h.arrays]

CanSwap(h, isInput, amount) ==
    /\ SwapAmount(h, isInput, amount) # Err
    /\ SwapAllowed(pool[h.pool], SwapArgsOf(h, isInput, amount))

SwapOf(h, isInput, amount) ==
    SwapStart(pool[h.pool], ticks[h.pool], SwapArgsOf(h, isInput, amount))

\* And after it: what must be sent in, and what is sent out.  An exact input that
\* was used up is sent as the caller gave it.
HopIn(t, i) ==
    LET s == t.swaps[i]
    IN  IF IsInput(t) /\ AmountIn(s) = s.args.amount THEN t.amounts[i]
        ELSE TransferFeeIncludedAmount(transfer_fee[InMint(t.args.hops[i])], AmountIn(s))

HopOut(t, i) == AmountOut(t.swaps[i])

\* What the second loop is asked for, from what the first one found.  (The first
\* form, for a mutant, asks for the caller's amount again.)
NextAmountUnchanged(t) == t.args.amount

NextAmount(t) ==
    IF IsInput(t) THEN HopOut(t, 1)
    ELSE TransferFeeExcludedAmount(transfer_fee[InMint(t.args.hops[2])], HopIn(t, 2))

----------------------------------------------------------------------------
\* The checks on the pools and their mints; the first version knows the Token
\* program only.
TradeAllowed(a) ==
    /\ Len(a.hops) = 2 => /\ a.hops[1].pool # a.hops[2].pool
                          /\ OutMint(a.hops[1]) = InMint(a.hops[2])
    /\ a.version = 1 => \A i \in DOMAIN a.hops :
                            {InMint(a.hops[i]), OutMint(a.hops[i])} \cap token2022 = {}
    /\ \A i \in DOMAIN a.hops : PoolOf(a.hops[i].pool)!SwapArraysLoad(a.hops[i])

TradeBegin(a) ==
    LET i == FirstComputed(a)
        isInput == a.amount_specified_is_input
    IN  /\ Idle
        /\ budget["trade"] > 0
        /\ TradeAllowed(a)
        /\ CanSwap(a.hops[i], isInput, a.amount)
        /\ trade' = [args |-> a, current |-> i,
                     amounts |-> [j \in DOMAIN a.hops |-> IF j = i THEN a.amount ELSE 0],
                     swaps |-> [j \in DOMAIN a.hops |->
                                  SwapOf(a.hops[i], isInput, a.amount)]]
        /\ UNCHANGED <<pool, ticks, position, vault, wallet, token2022, transfer_fee, budget>>

Swap == trade.swaps[trade.current]
SwappedPool == pool[trade.args.hops[trade.current].pool]

SwapIteration ==
    /\ ~Idle
    /\ SwapRunning(Swap)
    /\ CanSearch(Swap)
    /\ \E j \in {NextArrayIndex(Swap)} : \E t \in {NextTick(Swap, j)} :
          \E c \in {SwapComputation(SwappedPool, Swap, t)} :
             /\ StepOk(SwappedPool, Swap, j, t, c)
             /\ trade' = [trade EXCEPT !.swaps[trade.current] =
                             StepSwap(SwappedPool, Swap, j, t, c, SwappedPool.reward_infos)]
    /\ UNCHANGED <<pool, ticks, position, vault, wallet, token2022, transfer_fee, budget>>

\* The first loop is done, and its amounts can be had.
HopDone(t) ==
    /\ ~SwapRunning(t.swaps[t.current])
    /\ HopIn(t, t.current) # Err

CanGoOn(t) ==
    /\ HopDone(t)
    /\ \E i \in {LastComputed(t.args)} : CanSwap(t.args.hops[i], IsInput(t), NextAmount(t))

NextHop ==
    /\ ~Idle
    /\ trade.current # LastComputed(trade.args)
    /\ CanGoOn(trade)
    /\ \E i \in {LastComputed(trade.args)} :
          trade' = [trade EXCEPT !.current = i, !.amounts[i] = NextAmount(trade),
                                 !.swaps[i] = SwapOf(trade.args.hops[i], IsInput(trade),
                                                     NextAmount(trade))]
    /\ UNCHANGED <<pool, ticks, position, vault, wallet, token2022, transfer_fee, budget>>

\* The least that arrives at the end, or the most that is sent at the start.  (The
\* first form, for a mutant, looks at what is sent at the end.)
ThresholdBeforeFee(t) ==
    IF IsInput(t) THEN HopOut(t, HopCount(t)) >= t.args.other_amount_threshold
    ELSE HopIn(t, 1) <= t.args.other_amount_threshold

TradeWithinThreshold(t) ==
    LET n == HopCount(t)
        arrives == TransferFeeExcludedAmount(transfer_fee[OutMint(t.args.hops[n])], HopOut(t, n))
    IN  IF IsInput(t) THEN arrives >= t.args.other_amount_threshold
        ELSE HopIn(t, 1) <= t.args.other_amount_threshold

\* The second version takes all of the token in between, or nothing happens.  (The
\* first form, for a mutant, is content with enough of it.)
IntermediateEnough(t) ==
    HopCount(t) = 2 /\ t.args.version = 2 => HopOut(t, 1) >= HopIn(t, 2)

IntermediateMatches(t) ==
    HopCount(t) = 2 /\ t.args.version = 2 => HopOut(t, 1) = HopIn(t, 2)

\* The transfers of the wallet.  In the second version the token in between goes
\* from vault to vault; in the first it passes through the wallet, which may have
\* to add to it.
WalletBetween(t) ==
    LET paid == Sent(wallet, InMint(t.args.hops[1]), HopIn(t, 1))
        between == InMint(t.args.hops[2])
    IN  IF t.args.version = 2 THEN paid
        ELSE Sent(Received(paid, between, HopOut(t, 1), between), between, HopIn(t, 2))

WalletAfter(t) ==
    LET n == HopCount(t)
        mint == OutMint(t.args.hops[n])
    IN  Received(WalletBetween(t), mint, HopOut(t, n), mint)

CanTransfer(t) ==
    /\ HopIn(t, 1) <= wallet[InMint(t.args.hops[1])]
    /\ t.args.version = 1 =>
          LET between == OutMint(t.args.hops[1])
          IN  CanReceive(wallet, between, HopOut(t, 1), between)
    /\ \A m \in Mint : WalletBetween(t)[m] >= 0 /\ WalletAfter(t)[m] \in U64
    /\ \A i \in 1 .. HopCount(t) :
          LET h == t.args.hops[i]
          IN  /\ CanReceive(vault[h.pool], InputToken(h), HopIn(t, i), InMint(h))
              /\ HopOut(t, i) <= vault[h.pool][OutputToken(h)]

CanCommitTrade(t) ==
    /\ HopDone(t)
    /\ TradeWithinThreshold(t)
    /\ IntermediateMatches(t)
    /\ CanTransfer(t)

HopsIn(t, p) == {i \in 1 .. HopCount(t) : t.args.hops[i].pool = p}

\* What each pool has after the hops: what the hop in it leaves there.
AfterHops(t, before, after) ==
    [p \in Pool |-> IF HopsIn(t, p) = {} THEN before[p]
                   ELSE after[CHOOSE i \in HopsIn(t, p) : TRUE]]

\* A vault gets what arrives of what was sent in.
VaultAfterHop(t, i) ==
    LET h == t.args.hops[i]
    IN  Sent(Received(vault[h.pool], InputToken(h), HopIn(t, i), InMint(h)),
             OutputToken(h), HopOut(t, i))

PoolAfterHop(t, i) ==
    LET p == t.args.hops[i].pool
    IN  PoolAfterSwap(pool[p], t.swaps[i], pool[p].reward_infos, 0)

TradeCommit ==
    LET hops == 1 .. HopCount(trade)
        poolAfter == [i \in hops |-> PoolAfterHop(trade, i)]
        ticksAfter == [i \in hops |-> trade.swaps[i].ticks]
        vaultAfter == [i \in hops |-> VaultAfterHop(trade, i)]
    IN  /\ ~Idle
        /\ trade.current = LastComputed(trade.args)
        /\ CanCommitTrade(trade)
        /\ pool' = AfterHops(trade, pool, poolAfter)
        /\ ticks' = AfterHops(trade, ticks, ticksAfter)
        /\ vault' = AfterHops(trade, vault, vaultAfter)
        /\ wallet' = WalletAfter(trade)
        /\ trade' = NoTrade
        /\ Spend("trade")
        /\ UNCHANGED <<position, token2022, transfer_fee>>

\* An error in either loop, between them or after them undoes both.
TradeRevert ==
    /\ ~Idle
    /\ IF SwapRunning(Swap) THEN ~CanStep(SwappedPool, Swap)
       ELSE IF trade.current # LastComputed(trade.args) THEN ~CanGoOn(trade)
       ELSE ~CanCommitTrade(trade)
    /\ trade' = NoTrade
    /\ UNCHANGED <<pool, ticks, position, vault, wallet, token2022, transfer_fee, budget>>

----------------------------------------------------------------------------
Next ==
    \/ \E p \in Pool :
          \/ \E amount \in LiquidityAmounts : IncreaseLiquidityV2(p, amount)
          \/ \E amount \in LiquidityAmounts : DecreaseLiquidityV2(p, amount)
          \/ CollectFeesV2(p)
          \/ CollectProtocolFeesV2(p)
    \/ \E m \in Mint, f \in FeesSet : SetTransferFee(m, f)
    \/ \E a \in Trades : TradeBegin(a)
    \/ SwapIteration
    \/ NextHop
    \/ TradeCommit
    \/ TradeRevert

Spec == Init /\ [][Next]_vars

----------------------------------------------------------------------------
(* Types.                                                                  *)

SwapOk(p, s) ==
    /\ s.args.amount \in U64
    /\ s.amount_remaining \in 0 .. s.args.amount
    /\ s.amount_calculated \in U64
    /\ s.curr_sqrt_price \in PoolOf(p)!SqrtPriceRange
    /\ s.curr_tick_index \in PoolOf(p)!CurrentTick
    /\ s.curr_liquidity \in U128
    /\ s.curr_protocol_fee \in U64
    /\ s.curr_array_index \in 1 .. 4
    /\ s.curr_fee_growth_global_input \in U128
    /\ s.ticks \in [UsableTick -> PoolOf(p)!TickType]

\* The types of the accounts, and of the variables of a trade in progress.
TypeOK ==
    /\ \A p \in Pool : /\ pool[p] \in PoolOf(p)!PoolType
                        /\ ticks[p] \in [UsableTick -> PoolOf(p)!TickType]
                        /\ position[p] \in PoolOf(p)!PositionType
                        /\ vault[p] \in [Token -> U64]
    /\ wallet \in [Mint -> U64]
    /\ token2022 \subseteq Mint
    /\ transfer_fee \in [Mint -> TransferFee]
    /\ \A m \in Mint \ token2022 : transfer_fee[m] = NoFee
    /\ ~Idle => /\ trade.args \in Trades
                /\ trade.current \in 1 .. HopCount(trade)
                /\ trade.amounts \in [1 .. HopCount(trade) -> U64]
                /\ \A i \in 1 .. HopCount(trade) :
                      SwapOk(trade.args.hops[i].pool, trade.swaps[i])
    /\ budget \in [Kind -> Nat]

----------------------------------------------------------------------------
(* Safety.                                                                 *)

\* Every pool's vaults can pay its position and the protocol, although less than
\* was sent arrives in them and the fees of the mints change between the times.
Solvent == \A p \in Pool : PoolOf(p)!Solvent

TradeCommitted == ~Idle /\ budget'["trade"] < budget["trade"]

\* In the second version the swap of the second pool takes in exactly what arrives
\* of what the swap of the first gave out, and the trader neither gains nor spends
\* any of the token in between.
IntermediateConsumed ==
    [][TradeCommitted /\ HopCount(trade) = 2 /\ trade.args.version = 2 =>
        LET mint == InMint(trade.args.hops[2])
        IN  /\ AmountIn(trade.swaps[2])
                  = TransferFeeExcludedAmount(transfer_fee[mint], AmountOut(trade.swaps[1]))
            /\ mint \notin {InMint(trade.args.hops[1]), OutMint(trade.args.hops[2])}
            /\ wallet'[mint] = wallet[mint]]_vars

ReachedLimit(i) == trade.swaps[i].curr_sqrt_price = trade.swaps[i].args.sqrt_price_limit

Spent(m) == wallet[m] - wallet'[m]

\* The trader's own accounts change as the trade was asked for.  The fixed amount
\* is the one sent, or the one that arrives after the transfer fee, unless the
\* swap of that end came to its price limit; the other amount is within the
\* threshold.
TradeIsAsAsked ==
    [][TradeCommitted =>
        LET a == trade.args
            n == HopCount(trade)
            in == InMint(a.hops[1])
            out == OutMint(a.hops[n])
        IN  in # out =>
              IF a.amount_specified_is_input
              THEN /\ Spent(in) <= a.amount
                   /\ Spent(in) = a.amount \/ ReachedLimit(1)
                   /\ -Spent(out) >= a.other_amount_threshold
              ELSE /\ -Spent(out) <= a.amount
                   /\ -Spent(out) = a.amount \/ ReachedLimit(n)
                   /\ Spent(in) <= a.other_amount_threshold]_vars

\* The first version passes the token in between through the trader's account.  It
\* draws on what the trader had there only for an exact output whose first swap
\* came to its price limit.
IntermediateNotSpent ==
    [][TradeCommitted /\ HopCount(trade) = 2 =>
        \/ Spent(InMint(trade.args.hops[2])) <= 0
        \/ /\ trade.args.version = 1
           /\ ~trade.args.amount_specified_is_input
           /\ ReachedLimit(1)]_vars

=============================================================================
