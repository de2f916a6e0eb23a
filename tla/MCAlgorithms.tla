---------------------------- MODULE MCAlgorithms ----------------------------
(***************************************************************************)
(* The SDK's pure functions, over all inputs of a small size: beside the   *)
(* transfer fees of MCTransferFees, the instructions it builds for a world *)
(* of two configs, pools of both token programs, a bundle and an           *)
(* extension, and the routes it finds and sends through four pools between *)
(* three tokens.  `input' is an instruction to build or a route to find,   *)
(* or none while the fees are counted.                                     *)
(***************************************************************************)
EXTENDS MCTransferFees, ProgramAccounts

VARIABLE input

----------------------------------------------------------------------------
\* The world.  Every pool of a config lies between two of three mints, of which the
\* third belongs to the second token program and has a hook.
Wallet == <<"wallet">>
Spacing == 1
Mint(k) == <<"mint", k>>
MCConfigs == {<<"config", "One">>, <<"config", "Two">>}
Pairs == {<<"A", "B">>, <<"B", "C">>, <<"A", "C">>}
PoolOf(config, pair) == getPool(config, Mint(pair[1]), Mint(pair[2]), Spacing)
PoolsOf(config) == {PoolOf(config, pair) : pair \in Pairs}
MCPools == UNION {PoolsOf(config) : config \in MCConfigs}

Vault(pool, mint) == <<"pool_vault", pool, mint>>
RewardVault(pool, i) == <<"reward_vault", pool, i>>
PositionMint(pool) == <<"position_mint", pool>>
BundleMint(config) == <<"bundle_mint", config>>
Authority(of, name) == <<"authority", of, name>>

Slots == 0 .. 1
RewardMint(i) == IF i = 0 THEN Mint("A") ELSE Mint("C")

\* The token accounts: what their seeds say they hold.
Atas == {getAssociatedTokenAddress(m, Wallet) : m \in {Mint("A"), Mint("B"), Mint("C")}}
Singles == {getAssociatedTokenAddress(PositionMint(pool), Wallet) : pool \in MCPools}
              \cup {getAssociatedTokenAddress(BundleMint(c), Wallet) : c \in MCConfigs}
VaultsOfPools == {Vault(pool, pool[3]) : pool \in MCPools} \cup {Vault(pool, pool[4]) : pool \in MCPools}
RewardVaults == {RewardVault(pool, i) : pool \in MCPools, i \in Slots}

Holding(account) ==
    [mint |-> IF account[1] = "reward_vault" THEN RewardMint(account[3]) ELSE account[3],
     owner |-> IF account[1] = "ata" THEN account[2] ELSE account[2],
     amount |-> IF account \in Singles THEN 1 ELSE 5]

StartTicks == {-88, 0, 88}
PositionsOf == {getPosition(PositionMint(pool)) : pool \in MCPools}
BundledOf == {getBundledPosition(BundleMint(c), 3) : c \in MCConfigs}

World ==
    [configs |-> [c \in MCConfigs |->
        [fee_authority |-> Authority(c, "fee"),
         collect_protocol_fees_authority |-> Authority(c, "collect"),
         reward_emissions_super_authority |-> Authority(c, "reward")]],
     fee_tiers |-> [f \in {getFeeTier(c, Spacing) : c \in MCConfigs} |->
        [config |-> f[2], tick_spacing |-> f[3]]],
     extensions |-> [e \in {getConfigExtension(c) : c \in MCConfigs} |->
        [config |-> e[2], config_extension_authority |-> Authority(e, "extension"),
         token_badge_authority |-> Authority(e, "badge")]],
     pools |-> [pool \in MCPools |->
        [config |-> pool[2], mintA |-> pool[3], mintB |-> pool[4],
         vaultA |-> Vault(pool, pool[3]), vaultB |-> Vault(pool, pool[4]),
         rewards |-> [i \in 1 .. 2 |-> [mint |-> RewardMint(i - 1), vault |-> RewardVault(pool, i - 1),
                                        authority |-> Authority(pool, i - 1)]]]],
     tick_arrays |-> [t \in {getTickArray(pool, s) : pool \in MCPools, s \in StartTicks} |-> t[2]],
     positions |-> [p \in PositionsOf \cup BundledOf |->
        [pool |-> IF p \in PositionsOf THEN p[2][2] ELSE PoolOf(p[2][2], <<"A", "B">>),
         position_mint |-> p[2]]],
     bundles |-> [b \in {getPositionBundle(BundleMint(c)) : c \in MCConfigs} |-> b[2]],
     tokens |-> [t \in Atas \cup Singles \cup VaultsOfPools \cup RewardVaults |-> Holding(t)],
     programs |-> [m \in {Mint("A"), Mint("B"), Mint("C")} |->
        IF m = Mint("C") THEN "token2022Program" ELSE "tokenProgram"],
     hooks |-> [m \in {Mint("A"), Mint("B"), Mint("C")} |-> m = Mint("C")]]

----------------------------------------------------------------------------
\* What a client fills in for a request: derived addresses where the SDK derives them,
\* and what it reads in the accounts.
ata(mint) == getAssociatedTokenAddress(mint, Wallet)
Program(mint) == <<"known", World.programs[mint]>>
Hook(mint, source, destination, authority) ==
    IF World.hooks[mint] THEN ExtraAccounts(mint, source, destination, authority) ELSE <<>>

ConfigParams(c) ==
    [whirlpoolsConfig |-> c, poolsConfig |-> c, whirlpoolsConfigKeypair |-> <<"keypair", "config">>,
     feeTierPda |-> getFeeTier(c, Spacing), feeTierKey |-> getFeeTier(c, Spacing),
     tickSpacing |-> Spacing, feeAuthority |-> Authority(c, "fee"),
     newFeeAuthority |-> Wallet, newCollectProtocolFeesAuthority |-> Wallet,
     newRewardEmissionsSuperAuthority |-> Wallet, newRewardAuthority |-> Wallet,
     newConfigExtensionAuthority |-> Wallet, newTokenBadgeAuthority |-> Wallet,
     collectProtocolFeesAuthority |-> Authority(c, "collect"),
     rewardEmissionsSuperAuthority |-> Authority(c, "reward"),
     whirlpoolsConfigExtension |-> getConfigExtension(c),
     whirlpoolsConfigExtensionPda |-> getConfigExtension(c),
     configExtensionAuthority |-> Authority(getConfigExtension(c), "extension"),
     tokenBadgeAuthority |-> Authority(getConfigExtension(c), "badge"),
     tokenMint |-> Mint("C"), tokenBadge |-> getTokenBadge(c, Mint("C")),
     tokenBadgePda |-> getTokenBadge(c, Mint("C")),
     defaultFeeRate |-> 1, defaultProtocolFeeRate |-> 1, feeRate |-> 1, protocolFeeRate |-> 1,
     funder |-> Wallet, owner |-> Wallet, receiver |-> Wallet,
     positionBundle |-> getPositionBundle(BundleMint(c)),
     positionBundlePda |-> getPositionBundle(BundleMint(c)),
     positionBundleMint |-> BundleMint(c), positionBundleMintKeypair |-> BundleMint(c),
     positionBundleMetadataPda |-> getPositionBundleMetadata(BundleMint(c)),
     positionBundleTokenAccount |-> ata(BundleMint(c)), positionBundleAuthority |-> Wallet,
     bundledPosition |-> getBundledPosition(BundleMint(c), 3),
     bundledPositionPda |-> getBundledPosition(BundleMint(c), 3), bundleIndex |-> 3]

PoolParams(pool) ==
    LET data == World.pools[pool]
    IN  [whirlpool |-> pool, pool |-> pool, whirlpoolPda |-> pool,
         tokenMintA |-> data.mintA, tokenMintB |-> data.mintB,
         tokenProgramA |-> Program(data.mintA), tokenProgramB |-> Program(data.mintB),
         tokenBadgeA |-> getTokenBadge(data.config, data.mintA),
         tokenBadgeB |-> getTokenBadge(data.config, data.mintB),
         tokenVaultA |-> data.vaultA, tokenVaultB |-> data.vaultB,
         tokenVaultAKeypair |-> data.vaultA, tokenVaultBKeypair |-> data.vaultB,
         tokenOwnerAccountA |-> ata(data.mintA), tokenOwnerAccountB |-> ata(data.mintB),
         initSqrtPrice |-> 1, startTick |-> 0, tickArrayPda |-> getTickArray(pool, 0),
         position |-> getPosition(PositionMint(pool)), positionPda |-> getPosition(PositionMint(pool)),
         positionMint |-> PositionMint(pool), positionMintAddress |-> PositionMint(pool),
         metadataPda |-> getPositionMetadata(PositionMint(pool)),
         positionTokenAccount |-> ata(PositionMint(pool)), positionAuthority |-> Wallet,
         tickLowerIndex |-> -88, tickUpperIndex |-> 88, tickArrayLower |-> getTickArray(pool, -88),
         tickArrayUpper |-> getTickArray(pool, 88),
         liquidityAmount |-> 1, tokenMaxA |-> 1, tokenMaxB |-> 1, tokenMinA |-> 1, tokenMinB |-> 1]

RewardParams(pool, i) ==
    LET data == Reward(World, pool, i)
    IN  [rewardIndex |-> i, rewardMint |-> data.mint, rewardVault |-> data.vault,
         rewardVaultKey |-> data.vault, rewardVaultKeypair |-> <<"keypair", "vault">>,
         rewardAuthority |-> data.authority, rewardOwnerAccount |-> ata(data.mint),
         rewardTokenBadge |-> getTokenBadge(World.pools[pool].config, data.mint),
         rewardTokenProgram |-> Program(data.mint), emissionsPerSecondX64 |-> 1,
         rewardTransferHookAccounts |-> Hook(data.mint, data.vault, ata(data.mint), pool)]

SwapParams(pool, aToB) ==
    [amount |-> 1, otherAmountThreshold |-> 1, sqrtPriceLimit |-> 1, amountSpecifiedIsInput |-> TRUE,
     aToB |-> aToB, tokenAuthority |-> Wallet, tickArray0 |-> getTickArray(pool, 0),
     tickArray1 |-> getTickArray(pool, IF aToB THEN -88 ELSE 88), tickArray2 |-> getTickArray(pool, 0)]

\* The accounts of hooks, for a transfer into the pool (in) or out of it.
HookParams(pool, inA, inB) ==
    LET data == World.pools[pool]
        one(mint, vault, in) ==
            IF in THEN Hook(mint, ata(mint), vault, Wallet) ELSE Hook(mint, vault, ata(mint), pool)
    IN  [tokenTransferHookAccountsA |-> one(data.mintA, data.vaultA, inA),
         tokenTransferHookAccountsB |-> one(data.mintB, data.vaultB, inB)]

TwoHopParams(one, two, aToBOne, aToBTwo) ==
    LET w1 == World.pools[one]
        w2 == World.pools[two]
        pick(isA, a, b) == IF isA THEN a ELSE b
        mintIn == pick(aToBOne, w1.mintA, w1.mintB)
        middle == pick(aToBOne, w1.mintB, w1.mintA)
        output == pick(aToBTwo, w2.mintB, w2.mintA)
        vaultIn == pick(aToBOne, w1.vaultA, w1.vaultB)
        vaultOne == pick(aToBOne, w1.vaultB, w1.vaultA)
        vaultTwo == pick(aToBTwo, w2.vaultA, w2.vaultB)
        vaultOut == pick(aToBTwo, w2.vaultB, w2.vaultA)
    IN  [whirlpoolOne |-> one, whirlpoolTwo |-> two, aToBOne |-> aToBOne, aToBTwo |-> aToBTwo,
         amount |-> 1, otherAmountThreshold |-> 1, amountSpecifiedIsInput |-> TRUE,
         sqrtPriceLimitOne |-> 1, sqrtPriceLimitTwo |-> 1, tokenAuthority |-> Wallet,
         tokenOwnerAccountOneA |-> ata(w1.mintA), tokenOwnerAccountOneB |-> ata(w1.mintB),
         tokenOwnerAccountTwoA |-> ata(w2.mintA), tokenOwnerAccountTwoB |-> ata(w2.mintB),
         tokenVaultOneA |-> w1.vaultA, tokenVaultOneB |-> w1.vaultB,
         tokenVaultTwoA |-> w2.vaultA, tokenVaultTwoB |-> w2.vaultB,
         tokenMintInput |-> mintIn, tokenMintIntermediate |-> middle, tokenMintOutput |-> output,
         tokenProgramInput |-> Program(mintIn), tokenProgramIntermediate |-> Program(middle),
         tokenProgramOutput |-> Program(output),
         tokenOwnerAccountInput |-> ata(mintIn), tokenOwnerAccountOutput |-> ata(output),
         tokenVaultOneInput |-> vaultIn, tokenVaultOneIntermediate |-> vaultOne,
         tokenVaultTwoIntermediate |-> vaultTwo, tokenVaultTwoOutput |-> vaultOut,
         tokenTransferHookAccountsInput |-> Hook(mintIn, ata(mintIn), vaultIn, Wallet),
         tokenTransferHookAccountsIntermediate |-> Hook(middle, vaultOne, vaultTwo, one),
         tokenTransferHookAccountsOutput |-> Hook(output, vaultOut, ata(output), two)]
           @@ [n \in {"tickArrayOne0", "tickArrayOne1", "tickArrayOne2"} |-> getTickArray(one, 0)]
           @@ [n \in {"tickArrayTwo0", "tickArrayTwo1", "tickArrayTwo2"} |-> getTickArray(two, 0)]

----------------------------------------------------------------------------
\* The requests: every method of WhirlpoolIx.  The first versions are asked for pools
\* and rewards of the first token program only.
OfConfig == {"initializeConfigIx", "initializeFeeTierIx", "setDefaultFeeRateIx",
    "setDefaultProtocolFeeRateIx", "setFeeAuthorityIx", "setCollectProtocolFeesAuthorityIx",
    "setRewardEmissionsSuperAuthorityIx", "initializePositionBundleIx",
    "initializePositionBundleWithMetadataIx", "deletePositionBundleIx",
    "closeBundledPositionIx", "initializeConfigExtensionIx", "setConfigExtensionAuthorityIx",
    "setTokenBadgeAuthorityIx", "initializeTokenBadgeIx", "deleteTokenBadgeIx"}
OfPool == {"initTickArrayIx", "openPositionIx", "openPositionWithMetadataIx", "closePositionIx",
    "updateFeesAndRewardsIx", "setFeeRateIx", "setProtocolFeeRateIx", "openBundledPositionIx",
    "initializePoolV2Ix", "collectFeesV2Ix", "collectProtocolFeesV2Ix", "decreaseLiquidityV2Ix",
    "increaseLiquidityV2Ix"}
OfPoolV1 == {"initializePoolIx", "collectFeesIx", "collectProtocolFeesIx", "decreaseLiquidityIx",
    "increaseLiquidityIx"}
OfReward == {"setRewardAuthorityIx", "setRewardAuthorityBySuperAuthorityIx",
    "setRewardEmissionsIx", "setRewardEmissionsV2Ix", "collectRewardV2Ix", "initializeRewardV2Ix"}
OfRewardV1 == {"collectRewardIx", "initializeRewardIx"}

LegacyPools == {PoolOf(config, <<"A", "B">>) : config \in MCConfigs}

Request(method, pool, slot, aToB, two, aToBTwo) ==
    [method |-> method, pool |-> pool, slot |-> slot, aToB |-> aToB, two |-> two,
     aToBTwo |-> aToBTwo]
OnPools(methods, pools, slots, directions) ==
    {Request(m, pool, i, d, pool, d) : m \in methods, pool \in pools, i \in slots, d \in directions}

\* Through two pools from A to C by B, and back.
TwoHops(method, first, second) ==
    UNION {{Request(method, PoolOf(c, first), 0, TRUE, PoolOf(c, second), TRUE),
            Request(method, PoolOf(c, second), 0, FALSE, PoolOf(c, first), FALSE)} : c \in MCConfigs}

Requests ==
    OnPools(OfConfig, LegacyPools, {0}, {TRUE})
        \cup OnPools(OfPool, MCPools, {0}, {TRUE}) \cup OnPools(OfPoolV1, LegacyPools, {0}, {TRUE})
        \cup OnPools(OfReward, MCPools, Slots, {TRUE}) \cup OnPools(OfRewardV1, MCPools, {0}, {TRUE})
        \cup OnPools({"swapV2Ix"}, MCPools, {0}, BOOLEAN)
        \cup OnPools({"swapIx"}, LegacyPools, {0}, BOOLEAN)
        \cup TwoHops("twoHopSwapV2Ix", <<"A", "B">>, <<"B", "C">>)
        \cup {Request("twoHopSwapIx", PoolOf(<<"config", "One">>, <<"A", "B">>), 0, d,
                       PoolOf(<<"config", "Two">>, <<"A", "B">>), ~d) : d \in BOOLEAN}

Params(r) ==
    LET inA == CASE r.method = "increaseLiquidityV2Ix" -> TRUE [] r.method = "swapV2Ix" -> r.aToB
                 [] OTHER -> FALSE
        inB == CASE r.method = "increaseLiquidityV2Ix" -> TRUE [] r.method = "swapV2Ix" -> ~r.aToB
                 [] OTHER -> FALSE
    IN  TwoHopParams(r.pool, r.two, r.aToB, r.aToBTwo) @@ SwapParams(r.pool, r.aToB)
            @@ HookParams(r.pool, inA, inB) @@ RewardParams(r.pool, r.slot) @@ PoolParams(r.pool)
            @@ ConfigParams(World.pools[r.pool].config)

Declared ==
    [initializeConfig |-> initializeConfig, initializeFeeTier |-> initializeFeeTier,
     initializePool |-> initializePool, initializePoolV2 |-> initializePoolV2,
     initializeTickArray |-> initializeTickArray, setDefaultFeeRate |-> setDefaultFeeRate,
     setDefaultProtocolFeeRate |-> setDefaultProtocolFeeRate, setFeeRate |-> setFeeRate,
     setProtocolFeeRate |-> setProtocolFeeRate, setFeeAuthority |-> setFeeAuthority,
     setCollectProtocolFeesAuthority |-> setCollectProtocolFeesAuthority,
     setRewardEmissionsSuperAuthority |-> setRewardEmissionsSuperAuthority,
     initializeReward |-> initializeReward, initializeRewardV2 |-> initializeRewardV2,
     setRewardEmissions |-> setRewardEmissions,
     setRewardEmissionsV2 |-> setRewardEmissionsV2,
     setRewardAuthority |-> setRewardAuthority,
     setRewardAuthorityBySuperAuthority |-> setRewardAuthorityBySuperAuthority,
     openPosition |-> openPosition, openPositionWithMetadata |-> openPositionWithMetadata,
     increaseLiquidity |-> increaseLiquidity, increaseLiquidityV2 |-> increaseLiquidityV2,
     decreaseLiquidity |-> decreaseLiquidity, decreaseLiquidityV2 |-> decreaseLiquidityV2,
     updateFeesAndRewards |-> updateFeesAndRewards, collectFees |-> collectFees,
     collectFeesV2 |-> collectFeesV2, collectReward |-> collectReward,
     collectRewardV2 |-> collectRewardV2, collectProtocolFees |-> collectProtocolFees,
     collectProtocolFeesV2 |-> collectProtocolFeesV2, closePosition |-> closePosition,
     swap |-> swap, swapV2 |-> swapV2, twoHopSwap |-> twoHopSwap,
     twoHopSwapV2 |-> twoHopSwapV2, initializePositionBundle |-> initializePositionBundle,
     initializePositionBundleWithMetadata |-> initializePositionBundleWithMetadata,
     deletePositionBundle |-> deletePositionBundle,
     openBundledPosition |-> openBundledPosition,
     closeBundledPosition |-> closeBundledPosition,
     initializeConfigExtension |-> initializeConfigExtension,
     setConfigExtensionAuthority |-> setConfigExtensionAuthority,
     setTokenBadgeAuthority |-> setTokenBadgeAuthority,
     initializeTokenBadge |-> initializeTokenBadge, deleteTokenBadge |-> deleteTokenBadge]

----------------------------------------------------------------------------
\* The routes: pools of a constant product and of some size, which fail beyond it.
MCSwapped(state, aToB, isInput, n) ==
    LET from == IF aToB THEN state[1] ELSE state[2]
        to == IF aToB THEN state[2] ELSE state[1]
        out == IF isInput THEN (to * n) \div (from + n) ELSE n
        in == IF isInput THEN n ELSE (from * n + to - n - 1) \div (to - n)
        left == <<from + in, to - out>>
    IN  IF n > 0 /\ (IF isInput THEN n <= from ELSE n < to)
        THEN [ok |-> TRUE, in |-> in, out |-> out,
              after |-> IF aToB THEN left ELSE <<left[2], left[1]>>]
        ELSE [ok |-> FALSE, in |-> 0, out |-> 0, after |-> state]

MCNative == 1
Routes == INSTANCE Router WITH Native <- MCNative, Swapped <- MCSwapped

\* Two pools of one pair, and two more that make a path around it.
MCMarket(p, s, q, r) ==
    [p |-> [a |-> 1, b |-> 2, state |-> p], s |-> [a |-> 1, b |-> 2, state |-> s],
     q |-> [a |-> 1, b |-> 3, state |-> q], r |-> [a |-> 2, b |-> 3, state |-> r]]
Markets ==
    {MCMarket(p, s, q, r) :
        p \in {<<40, 40>>, <<10, 30>>}, s \in {<<40, 40>>, <<30, 20>>}, q \in {<<50, 50>>, <<9, 90>>},
        r \in {<<60, 50>>, <<20, 90>>}}
Listed == <<"p", "q", "p", "r", "s">>

RouteRequests ==
    [method : {"route"}, market : Markets,
     trade : [tokenIn : 1 .. 3, tokenOut : 1 .. 3, isInput : BOOLEAN, amount : {0, 12, 21}],
     opts : [percentIncrement : {25, 50}, numTopRoutes : {1, 3}, numTopPartialQuotes : {8},
             maxSplits : 2 .. 3]]

Slippages == {[numerator |-> 0, denominator |-> 100], [numerator |-> 10, denominator |-> 100]}

----------------------------------------------------------------------------
NoInput == [method |-> "none"]

AlgInit ==
    \/ Init /\ input = NoInput
    \/ /\ transfer_fee = NoFee /\ amount = 0
       /\ input \in Requests \cup RouteRequests

NextFee ==
    /\ input.method = "none"
    /\ NextAmount
    /\ UNCHANGED input

AlgSpec == AlgInit /\ [][NextFee]_<<transfer_fee, amount, input>>

\* Whatever instruction a client asks for with the addresses the SDK derives and the
\* accounts it has read, the program takes it: the accounts are those of the interface,
\* none missing or of another pool, config, mint or side, the arguments as many, and the
\* keypairs the builder has sign it are signers.
BuildersFitProgram ==
    input.method \notin {"none", "route"} =>
        LET ix == WhirlpoolIx(input.method, Params(input))
            declared == Declared[ix.name]
        IN  /\ DOMAIN ix.accounts = declared.accounts
            /\ \A name \in DOMAIN ix.accounts : ix.accounts[name] # Undefined
            /\ Len(ix.args) = Len(declared.args)
            /\ ix.signers \subseteq {ix.accounts[name] : name \in declared.signers}
            /\ AccountsAccepted(World, ix)

RoutesOf(request) == Routes!findAllRoutes(request.market, Listed, request.trade, request.opts)

\* The search finds the best: each route it gives is made of quotes of the whole trade that
\* share no pool, they are in order, and no combination of paths through one or two pools
\* that it does not give is better than the number of routes it was asked for.
RoutesAreBest ==
    input.method = "route" /\ input.trade.amount > 0 =>
        Routes!AreBest(RoutesOf(input), input.market, input.trade, input.opts)

\* The route picked for its size can be sent, whatever token accounts the wallet has: on the
\* pools as quoted it costs and yields what it says to the last token, accounts it makes and
\* SOL it wraps included; if a pool is another by then, within its slippage or not at all;
\* and nothing stays behind in between.
RouteDelivers ==
    input.method = "route" =>
        LET routes == RoutesOf(input)
            before(mints) == [mint \in mints |-> IF mint = input.trade.tokenIn THEN 900 ELSE 7]
        IN  \A slippage \in Slippages, others \in SUBSET ((1 .. 3) \ {MCNative}), size \in {3, 4, 9},
               later \in {input.market, [input.market EXCEPT !["p"].state = <<38, 42>>]} :
                LET mints == others \cup ({input.trade.tokenIn} \ {MCNative})
                    n == Routes!selectFirstExecutableRoute(routes, mints, size)
                IN  n # 0 => Routes!Delivers(routes[n], input.market, later, input.trade, slippage,
                                             before(mints))

=============================================================================
