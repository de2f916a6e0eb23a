--------------------------- MODULE SdkInstructions ---------------------------
(***************************************************************************)
(* How the SDK builds instructions: the addresses it derives               *)
(* (utils/public/pda-utils.ts), the builder of each instruction            *)
(* (instructions/) and the class that offers them all (ix.ts).             *)
(*                                                                         *)
(* An address derived from seeds is the tuple of its seeds, a program's    *)
(* derived address or a keypair stands for its public key (the bumps are   *)
(* left out: the program ignores those it is given), and a parameter that  *)
(* is not there is undefined.                                              *)
(***************************************************************************)
EXTENDS Interface, Functions, TLC

Undefined == <<"undefined">>

Of(p, name) == IF name \in DOMAIN p THEN p[name] ELSE Undefined

\* Accounts that the builder takes over from its parameters under the same name.
Same(p, names) == [name \in names |-> Of(p, name)]

\* Accounts whose address the SDK knows.
Known(names) == [name \in names |-> <<"known", name>>]

\* An instruction with what follows its accounts (remaining) and with the keypairs
\* that the builder has sign it.
Instruction(name, args, accounts, remaining, signers) ==
    [name |-> name, args |-> args, accounts |-> accounts, remaining |-> remaining,
     signers |-> signers]

Ix(name, args, accounts) == Instruction(name, args, accounts, <<>>, {})

----------------------------------------------------------------------------
\* PDAUtil.
getPool(config, mintA, mintB, tickSpacing) == <<"pool", config, mintA, mintB, tickSpacing>>
getPosition(positionMint) == <<"position", positionMint>>
getPositionMetadata(positionMint) == <<"metadata", positionMint>>
getTickArray(pool, startTick) == <<"tick_array", pool, startTick>>
getFeeTier(config, tickSpacing) == <<"fee_tier", config, tickSpacing>>
getBundledPosition(bundleMint, bundleIndex) == <<"bundled_position", bundleMint, bundleIndex>>
getPositionBundle(bundleMint) == <<"position_bundle", bundleMint>>
getPositionBundleMetadata(bundleMint) == <<"metadata", bundleMint>>
getConfigExtension(config) == <<"config_extension", config>>
getTokenBadge(config, mint) == <<"token_badge", config, mint>>
getAssociatedTokenAddress(mint, owner) == <<"ata", owner, mint>>

----------------------------------------------------------------------------
\* RemainingAccountsBuilder: the slices of accounts that transfer hooks need, each with
\* its kind; a mint without a hook adds none, and without any there is no list (null).
NoSlices == <<"null">>

Slice(p, kind, name) ==
    IF name \in DOMAIN p /\ p[name] # <<>> THEN <<[kind |-> kind, accounts |-> p[name]]>>
    ELSE <<>>

WithSlices(name, args, accounts, slices) ==
    Instruction(name, Append(args, IF slices = <<>> THEN NoSlices ELSE slices), accounts, slices, {})

\* (The first form, for a mutant, gives both the kind of the first.)
HooksAllA(p) ==
    Slice(p, "TransferHookA", "tokenTransferHookAccountsA")
        \o Slice(p, "TransferHookA", "tokenTransferHookAccountsB")

Hooks(p) ==
    Slice(p, "TransferHookA", "tokenTransferHookAccountsA")
        \o Slice(p, "TransferHookB", "tokenTransferHookAccountsB")

----------------------------------------------------------------------------
\* Configurations, fee tiers, pools and tick arrays.
initializeConfigIx(p) ==
    Instruction("initializeConfig",
        <<p.feeAuthority, p.collectProtocolFeesAuthority, p.rewardEmissionsSuperAuthority,
          p.defaultProtocolFeeRate>>,
        ("config" :> p.whirlpoolsConfigKeypair) @@ Same(p, {"funder"}) @@ Known({"systemProgram"}),
        <<>>, {p.whirlpoolsConfigKeypair})

initializeFeeTierIx(p) ==
    Ix("initializeFeeTier", <<p.tickSpacing, p.defaultFeeRate>>,
        ("config" :> p.whirlpoolsConfig) @@ ("feeTier" :> p.feeTierPda)
            @@ Same(p, {"feeAuthority", "funder"}) @@ Known({"systemProgram"}))

initializePoolIx(p) ==
    Ix("initializePool", <<"bumps", p.tickSpacing, p.initSqrtPrice>>,
        ("feeTier" :> p.feeTierKey)
            @@ Same(p, {"poolsConfig", "funder", "pool"} \cup Mints \cup Vaults)
            @@ Known({"tokenProgram"} \cup Created))

initializePoolV2Ix(p) ==
    Ix("initializePoolV2", <<p.tickSpacing, p.initSqrtPrice>>,
        ("poolsConfig" :> p.whirlpoolsConfig) @@ ("pool" :> p.whirlpoolPda)
            @@ ("feeTier" :> p.feeTierKey)
            @@ ("tokenVaultA" :> p.tokenVaultAKeypair) @@ ("tokenVaultB" :> p.tokenVaultBKeypair)
            @@ Same(p, {"tokenBadgeA", "tokenBadgeB", "funder"} \cup Mints \cup TokenPrograms)
            @@ Known(Created))

initTickArrayIx(p) ==
    Ix("initializeTickArray", <<p.startTick>>,
        ("pool" :> p.whirlpool) @@ ("tickArray" :> p.tickArrayPda) @@ Same(p, {"funder"})
            @@ Known({"systemProgram"}))

\* What most of the setters share.
ofConfig(p) == "poolsConfig" :> p.whirlpoolsConfig
ofPool(p) == "pool" :> p.whirlpool

setDefaultFeeRateIx(p) ==
    Ix("setDefaultFeeRate", <<p.defaultFeeRate>>,
        ofConfig(p) @@ ("feeTier" :> getFeeTier(p.whirlpoolsConfig, p.tickSpacing))
            @@ Same(p, {"feeAuthority"}))

setDefaultProtocolFeeRateIx(p) ==
    Ix("setDefaultProtocolFeeRate", <<p.defaultProtocolFeeRate>>,
        ofConfig(p) @@ Same(p, {"feeAuthority"}))

setFeeRateIx(p) ==
    Ix("setFeeRate", <<p.feeRate>>, ofConfig(p) @@ ofPool(p) @@ Same(p, {"feeAuthority"}))

setProtocolFeeRateIx(p) ==
    Ix("setProtocolFeeRate", <<p.protocolFeeRate>>,
        ofConfig(p) @@ ofPool(p) @@ Same(p, {"feeAuthority"}))

setFeeAuthorityIx(p) ==
    Ix("setFeeAuthority", <<>>, ofConfig(p) @@ Same(p, {"feeAuthority", "newFeeAuthority"}))

setCollectProtocolFeesAuthorityIx(p) ==
    Ix("setCollectProtocolFeesAuthority", <<>>,
        ofConfig(p)
            @@ Same(p, {"collectProtocolFeesAuthority", "newCollectProtocolFeesAuthority"}))

setRewardEmissionsSuperAuthorityIx(p) ==
    Ix("setRewardEmissionsSuperAuthority", <<>>,
        ofConfig(p)
            @@ Same(p, {"rewardEmissionsSuperAuthority", "newRewardEmissionsSuperAuthority"}))

----------------------------------------------------------------------------
\* Rewards.
initializeRewardIx(p) ==
    Instruction("initializeReward", <<p.rewardIndex>>,
        ofPool(p) @@ ("rewardVault" :> p.rewardVaultKeypair)
            @@ Same(p, {"rewardAuthority", "funder", "rewardMint"})
            @@ Known({"tokenProgram"} \cup Created),
        <<>>, {p.rewardVaultKeypair})

initializeRewardV2Ix(p) ==
    Instruction("initializeRewardV2", <<p.rewardIndex>>,
        ofPool(p) @@ ("rewardVault" :> p.rewardVaultKeypair)
            @@ Same(p, {"rewardAuthority", "funder", "rewardMint", "rewardTokenBadge",
                        "rewardTokenProgram"})
            @@ Known(Created),
        <<>>, {p.rewardVaultKeypair})

setRewardEmissionsAs(name, p) ==
    Ix(name, <<p.rewardIndex, p.emissionsPerSecondX64>>,
        ofPool(p) @@ ("rewardVault" :> p.rewardVaultKey) @@ Same(p, {"rewardAuthority"}))

setRewardEmissionsIx(p) == setRewardEmissionsAs("setRewardEmissions", p)
setRewardEmissionsV2Ix(p) == setRewardEmissionsAs("setRewardEmissionsV2", p)

setRewardAuthorityIx(p) ==
    Ix("setRewardAuthority", <<p.rewardIndex>>,
        ofPool(p) @@ Same(p, {"rewardAuthority", "newRewardAuthority"}))

setRewardAuthorityBySuperAuthorityIx(p) ==
    Ix("setRewardAuthorityBySuperAuthority", <<p.rewardIndex>>,
        ofConfig(p) @@ ofPool(p)
            @@ Same(p, {"rewardEmissionsSuperAuthority", "newRewardAuthority"}))

----------------------------------------------------------------------------
\* Positions.
openPositionAccounts(p) ==
    ofPool(p) @@ ("position" :> p.positionPda) @@ ("positionMint" :> p.positionMintAddress)
        @@ Same(p, {"funder", "owner", "positionTokenAccount"}) @@ Known(NewToken)

openPositionIx(p) ==
    Ix("openPosition", <<"bumps", p.tickLowerIndex, p.tickUpperIndex>>, openPositionAccounts(p))

openPositionWithMetadataIx(p) ==
    Ix("openPositionWithMetadata", <<"bumps", p.tickLowerIndex, p.tickUpperIndex>>,
        openPositionAccounts(p) @@ ("positionMetadataAccount" :> p.metadataPda)
            @@ Known(Metadata))

HeldByAuthority == Held \cup {"positionAuthority"}

increaseLiquidityIx(p) ==
    Ix("increaseLiquidity", <<p.liquidityAmount, p.tokenMaxA, p.tokenMaxB>>,
        Same(p, {"pool"} \cup HeldByAuthority \cup Owned \cup Vaults \cup Bounds)
            @@ Known({"tokenProgram"}))

increaseLiquidityV2Ix(p) ==
    WithSlices("increaseLiquidityV2", <<p.liquidityAmount, p.tokenMaxA, p.tokenMaxB>>,
        Same(p, {"pool"} \cup HeldByAuthority \cup Owned \cup Vaults \cup Bounds
                  \cup Mints \cup TokenPrograms)
            @@ Known({"memoProgram"}),
        Hooks(p))

decreaseLiquidityIx(p) ==
    Ix("decreaseLiquidity", <<p.liquidityAmount, p.tokenMinA, p.tokenMinB>>,
        ofPool(p) @@ Same(p, HeldByAuthority \cup Owned \cup Vaults \cup Bounds)
            @@ Known({"tokenProgram"}))

decreaseLiquidityV2Ix(p) ==
    WithSlices("decreaseLiquidityV2", <<p.liquidityAmount, p.tokenMinA, p.tokenMinB>>,
        ofPool(p)
            @@ Same(p, HeldByAuthority \cup Owned \cup Vaults \cup Bounds
                         \cup Mints \cup TokenPrograms)
            @@ Known({"memoProgram"}),
        Hooks(p))

updateFeesAndRewardsIx(p) ==
    Ix("updateFeesAndRewards", <<>>, ofPool(p) @@ Same(p, {"position"} \cup Bounds))

collectFeesIx(p) ==
    Ix("collectFees", <<>>,
        ofPool(p) @@ Same(p, HeldByAuthority \cup Owned \cup Vaults) @@ Known({"tokenProgram"}))

collectFeesV2Ix(p) ==
    WithSlices("collectFeesV2", <<>>,
        ofPool(p)
            @@ Same(p, HeldByAuthority \cup Owned \cup Vaults \cup Mints \cup TokenPrograms)
            @@ Known({"memoProgram"}),
        Hooks(p))

collectRewardIx(p) ==
    Ix("collectReward", <<p.rewardIndex>>,
        ofPool(p) @@ Same(p, HeldByAuthority \cup {"rewardOwnerAccount", "rewardVault"})
            @@ Known({"tokenProgram"}))

collectRewardV2Ix(p) ==
    WithSlices("collectRewardV2", <<p.rewardIndex>>,
        ofPool(p)
            @@ Same(p, HeldByAuthority \cup {"rewardOwnerAccount", "rewardVault", "rewardMint",
                                             "rewardTokenProgram"})
            @@ Known({"memoProgram"}),
        Slice(p, "TransferHookReward", "rewardTransferHookAccounts"))

Destinations(p) ==
    ("tokenDestinationA" :> p.tokenOwnerAccountA) @@ ("tokenDestinationB" :> p.tokenOwnerAccountB)

collectProtocolFeesIx(p) ==
    Ix("collectProtocolFees", <<>>,
        ofConfig(p) @@ ofPool(p) @@ Destinations(p)
            @@ Same(p, {"collectProtocolFeesAuthority"} \cup Vaults) @@ Known({"tokenProgram"}))

collectProtocolFeesV2Ix(p) ==
    WithSlices("collectProtocolFeesV2", <<>>,
        ofConfig(p) @@ ofPool(p) @@ Destinations(p)
            @@ Same(p, {"collectProtocolFeesAuthority"} \cup Vaults \cup Mints \cup TokenPrograms)
            @@ Known({"memoProgram"}),
        Hooks(p))

closePositionIx(p) ==
    Ix("closePosition", <<>>,
        Same(p, HeldByAuthority \cup {"receiver", "positionMint"}) @@ Known({"tokenProgram"}))

----------------------------------------------------------------------------
\* Swaps.
swapIx(p) ==
    Ix("swap",
        <<p.amount, p.otherAmountThreshold, p.sqrtPriceLimit, p.amountSpecifiedIsInput, p.aToB>>,
        Same(p, {"tokenAuthority", "pool"} \cup Owned \cup Vaults \cup Path)
            @@ Known({"tokenProgram"}))

swapV2Ix(p) ==
    WithSlices("swapV2",
        <<p.amount, p.otherAmountThreshold, p.sqrtPriceLimit, p.amountSpecifiedIsInput, p.aToB>>,
        Same(p, {"tokenAuthority", "pool"} \cup Owned \cup Vaults \cup Path
                  \cup Mints \cup TokenPrograms)
            @@ Known({"memoProgram"}),
        Hooks(p))

twoHopArgs(p) ==
    <<p.amount, p.otherAmountThreshold, p.amountSpecifiedIsInput, p.aToBOne, p.aToBTwo,
      p.sqrtPriceLimitOne, p.sqrtPriceLimitTwo>>

twoPools(p) == ("poolOne" :> p.whirlpoolOne) @@ ("poolTwo" :> p.whirlpoolTwo)

twoHopSwapIx(p) ==
    Ix("twoHopSwap", twoHopArgs(p),
        twoPools(p)
            @@ Same(p, {"tokenAuthority"} \cup Paths
                 \cup {"tokenOwnerAccountOneA", "tokenOwnerAccountOneB", "tokenVaultOneA",
                       "tokenVaultOneB", "tokenOwnerAccountTwoA", "tokenOwnerAccountTwoB",
                       "tokenVaultTwoA", "tokenVaultTwoB"})
            @@ Known({"tokenProgram"}))

twoHopSwapV2Ix(p) ==
    WithSlices("twoHopSwapV2", twoHopArgs(p),
        twoPools(p)
            @@ Same(p, {"tokenAuthority"} \cup Paths
                 \cup {"tokenMintInput", "tokenMintIntermediate", "tokenMintOutput",
                       "tokenProgramInput", "tokenProgramIntermediate", "tokenProgramOutput",
                       "tokenOwnerAccountInput", "tokenVaultOneInput",
                       "tokenVaultOneIntermediate", "tokenVaultTwoIntermediate",
                       "tokenVaultTwoOutput", "tokenOwnerAccountOutput"})
            @@ Known({"memoProgram"}),
        Slice(p, "TransferHookInput", "tokenTransferHookAccountsInput")
            \o Slice(p, "TransferHookIntermediate", "tokenTransferHookAccountsIntermediate")
            \o Slice(p, "TransferHookOutput", "tokenTransferHookAccountsOutput"))

----------------------------------------------------------------------------
\* Position bundles.
initializePositionBundleAs(name, p, more) ==
    Instruction(name, <<>>,
        ("positionBundle" :> p.positionBundlePda)
            @@ ("positionBundleMint" :> p.positionBundleMintKeypair)
            @@ ("positionBundleOwner" :> p.owner)
            @@ Same(p, {"positionBundleTokenAccount", "funder"}) @@ Known(NewToken) @@ more,
        <<>>, {p.positionBundleMintKeypair})

initializePositionBundleIx(p) ==
    initializePositionBundleAs("initializePositionBundle", p, <<>>)

initializePositionBundleWithMetadataIx(p) ==
    initializePositionBundleAs("initializePositionBundleWithMetadata", p,
        ("positionBundleMetadata" :> p.positionBundleMetadataPda) @@ Known(Metadata))

deletePositionBundleIx(p) ==
    Ix("deletePositionBundle", <<>>,
        ("positionBundleOwner" :> p.owner)
            @@ Same(p, BundleToken \cup {"positionBundleMint", "receiver"})
            @@ Known({"tokenProgram"}))

openBundledPositionIx(p) ==
    Ix("openBundledPosition", <<p.bundleIndex, p.tickLowerIndex, p.tickUpperIndex>>,
        ofPool(p) @@ ("bundledPosition" :> p.bundledPositionPda)
            @@ Same(p, BundleToken \cup {"positionBundleAuthority", "funder"}) @@ Known(Created))

closeBundledPositionIx(p) ==
    Ix("closeBundledPosition", <<p.bundleIndex>>,
        Same(p, BundleToken \cup {"bundledPosition", "positionBundleAuthority", "receiver"}))

----------------------------------------------------------------------------
\* Config extensions and token badges.
ofExtension(p) == ofConfig(p) @@ ("poolsConfigExtension" :> p.whirlpoolsConfigExtension)

initializeConfigExtensionIx(p) ==
    Ix("initializeConfigExtension", <<>>,
        ("config" :> p.whirlpoolsConfig) @@ ("configExtension" :> p.whirlpoolsConfigExtensionPda)
            @@ Same(p, {"funder", "feeAuthority"}) @@ Known({"systemProgram"}))

setConfigExtensionAuthorityIx(p) ==
    Ix("setConfigExtensionAuthority", <<>>,
        ofExtension(p) @@ Same(p, {"configExtensionAuthority", "newConfigExtensionAuthority"}))

setTokenBadgeAuthorityIx(p) ==
    Ix("setTokenBadgeAuthority", <<>>,
        ofExtension(p) @@ Same(p, {"configExtensionAuthority", "newTokenBadgeAuthority"}))

initializeTokenBadgeIx(p) ==
    Ix("initializeTokenBadge", <<>>,
        ofExtension(p) @@ ("tokenBadge" :> p.tokenBadgePda)
            @@ Same(p, {"tokenBadgeAuthority", "tokenMint", "funder"})
            @@ Known({"systemProgram"}))

deleteTokenBadgeIx(p) ==
    Ix("deleteTokenBadge", <<>>,
        ofExtension(p)
            @@ Same(p, {"tokenBadgeAuthority", "tokenMint", "tokenBadge", "receiver"}))

----------------------------------------------------------------------------
\* WhirlpoolIx: the class through which a client reaches the builders, by name.
WhirlpoolIxV2(method, p) ==
    CASE method = "openBundledPositionIx" -> openBundledPositionIx(p)
      [] method = "closeBundledPositionIx" -> closeBundledPositionIx(p)
      [] method = "collectFeesV2Ix" -> collectFeesV2Ix(p)
      [] method = "collectProtocolFeesV2Ix" -> collectProtocolFeesV2Ix(p)
      [] method = "collectRewardV2Ix" -> collectRewardV2Ix(p)
      [] method = "decreaseLiquidityV2Ix" -> decreaseLiquidityV2Ix(p)
      [] method = "increaseLiquidityV2Ix" -> increaseLiquidityV2Ix(p)
      [] method = "initializePoolV2Ix" -> initializePoolV2Ix(p)
      [] method = "initializeRewardV2Ix" -> initializeRewardV2Ix(p)
      [] method = "setRewardEmissionsV2Ix" -> setRewardEmissionsV2Ix(p)
      [] method = "swapV2Ix" -> swapV2Ix(p)
      [] method = "twoHopSwapV2Ix" -> twoHopSwapV2Ix(p)
      [] method = "initializeConfigExtensionIx" -> initializeConfigExtensionIx(p)
      [] method = "setConfigExtensionAuthorityIx" -> setConfigExtensionAuthorityIx(p)
      [] method = "setTokenBadgeAuthorityIx" -> setTokenBadgeAuthorityIx(p)
      [] method = "initializeTokenBadgeIx" -> initializeTokenBadgeIx(p)
      [] method = "deleteTokenBadgeIx" -> deleteTokenBadgeIx(p)

WhirlpoolIxRates(method, p) ==
    CASE method = "setFeeRateIx" -> setFeeRateIx(p)
      [] method = "setProtocolFeeRateIx" -> setProtocolFeeRateIx(p)
      [] method = "setRewardAuthorityBySuperAuthorityIx" -> setRewardAuthorityBySuperAuthorityIx(p)
      [] method = "setRewardAuthorityIx" -> setRewardAuthorityIx(p)
      [] method = "setRewardEmissionsIx" -> setRewardEmissionsIx(p)
      [] method = "setRewardEmissionsSuperAuthorityIx" -> setRewardEmissionsSuperAuthorityIx(p)
      [] method = "initializePositionBundleIx" -> initializePositionBundleIx(p)
      [] method = "initializePositionBundleWithMetadataIx" -> initializePositionBundleWithMetadataIx(p)
      [] method = "deletePositionBundleIx" -> deletePositionBundleIx(p)
      [] OTHER -> WhirlpoolIxV2(method, p)

WhirlpoolIxSwaps(method, p) ==
    CASE method = "swapIx" -> swapIx(p)
      [] method = "twoHopSwapIx" -> twoHopSwapIx(p)
      [] method = "updateFeesAndRewardsIx" -> updateFeesAndRewardsIx(p)
      [] method = "collectFeesIx" -> collectFeesIx(p)
      [] method = "collectProtocolFeesIx" -> collectProtocolFeesIx(p)
      [] method = "collectRewardIx" -> collectRewardIx(p)
      [] method = "setCollectProtocolFeesAuthorityIx" -> setCollectProtocolFeesAuthorityIx(p)
      [] method = "setDefaultFeeRateIx" -> setDefaultFeeRateIx(p)
      [] method = "setDefaultProtocolFeeRateIx" -> setDefaultProtocolFeeRateIx(p)
      [] method = "setFeeAuthorityIx" -> setFeeAuthorityIx(p)
      [] OTHER -> WhirlpoolIxRates(method, p)

WhirlpoolIx(method, p) ==
    CASE method = "initializeConfigIx" -> initializeConfigIx(p)
      [] method = "initializeFeeTierIx" -> initializeFeeTierIx(p)
      [] method = "initializePoolIx" -> initializePoolIx(p)
      [] method = "initializeRewardIx" -> initializeRewardIx(p)
      [] method = "initTickArrayIx" -> initTickArrayIx(p)
      [] method = "openPositionIx" -> openPositionIx(p)
      [] method = "openPositionWithMetadataIx" -> openPositionWithMetadataIx(p)
      [] method = "increaseLiquidityIx" -> increaseLiquidityIx(p)
      [] method = "decreaseLiquidityIx" -> decreaseLiquidityIx(p)
      [] method = "closePositionIx" -> closePositionIx(p)
      [] OTHER -> WhirlpoolIxSwaps(method, p)

=============================================================================
