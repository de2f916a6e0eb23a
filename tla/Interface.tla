------------------------------ MODULE Interface ------------------------------
(***************************************************************************)
(* The interface of the program as the SDK sees it                         *)
(* (artifacts/whirlpool.ts): the accounts each instruction takes by name,  *)
(* those of them that must sign, and its arguments in their order.         *)
(***************************************************************************)
EXTENDS Sequences

Takes(accounts, signers, args) ==
    [accounts |-> accounts \cup signers, signers |-> signers, args |-> args]

\* Groups of accounts that many instructions take.
Owned == {"tokenOwnerAccountA", "tokenOwnerAccountB"}
Vaults == {"tokenVaultA", "tokenVaultB"}
Mints == {"tokenMintA", "tokenMintB"}
TokenPrograms == {"tokenProgramA", "tokenProgramB"}
V2 == Mints \cup TokenPrograms \cup {"memoProgram"}
Held == {"position", "positionTokenAccount"}
Bounds == {"tickArrayLower", "tickArrayUpper"}
Path == {"tickArray0", "tickArray1", "tickArray2"}
Paths == {"tickArrayOne0", "tickArrayOne1", "tickArrayOne2",
          "tickArrayTwo0", "tickArrayTwo1", "tickArrayTwo2"}
Created == {"systemProgram", "rent"}
NewToken == Created \cup {"tokenProgram", "associatedTokenProgram"}
Metadata == {"metadataProgram", "metadataUpdateAuth"}
BundleToken == {"positionBundle", "positionBundleTokenAccount"}

----------------------------------------------------------------------------
\* Configurations, fee tiers and pools.
initializeConfig == Takes({"systemProgram"}, {"config", "funder"},
    <<"feeAuthority", "collectProtocolFeesAuthority", "rewardEmissionsSuperAuthority",
      "defaultProtocolFeeRate">>)

initializeFeeTier == Takes({"config", "feeTier", "systemProgram"},
    {"funder", "feeAuthority"}, <<"tickSpacing", "defaultFeeRate">>)

initializePool == Takes(
    {"poolsConfig", "pool", "feeTier", "tokenProgram"} \cup Mints \cup Vaults \cup Created,
    {"funder"}, <<"bumps", "tickSpacing", "initialSqrtPrice">>)

initializeTokensPool == Takes(
    {"poolsConfig", "pool", "tokenProgram"} \cup Mints \cup Vaults \cup Created,
    {"funder"}, <<"bumps", "tickSpacing">>)

initializePoolV2 == Takes(
    {"poolsConfig", "pool", "feeTier", "tokenBadgeA", "tokenBadgeB"}
        \cup Mints \cup Vaults \cup TokenPrograms \cup Created,
    {"funder"}, <<"tickSpacing", "initialSqrtPrice">>)

initializeTickArray == Takes({"pool", "tickArray", "systemProgram"}, {"funder"},
    <<"startTickIndex">>)

setDefaultFeeRate == Takes({"poolsConfig", "feeTier"}, {"feeAuthority"},
    <<"defaultFeeRate">>)

setDefaultProtocolFeeRate == Takes({"poolsConfig"}, {"feeAuthority"},
    <<"defaultProtocolFeeRate">>)

setFeeRate == Takes({"poolsConfig", "pool"}, {"feeAuthority"}, <<"feeRate">>)

setProtocolFeeRate == Takes({"poolsConfig", "pool"}, {"feeAuthority"},
    <<"protocolFeeRate">>)

setFeeAuthority == Takes({"poolsConfig", "newFeeAuthority"}, {"feeAuthority"}, <<>>)

setCollectProtocolFeesAuthority ==
    Takes({"poolsConfig", "newCollectProtocolFeesAuthority"},
          {"collectProtocolFeesAuthority"}, <<>>)

setRewardEmissionsSuperAuthority ==
    Takes({"poolsConfig", "newRewardEmissionsSuperAuthority"},
          {"rewardEmissionsSuperAuthority"}, <<>>)

----------------------------------------------------------------------------
\* Rewards.
initializeReward == Takes({"pool", "rewardMint", "tokenProgram"} \cup Created,
    {"rewardAuthority", "funder", "rewardVault"}, <<"rewardIndex">>)

initializeRewardV2 == Takes(
    {"pool", "rewardMint", "rewardTokenBadge", "rewardTokenProgram"} \cup Created,
    {"rewardAuthority", "funder", "rewardVault"}, <<"rewardIndex">>)

setRewardEmissions == Takes({"pool", "rewardVault"}, {"rewardAuthority"},
    <<"rewardIndex", "emissionsPerSecondX64">>)

setRewardEmissionsV2 == Takes({"pool", "rewardVault"}, {"rewardAuthority"},
    <<"rewardIndex", "emissionsPerSecondX64">>)

setRewardAuthority == Takes({"pool", "newRewardAuthority"}, {"rewardAuthority"},
    <<"rewardIndex">>)

setRewardAuthorityBySuperAuthority ==
    Takes({"poolsConfig", "pool", "newRewardAuthority"},
          {"rewardEmissionsSuperAuthority"}, <<"rewardIndex">>)

----------------------------------------------------------------------------
\* Positions.
openPosition == Takes(
    {"owner", "position", "positionTokenAccount", "pool"} \cup NewToken,
    {"funder", "positionMint"}, <<"bumps", "tickLowerIndex", "tickUpperIndex">>)

openPositionWithMetadata == Takes(
    {"owner", "position", "positionMetadataAccount", "positionTokenAccount", "pool"}
        \cup NewToken \cup Metadata,
    {"funder", "positionMint"}, <<"bumps", "tickLowerIndex", "tickUpperIndex">>)

increaseLiquidity == Takes({"pool", "tokenProgram"} \cup Held \cup Owned \cup Vaults \cup Bounds,
    {"positionAuthority"}, <<"liquidityAmount", "tokenMaxA", "tokenMaxB">>)

increaseLiquidityV2 == Takes({"pool"} \cup V2 \cup Held \cup Owned \cup Vaults \cup Bounds,
    {"positionAuthority"},
    <<"liquidityAmount", "tokenMaxA", "tokenMaxB", "remainingAccountsInfo">>)

decreaseLiquidity == Takes({"pool", "tokenProgram"} \cup Held \cup Owned \cup Vaults \cup Bounds,
    {"positionAuthority"}, <<"liquidityAmount", "tokenMinA", "tokenMinB">>)

decreaseLiquidityV2 == Takes({"pool"} \cup V2 \cup Held \cup Owned \cup Vaults \cup Bounds,
    {"positionAuthority"},
    <<"liquidityAmount", "tokenMinA", "tokenMinB", "remainingAccountsInfo">>)

updateFeesAndRewards == Takes({"pool", "position"} \cup Bounds, {}, <<>>)

collectFees == Takes({"pool", "tokenProgram"} \cup Held \cup Owned \cup Vaults,
    {"positionAuthority"}, <<>>)

collectFeesV2 == Takes({"pool"} \cup V2 \cup Held \cup Owned \cup Vaults,
    {"positionAuthority"}, <<"remainingAccountsInfo">>)

collectReward == Takes(
    {"pool", "rewardOwnerAccount", "rewardVault", "tokenProgram"} \cup Held,
    {"positionAuthority"}, <<"rewardIndex">>)

collectRewardV2 == Takes(
    {"pool", "rewardOwnerAccount", "rewardMint", "rewardVault", "rewardTokenProgram",
     "memoProgram"} \cup Held,
    {"positionAuthority"}, <<"rewardIndex", "remainingAccountsInfo">>)

collectProtocolFees == Takes(
    {"poolsConfig", "pool", "tokenDestinationA", "tokenDestinationB", "tokenProgram"} \cup Vaults,
    {"collectProtocolFeesAuthority"}, <<>>)

collectProtocolFeesV2 == Takes(
    {"poolsConfig", "pool", "tokenDestinationA", "tokenDestinationB"} \cup V2 \cup Vaults,
    {"collectProtocolFeesAuthority"}, <<"remainingAccountsInfo">>)

closePosition == Takes({"receiver", "positionMint", "tokenProgram"} \cup Held,
    {"positionAuthority"}, <<>>)

----------------------------------------------------------------------------
\* Swaps.
swap == Takes({"pool", "tokenProgram"} \cup Owned \cup Vaults \cup Path, {"tokenAuthority"},
    <<"amount", "otherAmountThreshold", "sqrtPriceLimit", "amountSpecifiedIsInput", "aToB">>)

swapV2 == Takes({"pool"} \cup V2 \cup Owned \cup Vaults \cup Path, {"tokenAuthority"},
    <<"amount", "otherAmountThreshold", "sqrtPriceLimit", "amountSpecifiedIsInput", "aToB",
      "remainingAccountsInfo">>)

twoHopSwap == Takes(
    {"poolOne", "poolTwo", "tokenProgram",
     "tokenOwnerAccountOneA", "tokenOwnerAccountOneB", "tokenVaultOneA", "tokenVaultOneB",
     "tokenOwnerAccountTwoA", "tokenOwnerAccountTwoB", "tokenVaultTwoA", "tokenVaultTwoB"}
        \cup Paths,
    {"tokenAuthority"},
    <<"amount", "otherAmountThreshold", "amountSpecifiedIsInput", "aToBOne", "aToBTwo",
      "sqrtPriceLimitOne", "sqrtPriceLimitTwo">>)

twoHopSwapV2 == Takes(
    {"poolOne", "poolTwo", "memoProgram",
     "tokenMintInput", "tokenMintIntermediate", "tokenMintOutput",
     "tokenProgramInput", "tokenProgramIntermediate", "tokenProgramOutput",
     "tokenOwnerAccountInput", "tokenVaultOneInput", "tokenVaultOneIntermediate",
     "tokenVaultTwoIntermediate", "tokenVaultTwoOutput", "tokenOwnerAccountOutput"}
        \cup Paths,
    {"tokenAuthority"},
    <<"amount", "otherAmountThreshold", "amountSpecifiedIsInput", "aToBOne", "aToBTwo",
      "sqrtPriceLimitOne", "sqrtPriceLimitTwo", "remainingAccountsInfo">>)

----------------------------------------------------------------------------
\* Position bundles.
initializePositionBundle == Takes(BundleToken \cup NewToken \cup {"positionBundleOwner"},
    {"positionBundleMint", "funder"}, <<>>)

initializePositionBundleWithMetadata == Takes(
    BundleToken \cup NewToken \cup Metadata \cup {"positionBundleOwner", "positionBundleMetadata"},
    {"positionBundleMint", "funder"}, <<>>)

deletePositionBundle == Takes(
    BundleToken \cup {"positionBundleMint", "receiver", "tokenProgram"},
    {"positionBundleOwner"}, <<>>)

openBundledPosition == Takes(BundleToken \cup Created \cup {"bundledPosition", "pool"},
    {"positionBundleAuthority", "funder"},
    <<"bundleIndex", "tickLowerIndex", "tickUpperIndex">>)

closeBundledPosition == Takes(BundleToken \cup {"bundledPosition", "receiver"},
    {"positionBundleAuthority"}, <<"bundleIndex">>)

----------------------------------------------------------------------------
\* Config extensions and token badges.
initializeConfigExtension == Takes({"config", "configExtension", "systemProgram"},
    {"funder", "feeAuthority"}, <<>>)

setConfigExtensionAuthority ==
    Takes({"poolsConfig", "poolsConfigExtension", "newConfigExtensionAuthority"},
          {"configExtensionAuthority"}, <<>>)

setTokenBadgeAuthority ==
    Takes({"poolsConfig", "poolsConfigExtension", "newTokenBadgeAuthority"},
          {"configExtensionAuthority"}, <<>>)

initializeTokenBadge == Takes(
    {"poolsConfig", "poolsConfigExtension", "tokenMint", "tokenBadge", "systemProgram"},
    {"tokenBadgeAuthority", "funder"}, <<>>)

deleteTokenBadge == Takes(
    {"poolsConfig", "poolsConfigExtension", "tokenMint", "tokenBadge", "receiver"},
    {"tokenBadgeAuthority"}, <<>>)

=============================================================================
