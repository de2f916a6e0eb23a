--------------------------- MODULE ProgramAccounts ---------------------------
(***************************************************************************)
(* What the program asks of the accounts of an instruction before its      *)
(* handler runs: the constraints of the Accounts structs and the authority *)
(* over a position or a bundle, for every instruction of the interface.    *)
(*                                                                         *)
(* A world w says what accounts there are: configs, fee_tiers, extensions, *)
(* pools, tick_arrays, positions and bundles by address, the tokens held   *)
(* in token accounts, and of every mint its token program and whether it   *)
(* has a transfer hook.                                                    *)
(***************************************************************************)
EXTENDS SdkInstructions

\* The reward slots of a pool are numbered from zero in the code.
Reward(w, pool, i) == w.pools[pool].rewards[i + 1]

HoldsMint(w, account, mint) == account \in DOMAIN w.tokens /\ w.tokens[account].mint = mint

\* The first version only reads accounts of the first token program.
Legacy(w, account) ==
    account \in DOMAIN w.tokens /\ w.programs[w.tokens[account].mint] = "tokenProgram"

\* The second is given the mint and the program that owns it.
MintAndProgram(w, given, mint, program) ==
    given = mint /\ program = <<"known", w.programs[mint]>>

\* A token of which the account holds the only one, and the holder's signature.  What a
\* delegate may sign for is in PositionBundle; here nobody is one.
HeldBy(w, account, mint, authority) ==
    /\ HoldsMint(w, account, mint)
    /\ w.tokens[account].amount = 1
    /\ w.tokens[account].owner = authority

----------------------------------------------------------------------------
\* What a transfer with a hook needs: the slices are of kinds that the instruction
\* reads, none twice, and that of a mint with a hook holds the accounts the hook names.
Slices(ix, kinds) ==
    /\ \A k \in DOMAIN ix.remaining : ix.remaining[k].kind \in kinds
    /\ \A j, k \in DOMAIN ix.remaining :
          ix.remaining[j].kind = ix.remaining[k].kind => j = k

ExtraAccounts(mint, source, destination, authority) ==
    <<<<"hook", mint, source, destination, authority>>>>

Transfers(w, ix, kind, mint, source, destination, authority) ==
    w.hooks[mint] =>
        \E k \in DOMAIN ix.remaining :
            /\ ix.remaining[k].kind = kind
            /\ ix.remaining[k].accounts = ExtraAccounts(mint, source, destination, authority)

----------------------------------------------------------------------------
\* The two tokens of a pool: the vaults are its own and the owner's accounts hold the mints.
TokensOfPool(w, pool, ownerA, ownerB, vaultA, vaultB) ==
    /\ pool \in DOMAIN w.pools
    /\ HoldsMint(w, ownerA, w.pools[pool].mintA) /\ HoldsMint(w, ownerB, w.pools[pool].mintB)
    /\ vaultA = w.pools[pool].vaultA /\ vaultB = w.pools[pool].vaultB

OwnerAndVaults(w, a) ==
    TokensOfPool(w, a.pool, a.tokenOwnerAccountA, a.tokenOwnerAccountB,
                 a.tokenVaultA, a.tokenVaultB)

AllLegacy(w, accounts) == \A account \in accounts : Legacy(w, account)

MintsOfPool(w, a) ==
    /\ MintAndProgram(w, a.tokenMintA, w.pools[a.pool].mintA, a.tokenProgramA)
    /\ MintAndProgram(w, a.tokenMintB, w.pools[a.pool].mintB, a.tokenProgramB)

PositionOfPool(w, a) ==
    a.position \in DOMAIN w.positions /\ w.positions[a.position].pool = a.pool

HeldPosition(w, a) ==
    /\ PositionOfPool(w, a)
    /\ HeldBy(w, a.positionTokenAccount, w.positions[a.position].position_mint,
              a.positionAuthority)

TickArraysOfPool(w, arrays, pool) ==
    \A array \in arrays : array \in DOMAIN w.tick_arrays /\ w.tick_arrays[array] = pool

ModifyLiquidity(w, a) ==
    /\ OwnerAndVaults(w, a) /\ HeldPosition(w, a)
    /\ TickArraysOfPool(w, {a.tickArrayLower, a.tickArrayUpper}, a.pool)

\* From the owner to the pool, or back with the pool as authority.
TransfersOfPool(w, ix, authorityA, intoA, authorityB, intoB) ==
    LET a == ix.accounts
        One(kind, mint, owner, vault, authority, into) ==
            Transfers(w, ix, kind, mint, IF into THEN owner ELSE vault,
                      IF into THEN vault ELSE owner, authority)
    IN  /\ Slices(ix, {"TransferHookA", "TransferHookB"})
        /\ One("TransferHookA", a.tokenMintA, a.tokenOwnerAccountA, a.tokenVaultA, authorityA, intoA)
        /\ One("TransferHookB", a.tokenMintB, a.tokenOwnerAccountB, a.tokenVaultB, authorityB, intoB)

LegacyPair(w, a) ==
    AllLegacy(w, {a.tokenOwnerAccountA, a.tokenOwnerAccountB, a.tokenVaultA, a.tokenVaultB})

LiquidityAccounts(w, ix) ==
    LET a == ix.accounts
    IN  CASE ix.name \in {"increaseLiquidity", "decreaseLiquidity"} ->
                ModifyLiquidity(w, a) /\ LegacyPair(w, a)
          [] ix.name = "increaseLiquidityV2" ->
                /\ ModifyLiquidity(w, a) /\ MintsOfPool(w, a)
                /\ TransfersOfPool(w, ix, a.positionAuthority, TRUE, a.positionAuthority, TRUE)
          [] ix.name = "decreaseLiquidityV2" ->
                /\ ModifyLiquidity(w, a) /\ MintsOfPool(w, a)
                /\ TransfersOfPool(w, ix, a.pool, FALSE, a.pool, FALSE)

UpdateFeesAndRewardsAccounts(w, ix) ==
    /\ PositionOfPool(w, ix.accounts)
    /\ TickArraysOfPool(w, {ix.accounts.tickArrayLower, ix.accounts.tickArrayUpper}, ix.accounts.pool)

CollectFeesAccounts(w, ix) ==
    LET a == ix.accounts
    IN  /\ OwnerAndVaults(w, a) /\ HeldPosition(w, a)
        /\ IF ix.name = "collectFees" THEN LegacyPair(w, a)
           ELSE MintsOfPool(w, a) /\ TransfersOfPool(w, ix, a.pool, FALSE, a.pool, FALSE)

CollectRewardAccounts(w, ix) ==
    LET a == ix.accounts
        reward == Reward(w, a.pool, ix.args[1])
    IN  /\ HeldPosition(w, a)
        /\ HoldsMint(w, a.rewardOwnerAccount, reward.mint) /\ a.rewardVault = reward.vault
        /\ IF ix.name = "collectReward" THEN AllLegacy(w, {a.rewardOwnerAccount, a.rewardVault})
           ELSE /\ MintAndProgram(w, a.rewardMint, reward.mint, a.rewardTokenProgram)
                /\ Slices(ix, {"TransferHookReward"})
                /\ Transfers(w, ix, "TransferHookReward", reward.mint, a.rewardVault,
                             a.rewardOwnerAccount, a.pool)

CollectProtocolFeesAccounts(w, ix) ==
    LET a == ix.accounts
        b == a @@ ("tokenOwnerAccountA" :> a.tokenDestinationA)
               @@ ("tokenOwnerAccountB" :> a.tokenDestinationB)
    IN  /\ OwnerAndVaults(w, b)
        /\ w.pools[a.pool].config = a.poolsConfig
        /\ a.collectProtocolFeesAuthority = w.configs[a.poolsConfig].collect_protocol_fees_authority
        /\ IF ix.name = "collectProtocolFees" THEN LegacyPair(w, b)
           ELSE /\ MintsOfPool(w, a)
                /\ TransfersOfPool(w, [ix EXCEPT !.accounts = b], a.pool, FALSE, a.pool, FALSE)

ClosePositionAccounts(w, ix) ==
    LET a == ix.accounts
    IN  /\ a.position \in DOMAIN w.positions /\ a.position = <<"position", a.positionMint>>
        /\ a.positionMint = w.positions[a.position].position_mint
        /\ HeldBy(w, a.positionTokenAccount, a.positionMint, a.positionAuthority)

OpenPositionAccounts(w, ix) ==
    LET a == ix.accounts
    IN  /\ a.pool \in DOMAIN w.pools
        /\ a.position = <<"position", a.positionMint>>
        /\ a.positionTokenAccount = <<"ata", a.owner, a.positionMint>>
        /\ ix.name = "openPositionWithMetadata" =>
              a.positionMetadataAccount = <<"metadata", a.positionMint>>

----------------------------------------------------------------------------
SwapAccounts(w, ix) ==
    LET a == ix.accounts
        aToB == ix.args[5]
        from(into) == IF into THEN a.tokenAuthority ELSE a.pool
    IN  /\ OwnerAndVaults(w, a)
        /\ TickArraysOfPool(w, {a.tickArray0, a.tickArray1, a.tickArray2}, a.pool)
        /\ IF ix.name = "swap" THEN LegacyPair(w, a)
           ELSE /\ MintsOfPool(w, a)
                /\ TransfersOfPool(w, ix, from(aToB), aToB, from(~aToB), ~aToB)

TwoHopSwapAccounts(w, ix) ==
    LET a == ix.accounts
        arrays(k) == IF k = 1 THEN {a.tickArrayOne0, a.tickArrayOne1, a.tickArrayOne2}
                     ELSE {a.tickArrayTwo0, a.tickArrayTwo1, a.tickArrayTwo2}
    IN  /\ TokensOfPool(w, a.poolOne, a.tokenOwnerAccountOneA, a.tokenOwnerAccountOneB,
                        a.tokenVaultOneA, a.tokenVaultOneB)
        /\ TokensOfPool(w, a.poolTwo, a.tokenOwnerAccountTwoA, a.tokenOwnerAccountTwoB,
                        a.tokenVaultTwoA, a.tokenVaultTwoB)
        /\ TickArraysOfPool(w, arrays(1), a.poolOne) /\ TickArraysOfPool(w, arrays(2), a.poolTwo)
        /\ AllLegacy(w, {a.tokenVaultOneA, a.tokenVaultOneB, a.tokenVaultTwoA, a.tokenVaultTwoB})

TwoHopSwapV2Accounts(w, ix) ==
    LET a == ix.accounts
        one == w.pools[a.poolOne]
        two == w.pools[a.poolTwo]
        side(pool, isA) == IF isA THEN <<pool.mintA, pool.vaultA>> ELSE <<pool.mintB, pool.vaultB>>
        input == side(one, ix.args[4])
        middle == side(one, ~ix.args[4])
        middleTwo == side(two, ix.args[5])
        output == side(two, ~ix.args[5])
    IN  /\ {a.poolOne, a.poolTwo} \subseteq DOMAIN w.pools
        /\ MintAndProgram(w, a.tokenMintInput, input[1], a.tokenProgramInput)
        /\ MintAndProgram(w, a.tokenMintIntermediate, middle[1], a.tokenProgramIntermediate)
        /\ MintAndProgram(w, a.tokenMintOutput, output[1], a.tokenProgramOutput)
        /\ HoldsMint(w, a.tokenOwnerAccountInput, input[1])
        /\ HoldsMint(w, a.tokenOwnerAccountOutput, output[1])
        /\ <<a.tokenVaultOneInput, a.tokenVaultOneIntermediate,
             a.tokenVaultTwoIntermediate, a.tokenVaultTwoOutput>>
              = <<input[2], middle[2], middleTwo[2], output[2]>>
        /\ TickArraysOfPool(w, {a.tickArrayOne0, a.tickArrayOne1, a.tickArrayOne2}, a.poolOne)
        /\ TickArraysOfPool(w, {a.tickArrayTwo0, a.tickArrayTwo1, a.tickArrayTwo2}, a.poolTwo)
        /\ Slices(ix, {"TransferHookInput", "TransferHookIntermediate", "TransferHookOutput"})
        /\ Transfers(w, ix, "TransferHookInput", input[1], a.tokenOwnerAccountInput,
                     input[2], a.tokenAuthority)
        /\ Transfers(w, ix, "TransferHookIntermediate", middle[1], middle[2], middleTwo[2], a.poolOne)
        /\ Transfers(w, ix, "TransferHookOutput", output[1], output[2],
                     a.tokenOwnerAccountOutput, a.poolTwo)

----------------------------------------------------------------------------
InitializeConfigAccounts(w, ix) == ix.accounts.config \notin DOMAIN w.configs

FeeTierAccounts(w, ix) ==
    LET a == ix.accounts
    IN  /\ a.config \in DOMAIN w.configs
        /\ a.feeTier = <<"fee_tier", a.config, ix.args[1]>>
        /\ a.feeAuthority = w.configs[a.config].fee_authority

\* The pool and its vaults are at the addresses their seeds give, the fee tier is of the
\* config and of the tick spacing.
NewPool(w, a, tickSpacing) ==
    /\ a.poolsConfig \in DOMAIN w.configs
    /\ a.pool = <<"pool", a.poolsConfig, a.tokenMintA, a.tokenMintB, tickSpacing>>
    /\ a.tokenVaultA = <<"pool_vault", a.pool, a.tokenMintA>>
    /\ a.tokenVaultB = <<"pool_vault", a.pool, a.tokenMintB>>
    /\ a.feeTier \in DOMAIN w.fee_tiers
    /\ w.fee_tiers[a.feeTier] = [config |-> a.poolsConfig, tick_spacing |-> tickSpacing]

InitializePoolAccounts(w, ix) ==
    LET a == ix.accounts
    IN  IF ix.name = "initializePool"
        THEN /\ NewPool(w, a, ix.args[2])
             /\ \A mint \in {a.tokenMintA, a.tokenMintB} : w.programs[mint] = "tokenProgram"
        ELSE /\ NewPool(w, a, ix.args[1])
             /\ a.tokenBadgeA = <<"token_badge", a.poolsConfig, a.tokenMintA>>
             /\ a.tokenBadgeB = <<"token_badge", a.poolsConfig, a.tokenMintB>>
             /\ MintAndProgram(w, a.tokenMintA, a.tokenMintA, a.tokenProgramA)
             /\ MintAndProgram(w, a.tokenMintB, a.tokenMintB, a.tokenProgramB)

TickArrayAccounts(w, ix) ==
    LET a == ix.accounts
    IN  a.pool \in DOMAIN w.pools /\ a.tickArray = <<"tick_array", a.pool, ix.args[1]>>

\* Setters of a config, of its fee tiers and of its pools: what is changed belongs to the
\* config, and the signer is the config's authority for it.
AuthorityOf(w, config, name) ==
    CASE name = "feeAuthority" -> w.configs[config].fee_authority
      [] name = "collectProtocolFeesAuthority" -> w.configs[config].collect_protocol_fees_authority
      [] name = "rewardEmissionsSuperAuthority" -> w.configs[config].reward_emissions_super_authority

ConfigSetterAccounts(w, ix) ==
    LET a == ix.accounts
    IN  /\ a.poolsConfig \in DOMAIN w.configs
        /\ \A name \in DOMAIN a \cap {"feeAuthority", "collectProtocolFeesAuthority",
                                      "rewardEmissionsSuperAuthority"} :
              a[name] = AuthorityOf(w, a.poolsConfig, name)
        /\ "feeTier" \in DOMAIN a => w.fee_tiers[a.feeTier].config = a.poolsConfig
        /\ "pool" \in DOMAIN a => w.pools[a.pool].config = a.poolsConfig

RewardSlotAccounts(w, ix) ==
    LET a == ix.accounts
    IN  /\ a.pool \in DOMAIN w.pools
        /\ a.rewardAuthority = Reward(w, a.pool, ix.args[1]).authority
        /\ ix.name = "initializeReward" => w.programs[a.rewardMint] = "tokenProgram"
        /\ ix.name = "initializeRewardV2" =>
              /\ a.rewardTokenBadge = <<"token_badge", w.pools[a.pool].config, a.rewardMint>>
              /\ MintAndProgram(w, a.rewardMint, a.rewardMint, a.rewardTokenProgram)
        /\ ix.name \in {"setRewardEmissions", "setRewardEmissionsV2"} =>
              a.rewardVault = Reward(w, a.pool, ix.args[1]).vault

----------------------------------------------------------------------------
InitializeBundleAccounts(w, ix) ==
    LET a == ix.accounts
    IN  /\ a.positionBundle = <<"position_bundle", a.positionBundleMint>>
        /\ a.positionBundleTokenAccount = <<"ata", a.positionBundleOwner, a.positionBundleMint>>
        /\ ix.name = "initializePositionBundleWithMetadata" =>
              a.positionBundleMetadata = <<"metadata", a.positionBundleMint>>

BundleAccounts(w, ix) ==
    LET a == ix.accounts
        bundle == w.bundles[a.positionBundle]
    IN  /\ a.positionBundle \in DOMAIN w.bundles
        /\ HeldBy(w, a.positionBundleTokenAccount, bundle,
                  IF ix.name = "deletePositionBundle" THEN a.positionBundleOwner
                  ELSE a.positionBundleAuthority)
        /\ IF ix.name = "deletePositionBundle" THEN a.positionBundleMint = bundle
           ELSE a.bundledPosition = <<"bundled_position", bundle, ix.args[1]>>
        /\ ix.name = "openBundledPosition" => a.pool \in DOMAIN w.pools
        /\ ix.name = "closeBundledPosition" =>
              w.positions[a.bundledPosition].position_mint = bundle

----------------------------------------------------------------------------
InitializeExtensionAccounts(w, ix) ==
    LET a == ix.accounts
    IN  /\ a.config \in DOMAIN w.configs
        /\ a.configExtension = <<"config_extension", a.config>>
        /\ a.feeAuthority = w.configs[a.config].fee_authority

ExtensionAccounts(w, ix) ==
    LET a == ix.accounts
        extension == w.extensions[a.poolsConfigExtension]
    IN  /\ a.poolsConfigExtension \in DOMAIN w.extensions
        /\ extension.config = a.poolsConfig
        /\ IF "tokenBadge" \in DOMAIN a
           THEN /\ a.tokenBadgeAuthority = extension.token_badge_authority
                /\ a.tokenBadge = <<"token_badge", a.poolsConfig, a.tokenMint>>
           ELSE a.configExtensionAuthority = extension.config_extension_authority

----------------------------------------------------------------------------
\* The accounts are those of the interface, none undefined, and the struct's
\* constraints hold of them.
AccountsAccepted(w, ix) ==
    CASE ix.name \in {"increaseLiquidity", "increaseLiquidityV2",
                      "decreaseLiquidity", "decreaseLiquidityV2"} -> LiquidityAccounts(w, ix)
      [] ix.name = "updateFeesAndRewards" -> UpdateFeesAndRewardsAccounts(w, ix)
      [] ix.name \in {"collectFees", "collectFeesV2"} -> CollectFeesAccounts(w, ix)
      [] ix.name \in {"collectReward", "collectRewardV2"} -> CollectRewardAccounts(w, ix)
      [] ix.name \in {"collectProtocolFees", "collectProtocolFeesV2"} ->
            CollectProtocolFeesAccounts(w, ix)
      [] ix.name = "closePosition" -> ClosePositionAccounts(w, ix)
      [] ix.name \in {"openPosition", "openPositionWithMetadata"} -> OpenPositionAccounts(w, ix)
      [] ix.name \in {"swap", "swapV2"} -> SwapAccounts(w, ix)
      [] ix.name = "twoHopSwap" -> TwoHopSwapAccounts(w, ix)
      [] ix.name = "twoHopSwapV2" -> TwoHopSwapV2Accounts(w, ix)
      [] ix.name = "initializeConfig" -> InitializeConfigAccounts(w, ix)
      [] ix.name = "initializeFeeTier" -> FeeTierAccounts(w, ix)
      [] ix.name \in {"initializePool", "initializePoolV2"} -> InitializePoolAccounts(w, ix)
      [] ix.name = "initializeTickArray" -> TickArrayAccounts(w, ix)
      [] ix.name \in {"setDefaultFeeRate", "setDefaultProtocolFeeRate", "setFeeRate",
                      "setProtocolFeeRate", "setFeeAuthority",
                      "setCollectProtocolFeesAuthority", "setRewardEmissionsSuperAuthority",
                      "setRewardAuthorityBySuperAuthority"} -> ConfigSetterAccounts(w, ix)
      [] ix.name \in {"initializeReward", "initializeRewardV2", "setRewardEmissions",
                      "setRewardEmissionsV2", "setRewardAuthority"} -> RewardSlotAccounts(w, ix)
      [] ix.name \in {"initializePositionBundle", "initializePositionBundleWithMetadata"} ->
            InitializeBundleAccounts(w, ix)
      [] ix.name \in {"openBundledPosition", "closeBundledPosition", "deletePositionBundle"} ->
            BundleAccounts(w, ix)
      [] ix.name = "initializeConfigExtension" -> InitializeExtensionAccounts(w, ix)
      [] OTHER -> ExtensionAccounts(w, ix)

=============================================================================
