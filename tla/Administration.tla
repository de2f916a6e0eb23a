--------------------------- MODULE Administration ---------------------------
(***************************************************************************)
(* Who governs the pools: the configs with their three authorities, the    *)
(* fee tiers, the config extensions with two authorities more, the token   *)
(* badges, the rates and the reward slots of every pool, and the creation  *)
(* of pools and of their vaults.  What is inside a pool besides (prices,   *)
(* liquidity, amounts) is ClmmPool's: here a pool keeps its two rates, its *)
(* reward slots, and whether it owes protocol fees.                        *)
(*                                                                         *)
(* An instruction is atomic, so each is one action, enabled where its      *)
(* account constraints hold and its handler returns Ok.  `signer' is the   *)
(* authority whose signature the last instruction asked for, None when it  *)
(* asked for nobody's in particular.  Accounts at derived addresses (fee   *)
(* tiers, extensions, badges, pools, vaults) are named by their seeds.     *)
(***************************************************************************)
EXTENDS Integers

CONSTANTS
    Configs,                \* addresses of PoolsConfig accounts
    Keys,                   \* authorities
    Mints,                  \* mints, ordered as their addresses are
    MintInfo,               \* what is written in each mint, and which program owns it
    TickSpacings,
    TierKeys, PoolKeys,     \* the seeds of the fee tiers and pools that may be created
    FeeRates,               \* arguments of the instructions that set rates,
    ProtocolFeeRates,       \*   valid or not
    MAX_FEE_RATE,
    MAX_PROTOCOL_FEE_RATE,
    NUM_REWARDS,            \* 3 in the code
    ExtendedConfigs,        \* a bound: the configs for which an extension is asked for
    None                    \* Pubkey::default(), an account that does not exist, no signer

----------------------------------------------------------------------------
BadgeExtensions ==
    {"PermanentDelegate", "TransferHook", "MintCloseAuthority", "DefaultAccountState"}
PlainExtensions ==
    {"TransferFeeConfig", "TokenMetadata", "MetadataPointer",
     "ConfidentialTransferMint", "ConfidentialTransferFeeConfig"}
Extensions == BadgeExtensions \cup PlainExtensions \cup {"NonTransferable", "Other"}

Slots == 0 .. NUM_REWARDS - 1
TierOf(pk) == [pools_config |-> pk.pools_config, tick_spacing |-> pk.tick_spacing]
MintsOf(pk) == {pk.token_mint_a, pk.token_mint_b}

PoolsConfig ==
    [fee_authority : Keys, collect_protocol_fees_authority : Keys,
     reward_emissions_super_authority : Keys,
     default_protocol_fee_rate : 0 .. MAX_PROTOCOL_FEE_RATE]
PoolsConfigExtension == [config_extension_authority : Keys, token_badge_authority : Keys]
PoolRewardInfo == [authority : Keys, mint : Mints \cup {None}, emitting : BOOLEAN]
Pool ==
    [fee_rate : 0 .. MAX_FEE_RATE, protocol_fee_rate : 0 .. MAX_PROTOCOL_FEE_RATE,
     fees_owed : BOOLEAN, reward_infos : [Slots -> PoolRewardInfo]]

ASSUME AdminAssumption ==
    /\ Mints \subseteq Nat
    /\ MintInfo \in [Mints -> [program : {"Token", "Token2022"}, native : BOOLEAN,
                               freeze_authority : BOOLEAN, frozen_by_default : BOOLEAN,
                               extensions : SUBSET Extensions]]
    /\ TierKeys \subseteq [pools_config : Configs, tick_spacing : TickSpacings]
    /\ PoolKeys \subseteq [pools_config : Configs, token_mint_a : Mints,
                           token_mint_b : Mints, tick_spacing : TickSpacings]
    /\ \A pk \in PoolKeys : TierOf(pk) \in TierKeys
    /\ ExtendedConfigs \subseteq Configs
    /\ FeeRates \subseteq Nat /\ ProtocolFeeRates \subseteq Nat
    /\ MAX_FEE_RATE \in Nat /\ MAX_PROTOCOL_FEE_RATE \in Nat
    /\ NUM_REWARDS \in Nat \ {0}
    /\ None \notin Keys /\ None \notin Mints /\ None \notin Nat
    /\ None \notin PoolsConfig /\ None \notin PoolsConfigExtension /\ None \notin Pool

VARIABLES
    config,         \* [Configs -> PoolsConfig, or None]
    fee_tier,       \* [TierKeys -> default_fee_rate, or None]
    extension,      \* [Configs -> PoolsConfigExtension, or None]
    token_badge,    \* the badges, <<config, mint>>
    pool,           \* [PoolKeys -> Pool, or None]
    vaults,         \* the pools whose two vaults exist
    signer

vars == <<config, fee_tier, extension, token_badge, pool, vaults, signer>>

----------------------------------------------------------------------------
(* Guards.                                                                 *)

\* Account constraint has_one = pools_config, of an account that names `c'.
HasOneUnchecked(named, c) == TRUE                   \* a faulty variant
HasOne(named, c) == named = c

IsFeeAuthority(c, k) == config[c] # None /\ config[c].fee_authority = k

IsSuperAuthority(c, k) ==
    config[c] # None /\ config[c].reward_emissions_super_authority = k

IsExtensionAuthority(e, k) ==
    extension[e] # None /\ extension[e].config_extension_authority = k

IsBadgeAuthority(e, k) == extension[e] # None /\ extension[e].token_badge_authority = k

\* address = pool.reward_infos[reward_index].authority: an index beyond the
\* array is an error as well.
IsRewardAuthority(pk, i, k) ==
    pool[pk] # None /\ i < NUM_REWARDS /\ pool[pk].reward_infos[i].authority = k

WithinFeeCapOffByOne(rate) == rate <= MAX_FEE_RATE + 1      \* a faulty variant
WithinFeeCap(rate) == rate <= MAX_FEE_RATE

WithinProtocolFeeCap(rate) == rate <= MAX_PROTOCOL_FEE_RATE

OrderedUnchecked(pk) == TRUE                        \* a faulty variant
Ordered(pk) == pk.token_mint_a < pk.token_mint_b

\* Any badge of the mint will do: a faulty variant.
IsBadgeInitializedAnywhere(c, m) == \E d \in Configs : <<d, m>> \in token_badge
IsTokenBadgeInitialized(c, m) == <<c, m>> \in token_badge

IsSupportedTokenMint(m, badged) ==
    LET info == MintInfo[m]
    IN  \/ info.program = "Token"
        \/ /\ ~info.native
           /\ info.freeze_authority => badged
           /\ info.extensions \subseteq
                  PlainExtensions \cup (IF badged THEN BadgeExtensions ELSE {})
           /\ "DefaultAccountState" \in info.extensions => ~info.frozen_by_default

IsSupported(c, m) == IsSupportedTokenMint(m, IsTokenBadgeInitialized(c, m))

Uninitialized(infos) == {i \in Slots : infos[i].mint = None}
IsUninitialized(infos, index) == infos[index].mint = None   \* a faulty IsLowest
IsLowest(infos, index) ==
    index \in Uninitialized(infos) /\ \A i \in Uninitialized(infos) : index <= i

----------------------------------------------------------------------------
(* Configs and fee tiers.                                                  *)

InitializeConfig(c, fee, collect, super, rate) ==
    /\ config[c] = None
    /\ WithinProtocolFeeCap(rate)
    /\ config' = [config EXCEPT ![c] =
           [fee_authority |-> fee, collect_protocol_fees_authority |-> collect,
            reward_emissions_super_authority |-> super, default_protocol_fee_rate |-> rate]]
    /\ signer' = None
    /\ UNCHANGED <<fee_tier, extension, token_badge, pool, vaults>>

SetFeeAuthority(c, k, new) ==
    /\ IsFeeAuthority(c, k)
    /\ config' = [config EXCEPT ![c].fee_authority = new]
    /\ signer' = k
    /\ UNCHANGED <<fee_tier, extension, token_badge, pool, vaults>>

SetCollectProtocolFeesAuthority(c, k, new) ==
    /\ config[c] # None
    /\ config[c].collect_protocol_fees_authority = k
    /\ config' = [config EXCEPT ![c].collect_protocol_fees_authority = new]
    /\ signer' = k
    /\ UNCHANGED <<fee_tier, extension, token_badge, pool, vaults>>

SetRewardEmissionsSuperAuthority(c, k, new) ==
    /\ IsSuperAuthority(c, k)
    /\ config' = [config EXCEPT ![c].reward_emissions_super_authority = new]
    /\ signer' = k
    /\ UNCHANGED <<fee_tier, extension, token_badge, pool, vaults>>

SetDefaultProtocolFeeRate(c, k, rate) ==
    /\ IsFeeAuthority(c, k)
    /\ WithinProtocolFeeCap(rate)
    /\ config' = [config EXCEPT ![c].default_protocol_fee_rate = rate]
    /\ signer' = k
    /\ UNCHANGED <<fee_tier, extension, token_badge, pool, vaults>>

InitializeFeeTier(t, k, rate) ==
    /\ fee_tier[t] = None
    /\ IsFeeAuthority(t.pools_config, k)
    /\ WithinFeeCap(rate)
    /\ fee_tier' = [fee_tier EXCEPT ![t] = rate]
    /\ signer' = k
    /\ UNCHANGED <<config, extension, token_badge, pool, vaults>>

SetDefaultFeeRate(c, t, k, rate) ==
    /\ fee_tier[t] # None
    /\ HasOne(t.pools_config, c)
    /\ IsFeeAuthority(c, k)
    /\ WithinFeeCap(rate)
    /\ fee_tier' = [fee_tier EXCEPT ![t] = rate]
    /\ signer' = k
    /\ UNCHANGED <<config, extension, token_badge, pool, vaults>>

----------------------------------------------------------------------------
(* Config extensions and token badges.                                     *)

\* A faulty variant: the account is taken as it is (init_if_needed).
ReinitializeConfigExtension(c, k) ==
    /\ IsFeeAuthority(c, k)
    /\ extension' = [extension EXCEPT ![c] =
           [config_extension_authority |-> k, token_badge_authority |-> k]]
    /\ signer' = k
    /\ UNCHANGED <<config, fee_tier, token_badge, pool, vaults>>

InitializeConfigExtension(c, k) ==
    /\ extension[c] = None
    /\ IsFeeAuthority(c, k)
    /\ extension' = [extension EXCEPT ![c] =
           [config_extension_authority |-> k, token_badge_authority |-> k]]
    /\ signer' = k
    /\ UNCHANGED <<config, fee_tier, token_badge, pool, vaults>>

SetConfigExtensionAuthority(c, e, k, new) ==
    /\ HasOne(e, c)
    /\ IsExtensionAuthority(e, k)
    /\ extension' = [extension EXCEPT ![e].config_extension_authority = new]
    /\ signer' = k
    /\ UNCHANGED <<config, fee_tier, token_badge, pool, vaults>>

SetTokenBadgeAuthority(c, e, k, new) ==
    /\ HasOne(e, c)
    /\ IsExtensionAuthority(e, k)
    /\ extension' = [extension EXCEPT ![e].token_badge_authority = new]
    /\ signer' = k
    /\ UNCHANGED <<config, fee_tier, token_badge, pool, vaults>>

\* The seeds of a badge are the config's, not the extension's.
InitializeTokenBadge(c, e, k, m) ==
    /\ HasOne(e, c)
    /\ IsBadgeAuthority(e, k)
    /\ <<c, m>> \notin token_badge
    /\ token_badge' = token_badge \cup {<<c, m>>}
    /\ signer' = k
    /\ UNCHANGED <<config, fee_tier, extension, pool, vaults>>

DeleteTokenBadge(c, e, k, m) ==
    /\ HasOne(e, c)
    /\ IsBadgeAuthority(e, k)
    /\ <<c, m>> \in token_badge
    /\ token_badge' = token_badge \ {<<c, m>>}
    /\ signer' = k
    /\ UNCHANGED <<config, fee_tier, extension, pool, vaults>>

----------------------------------------------------------------------------
(* Pools.                                                                  *)

\* initialize_pool takes mints of the Token program only, initialize_pool_v2
\* any that is supported; anyone may call either.  The vaults are not created,
\* and need not exist.
InitializePool(pk) ==
    LET c == pk.pools_config
    IN  /\ pool[pk] = None
        /\ config[c] # None
        /\ fee_tier[TierOf(pk)] # None
        /\ \A m \in MintsOf(pk) : IsSupported(c, m)
        /\ Ordered(pk)
        /\ WithinFeeCap(fee_tier[TierOf(pk)])
        /\ WithinProtocolFeeCap(config[c].default_protocol_fee_rate)
        /\ pool' = [pool EXCEPT ![pk] =
               [fee_rate |-> fee_tier[TierOf(pk)],
                protocol_fee_rate |-> config[c].default_protocol_fee_rate,
                fees_owed |-> FALSE,
                reward_infos |-> [i \in Slots |->
                    [authority |-> config[c].reward_emissions_super_authority,
                     mint |-> None, emitting |-> FALSE]]]]
        /\ signer' = None
        /\ UNCHANGED <<config, fee_tier, extension, token_badge, vaults>>

\* initialize_tokens_pool: the mints are accounts of the Token program.  The
\* pool's address is all that is asked of the pool, the config's is not even read.
InitializePoolTokens(pk) ==
    /\ pk \notin vaults
    /\ \A m \in MintsOf(pk) : MintInfo[m].program = "Token"
    /\ pk.token_mint_a # pk.token_mint_b
    /\ vaults' = vaults \cup {pk}
    /\ signer' = None
    /\ UNCHANGED <<config, fee_tier, extension, token_badge, pool>>

SetFeeRate(c, pk, k, rate) ==
    /\ pool[pk] # None
    /\ HasOne(pk.pools_config, c)
    /\ IsFeeAuthority(c, k)
    /\ WithinFeeCap(rate)
    /\ pool' = [pool EXCEPT ![pk].fee_rate = rate]
    /\ signer' = k
    /\ UNCHANGED <<config, fee_tier, extension, token_badge, vaults>>

SetProtocolFeeRate(c, pk, k, rate) ==
    /\ pool[pk] # None
    /\ HasOne(pk.pools_config, c)
    /\ IsFeeAuthority(c, k)
    /\ WithinProtocolFeeCap(rate)
    /\ pool' = [pool EXCEPT ![pk].protocol_fee_rate = rate]
    /\ signer' = k
    /\ UNCHANGED <<config, fee_tier, extension, token_badge, vaults>>

\* A swap takes the protocol's share of its fees, whoever makes it.
Swap(pk) ==
    /\ pool[pk] # None
    /\ pk \in vaults
    /\ pool[pk].protocol_fee_rate > 0
    /\ pool' = [pool EXCEPT ![pk].fees_owed = TRUE]
    /\ signer' = None
    /\ UNCHANGED <<config, fee_tier, extension, token_badge, vaults>>

CollectProtocolFees(c, pk, k) ==
    /\ pool[pk] # None
    /\ pk \in vaults
    /\ HasOne(pk.pools_config, c)
    /\ config[c] # None
    /\ config[c].collect_protocol_fees_authority = k
    /\ pool' = [pool EXCEPT ![pk].fees_owed = FALSE]
    /\ signer' = k
    /\ UNCHANGED <<config, fee_tier, extension, token_badge, vaults>>

----------------------------------------------------------------------------
(* Reward slots.                                                           *)

\* initialize_reward takes mints of the Token program, the v2 one any supported.
InitializeReward(pk, i, k, m) ==
    /\ IsRewardAuthority(pk, i, k)
    /\ IsSupported(pk.pools_config, m)
    /\ IsLowest(pool[pk].reward_infos, i)
    /\ pool' = [pool EXCEPT ![pk].reward_infos[i].mint = m]
    /\ signer' = k
    /\ UNCHANGED <<config, fee_tier, extension, token_badge, vaults>>

\* The slot's vault has to be a token account, which that of a slot not yet
\* initialized is not; what it must hold for a day of emissions is ClmmPool's.
SetRewardEmissions(pk, i, k, emitting) ==
    /\ IsRewardAuthority(pk, i, k)
    /\ pool[pk].reward_infos[i].mint # None
    /\ pool' = [pool EXCEPT ![pk].reward_infos[i].emitting = emitting]
    /\ signer' = k
    /\ UNCHANGED <<config, fee_tier, extension, token_badge, vaults>>

SetRewardAuthority(pk, i, k, new) ==
    /\ IsRewardAuthority(pk, i, k)
    /\ pool' = [pool EXCEPT ![pk].reward_infos[i].authority = new]
    /\ signer' = k
    /\ UNCHANGED <<config, fee_tier, extension, token_badge, vaults>>

SetRewardAuthorityBySuperAuthority(c, pk, i, k, new) ==
    /\ pool[pk] # None
    /\ HasOne(pk.pools_config, c)
    /\ IsSuperAuthority(c, k)
    /\ i < NUM_REWARDS
    /\ pool' = [pool EXCEPT ![pk].reward_infos[i].authority = new]
    /\ signer' = k
    /\ UNCHANGED <<config, fee_tier, extension, token_badge, vaults>>

----------------------------------------------------------------------------
Init ==
    /\ config = [c \in Configs |-> None]
    /\ fee_tier = [t \in TierKeys |-> None]
    /\ extension = [c \in Configs |-> None]
    /\ token_badge = {}
    /\ pool = [pk \in PoolKeys |-> None]
    /\ vaults = {}
    /\ signer = None

ConfigStep(c, k) ==
    \/ \E collect, super \in Keys, rate \in ProtocolFeeRates :
          InitializeConfig(c, k, collect, super, rate)
    \/ \E new \in Keys :
          \/ SetFeeAuthority(c, k, new)
          \/ SetCollectProtocolFeesAuthority(c, k, new)
          \/ SetRewardEmissionsSuperAuthority(c, k, new)
    \/ \E rate \in ProtocolFeeRates : SetDefaultProtocolFeeRate(c, k, rate)
    \/ \E t \in TierKeys, rate \in FeeRates :
          InitializeFeeTier(t, k, rate) \/ SetDefaultFeeRate(c, t, k, rate)

ExtensionStep(c, k) ==
    \/ InitializeConfigExtension(c, k)
    \/ \E e \in Configs, new \in Keys :
          SetConfigExtensionAuthority(c, e, k, new) \/ SetTokenBadgeAuthority(c, e, k, new)
    \/ \E e \in Configs, m \in Mints :
          InitializeTokenBadge(c, e, k, m) \/ DeleteTokenBadge(c, e, k, m)

PoolStep(c, pk, k) ==
    \/ \E rate \in FeeRates : SetFeeRate(c, pk, k, rate)
    \/ \E rate \in ProtocolFeeRates : SetProtocolFeeRate(c, pk, k, rate)
    \/ CollectProtocolFees(c, pk, k)
    \/ \E i \in 0 .. NUM_REWARDS, new \in Keys :
          SetRewardAuthorityBySuperAuthority(c, pk, i, k, new)

RewardStep(pk, k) ==
    \E i \in 0 .. NUM_REWARDS :
        \/ \E m \in Mints : InitializeReward(pk, i, k, m)
        \/ \E emitting \in BOOLEAN : SetRewardEmissions(pk, i, k, emitting)
        \/ \E new \in Keys : SetRewardAuthority(pk, i, k, new)

Next ==
    \/ \E c \in Configs, k \in Keys :
          ConfigStep(c, k) \/ \E pk \in PoolKeys : PoolStep(c, pk, k)
    \/ \E c \in ExtendedConfigs, k \in Keys : ExtensionStep(c, k)
    \/ \E pk \in PoolKeys :
          \/ InitializePool(pk)
          \/ InitializePoolTokens(pk)
          \/ Swap(pk)
          \/ \E k \in Keys : RewardStep(pk, k)

Spec == Init /\ [][Next]_vars

\* Whoever creates pools also creates their vaults, when that can be done.
FairSpec == Spec /\ \A pk \in PoolKeys : WF_vars(InitializePoolTokens(pk))

----------------------------------------------------------------------------
(* Offices: the abstract view of who holds what.                           *)

ConfigOffices == {"fee", "collect", "super", "extension", "badge"}
Office == (ConfigOffices \X Configs \X {0}) \cup ({"reward"} \X PoolKeys \X Slots)

Holder(o) ==
    LET at == o[2]
    IN  CASE o[1] = "fee" ->
               IF config[at] = None THEN None ELSE config[at].fee_authority
          [] o[1] = "collect" ->
               IF config[at] = None THEN None ELSE config[at].collect_protocol_fees_authority
          [] o[1] = "super" ->
               IF config[at] = None THEN None ELSE config[at].reward_emissions_super_authority
          [] o[1] = "extension" ->
               IF extension[at] = None THEN None ELSE extension[at].config_extension_authority
          [] o[1] = "badge" ->
               IF extension[at] = None THEN None ELSE extension[at].token_badge_authority
          [] o[1] = "reward" ->
               IF pool[at] = None THEN None ELSE pool[at].reward_infos[o[3]].authority

\* An extension starts with the fee authority, a reward slot with the super authority.
First(o) ==
    CASE o[1] \in {"extension", "badge"} -> <<"fee", o[2], 0>>
      [] o[1] = "reward" -> <<"super", o[2].pools_config, 0>>
      [] OTHER -> o

Appointers(o) ==
    CASE o[1] = "badge" -> {<<"extension", o[2], 0>>}
      [] o[1] = "reward" -> {o, <<"super", o[2].pools_config, 0>>}
      [] OTHER -> {o}

Offices == INSTANCE Delegation WITH
    Key <- Keys, Nobody <- None, holder <- [o \in Office |-> Holder(o)]

----------------------------------------------------------------------------
(* Properties.                                                             *)

\* Every account has its type; in particular every rate in force, whether a
\* default or a pool's and however it came about, is within its cap
\* (update_fee_rate, update_protocol_fee_rate and their callers).
TypeOK ==
    /\ config \in [Configs -> PoolsConfig \cup {None}]
    /\ fee_tier \in [TierKeys -> (0 .. MAX_FEE_RATE) \cup {None}]
    /\ extension \in [Configs -> PoolsConfigExtension \cup {None}]
    /\ token_badge \subseteq Configs \X Mints
    /\ pool \in [PoolKeys -> Pool \cup {None}]
    /\ vaults \subseteq PoolKeys
    /\ signer \in Keys \cup {None}

\* An extension, a fee tier and a pool belong to a config that exists, and a
\* badge to one that has an extension (the accounts their instructions read).
Rooted ==
    /\ \A c \in Configs : extension[c] # None => config[c] # None
    /\ \A t \in TierKeys : fee_tier[t] # None => config[t.pools_config] # None
    /\ \A b \in token_badge : extension[b[1]] # None
    /\ \A pk \in PoolKeys : pool[pk] # None => config[pk.pools_config] # None

\* The slots that were taken come first, and only they emit.
InOrder(infos) ==
    \A i \in Slots :
        infos[i].mint = None =>
            /\ ~infos[i].emitting
            /\ \A j \in Slots : j > i => infos[j].mint = None

\* Reward slots are taken in order, whoever their authorities are meanwhile, and only
\* a slot that was taken emits (Pool::initialize_reward, set_reward_emissions).
RewardsInOrder == \A pk \in PoolKeys : pool[pk] # None => InOrder(pool[pk].reward_infos)

\* The tokens a pool touches: its own and those of its rewards.
TokensOf(pk) == MintsOf(pk) \cup ({pool[pk].reward_infos[i].mint : i \in Slots} \ {None})

\* No pool ever touches a token that can never be supported, and one that
\* needs a badge only where the config's own extension exists to issue them,
\* even after the badge is deleted (is_supported_token_mint, token_badge seeds).
MintsWereVetted ==
    \A pk \in PoolKeys :
        pool[pk] # None =>
            \A m \in TokensOf(pk) :
                /\ IsSupportedTokenMint(m, TRUE)
                /\ extension[pk.pools_config] = None => IsSupportedTokenMint(m, FALSE)

\* Two tokens have one pool per config and spacing, whichever is called a
\* (Pool::initialize: the mints are ordered).
OnePoolPerPair ==
    \A p, q \in PoolKeys :
        /\ pool[p] # None /\ pool[q] # None
        /\ TierOf(p) = TierOf(q) /\ MintsOf(p) = MintsOf(q)
        => p = q

\* The authority over a config's rates, over what its pools owe, and over its
\* badges signs the step.
FeeSigned(c) == config[c] # None /\ signer' = config[c].fee_authority
CollectSigned(c) == config[c] # None /\ signer' = config[c].collect_protocol_fees_authority
BadgeSigned(c) == extension[c] # None /\ signer' = extension[c].token_badge_authority

ConfigChange(c) ==
    config[c] # None =>
        /\ config'[c] # None
        /\ \/ config'[c].default_protocol_fee_rate = config[c].default_protocol_fee_rate
           \/ FeeSigned(c)

PoolChange(pk) ==
    LET c == pk.pools_config
        old == pool[pk]
        new == pool'[pk]
    IN  pool[pk] # None =>
            /\ new # None
            /\ new.fee_rate = old.fee_rate \/ FeeSigned(c)
            /\ new.protocol_fee_rate = old.protocol_fee_rate \/ FeeSigned(c)
            /\ (old.fees_owed => new.fees_owed) \/ CollectSigned(c)
            /\ \A i \in Slots :
                  \/ signer' = old.reward_infos[i].authority
                  \/ /\ new.reward_infos[i].mint = old.reward_infos[i].mint
                     /\ new.reward_infos[i].emitting = old.reward_infos[i].emitting

SignedChange ==
    /\ \A c \in Configs : ConfigChange(c)
    /\ \A t \in TierKeys : fee_tier'[t] = fee_tier[t] \/ FeeSigned(t.pools_config)
    /\ \A b \in Configs \X Mints :
          (b \in token_badge' <=> b \in token_badge) \/ BadgeSigned(b[1])
    /\ \A pk \in PoolKeys : PoolChange(pk)

\* What exists is changed, or a badge issued or withdrawn, only by the signature
\* of the authority in force over it, of the very config or slot it belongs to;
\* configs and pools are never removed (the address and has_one constraints).
ChangesAreSigned == [][SignedChange]_vars

\* Every one of the authorities is handed on as Delegation says: by its holder,
\* except that the badge authority is the extension authority's to appoint, and
\* that of a reward slot the super authority's as well.
ImplementsDelegation == Offices!Spec

\* What the tests of initialize_pool_v2 say of a pool: its vaults are there
\* (granted that somebody creates them where it is possible).
VaultsFollow == \A pk \in PoolKeys : (pool[pk] # None) ~> (pk \in vaults)

=============================================================================
