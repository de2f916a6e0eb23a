------------------------ MODULE AdministrationProofs ------------------------
(***************************************************************************)
(* The invariants of Administration, for any number of configs, keys,      *)
(* mints, pools and reward slots, and that authority is handed on as       *)
(* Delegation says.                                                        *)
(***************************************************************************)
EXTENDS SupportedTokens, TLAPS

----------------------------------------------------------------------------
(* Type correctness.                                                       *)

\* What the proofs need of the constants' assumption.
LEMMA Constants ==
    /\ FeeRates \subseteq Nat /\ ProtocolFeeRates \subseteq Nat
    /\ MAX_FEE_RATE \in Nat /\ MAX_PROTOCOL_FEE_RATE \in Nat
    /\ NUM_REWARDS \in Nat \ {0}
    /\ None \notin Keys /\ None \notin Mints
    /\ None \notin PoolsConfig /\ None \notin PoolsConfigExtension /\ None \notin Pool
BY AdminAssumption DEF AdminAssumption

\* The instructions on configs and fee tiers keep the types.
LEMMA ConfigStepType ==
    ASSUME TypeOK, NEW c \in Configs, NEW k \in Keys, ConfigStep(c, k)
    PROVE  TypeOK'
<1> USE Constants DEF TypeOK
<1>1. ASSUME NEW collect \in Keys, NEW super \in Keys, NEW rate \in ProtocolFeeRates,
             InitializeConfig(c, k, collect, super, rate)
      PROVE  TypeOK'
  <2> DEFINE new == [fee_authority |-> k, collect_protocol_fees_authority |-> collect,
                     reward_emissions_super_authority |-> super,
                     default_protocol_fee_rate |-> rate]
  <2>1. rate \in 0 .. MAX_PROTOCOL_FEE_RATE
    <3>1. WithinProtocolFeeCap(rate)
      BY <1>1 DEF InitializeConfig
    <3> QED BY <3>1 DEF WithinProtocolFeeCap
  <2>2. new \in PoolsConfig
    BY <2>1 DEF PoolsConfig
  <2> HIDE DEF new
  <2>3. config' \in [Configs -> PoolsConfig \cup {None}]
    BY <1>1, <2>2 DEF InitializeConfig, new
  <2> QED BY <1>1, <2>3 DEF InitializeConfig
<1>2. ASSUME NEW new \in Keys, SetFeeAuthority(c, k, new)
      PROVE  TypeOK'
  BY <1>2 DEF SetFeeAuthority, IsFeeAuthority, PoolsConfig
<1>3. ASSUME NEW new \in Keys, SetCollectProtocolFeesAuthority(c, k, new)
      PROVE  TypeOK'
  BY <1>3 DEF SetCollectProtocolFeesAuthority, PoolsConfig
<1>4. ASSUME NEW new \in Keys, SetRewardEmissionsSuperAuthority(c, k, new)
      PROVE  TypeOK'
  BY <1>4 DEF SetRewardEmissionsSuperAuthority, IsSuperAuthority, PoolsConfig
<1>5. ASSUME NEW rate \in ProtocolFeeRates, SetDefaultProtocolFeeRate(c, k, rate)
      PROVE  TypeOK'
  BY <1>5 DEF SetDefaultProtocolFeeRate, IsFeeAuthority, WithinProtocolFeeCap, PoolsConfig
<1>6. ASSUME NEW t \in TierKeys, NEW rate \in FeeRates, InitializeFeeTier(t, k, rate)
      PROVE  TypeOK'
  BY <1>6 DEF InitializeFeeTier, WithinFeeCap
<1>7. ASSUME NEW t \in TierKeys, NEW rate \in FeeRates, SetDefaultFeeRate(c, t, k, rate)
      PROVE  TypeOK'
  BY <1>7 DEF SetDefaultFeeRate, WithinFeeCap
<1> QED BY <1>1, <1>2, <1>3, <1>4, <1>5, <1>6, <1>7 DEF ConfigStep

\* So do those on extensions and badges.
LEMMA ExtensionStepType ==
    ASSUME TypeOK, NEW c \in Configs, NEW k \in Keys, ExtensionStep(c, k)
    PROVE  TypeOK'
<1> USE Constants DEF TypeOK
<1>1. CASE InitializeConfigExtension(c, k)
  BY <1>1 DEF InitializeConfigExtension, PoolsConfigExtension
<1>2. ASSUME NEW e \in Configs, NEW new \in Keys,
             SetConfigExtensionAuthority(c, e, k, new) \/ SetTokenBadgeAuthority(c, e, k, new)
      PROVE  TypeOK'
  BY <1>2 DEF SetConfigExtensionAuthority, SetTokenBadgeAuthority, IsExtensionAuthority,
              PoolsConfigExtension
<1>3. ASSUME NEW e \in Configs, NEW m \in Mints,
             InitializeTokenBadge(c, e, k, m) \/ DeleteTokenBadge(c, e, k, m)
      PROVE  TypeOK'
  BY <1>3 DEF InitializeTokenBadge, DeleteTokenBadge
<1> QED BY <1>1, <1>2, <1>3 DEF ExtensionStep

\* Pool pk becomes p, and nothing else changes.
Becomes(pk, p) ==
    /\ pool[pk] \in Pool
    /\ p \in Pool
    /\ pool' = [pool EXCEPT ![pk] = p]
    /\ UNCHANGED <<config, fee_tier, extension, token_badge, vaults>>

\* The slots are taken, and emit, as before.
SameRewards(infos, others) ==
    \A i \in Slots : infos[i].mint = others[i].mint /\ infos[i].emitting = others[i].emitting

\* What becomes of a pool is a pool.
LEMMA BecomesType ==
    ASSUME TypeOK, NEW pk \in PoolKeys, NEW p, Becomes(pk, p), signer' \in Keys \cup {None}
    PROVE  TypeOK'
BY DEF TypeOK, Becomes

\* A change of one reward slot of a pool.
LEMMA SlotChangeType ==
    ASSUME NEW p \in Pool, NEW i \in Slots, NEW info \in PoolRewardInfo
    PROVE  [p EXCEPT !.reward_infos = [@ EXCEPT ![i] = info]] \in Pool
BY DEF Pool

\* The instructions by which a config governs a pool leave its rewards in place.
LEMMA PoolStepEffect ==
    ASSUME TypeOK, NEW c \in Configs, NEW pk \in PoolKeys, NEW k \in Keys, PoolStep(c, pk, k)
    PROVE  /\ signer' = k
           /\ \E p \in Pool : Becomes(pk, p) /\ SameRewards(p.reward_infos, pool[pk].reward_infos)
<1> USE Constants
<1> DEFINE old == pool[pk]
<1>0. old # None => old \in Pool
  BY DEF TypeOK
<1>1. ASSUME NEW rate \in FeeRates, SetFeeRate(c, pk, k, rate)
      PROVE  \E p \in Pool : Becomes(pk, p) /\ SameRewards(p.reward_infos, old.reward_infos)
  <2> DEFINE new == [old EXCEPT !.fee_rate = rate]
  <2>1. rate \in 0 .. MAX_FEE_RATE
    BY <1>1 DEF SetFeeRate, WithinFeeCap
  <2>2. old \in Pool /\ new \in Pool /\ SameRewards(new.reward_infos, old.reward_infos)
    BY <1>0, <1>1, <2>1 DEF SetFeeRate, Pool, SameRewards
  <2>3. pool' = [pool EXCEPT ![pk] = new]
    BY <1>1 DEF SetFeeRate
  <2> HIDE DEF new
  <2> QED BY <1>1, <2>2, <2>3 DEF SetFeeRate, Becomes
<1>2. ASSUME NEW rate \in ProtocolFeeRates, SetProtocolFeeRate(c, pk, k, rate)
      PROVE  \E p \in Pool : Becomes(pk, p) /\ SameRewards(p.reward_infos, old.reward_infos)
  <2> DEFINE new == [old EXCEPT !.protocol_fee_rate = rate]
  <2>1. rate \in 0 .. MAX_PROTOCOL_FEE_RATE
    BY <1>2 DEF SetProtocolFeeRate, WithinProtocolFeeCap
  <2>2. old \in Pool /\ new \in Pool /\ SameRewards(new.reward_infos, old.reward_infos)
    BY <1>0, <1>2, <2>1 DEF SetProtocolFeeRate, Pool, SameRewards
  <2>3. pool' = [pool EXCEPT ![pk] = new]
    BY <1>2 DEF SetProtocolFeeRate
  <2> HIDE DEF new
  <2> QED BY <1>2, <2>2, <2>3 DEF SetProtocolFeeRate, Becomes
<1>3. ASSUME CollectProtocolFees(c, pk, k)
      PROVE  \E p \in Pool : Becomes(pk, p) /\ SameRewards(p.reward_infos, old.reward_infos)
  <2> DEFINE new == [old EXCEPT !.fees_owed = FALSE]
  <2>1. old \in Pool /\ new \in Pool /\ SameRewards(new.reward_infos, old.reward_infos)
    BY <1>0, <1>3 DEF CollectProtocolFees, Pool, SameRewards
  <2>2. pool' = [pool EXCEPT ![pk] = new]
    BY <1>3 DEF CollectProtocolFees
  <2> HIDE DEF new
  <2> QED BY <1>3, <2>1, <2>2 DEF CollectProtocolFees, Becomes
<1>4. ASSUME NEW i \in 0 .. NUM_REWARDS, NEW authority \in Keys,
             SetRewardAuthorityBySuperAuthority(c, pk, i, k, authority)
      PROVE  \E p \in Pool : Becomes(pk, p) /\ SameRewards(p.reward_infos, old.reward_infos)
  <2> DEFINE info == [old.reward_infos[i] EXCEPT !.authority = authority]
             new == [old EXCEPT !.reward_infos = [@ EXCEPT ![i] = info]]
  <2>1. i \in Slots /\ old \in Pool
    BY <1>0, <1>4 DEF SetRewardAuthorityBySuperAuthority, Slots
  <2>2. /\ info \in PoolRewardInfo
        /\ info.mint = old.reward_infos[i].mint
        /\ info.emitting = old.reward_infos[i].emitting
    BY <2>1 DEF Pool, PoolRewardInfo
  <2>3. new \in Pool
    BY <2>1, <2>2, SlotChangeType
  <2>4. SameRewards(new.reward_infos, old.reward_infos)
    <3> HIDE DEF info
    <3> QED BY <2>1, <2>2 DEF Pool, SameRewards
  <2>5. pool' = [pool EXCEPT ![pk] = new]
    BY <1>4 DEF SetRewardAuthorityBySuperAuthority
  <2> HIDE DEF new
  <2> QED BY <1>4, <2>1, <2>3, <2>4, <2>5 DEF SetRewardAuthorityBySuperAuthority, Becomes
<1>5. signer' = k
  BY DEF PoolStep, SetFeeRate, SetProtocolFeeRate, CollectProtocolFees,
         SetRewardAuthorityBySuperAuthority
<1> QED BY <1>1, <1>2, <1>3, <1>4, <1>5 DEF PoolStep

\* The three things that happen to a reward slot: it is taken, its emissions
\* change, or its authority does.
Taken(pk, i, m, info) ==
    /\ IsSupported(pk.pools_config, m)
    /\ IsLowest(pool[pk].reward_infos, i)
    /\ info = [pool[pk].reward_infos[i] EXCEPT !.mint = m]
Emits(pk, i, emitting, info) ==
    /\ pool[pk].reward_infos[i].mint # None
    /\ info = [pool[pk].reward_infos[i] EXCEPT !.emitting = emitting]
Passed(pk, i, k, info) == info = [pool[pk].reward_infos[i] EXCEPT !.authority = k]

\* The instructions on a pool's rewards change one slot, signed by its authority.
LEMMA RewardStepEffect ==
    ASSUME TypeOK, NEW pk \in PoolKeys, NEW k \in Keys, RewardStep(pk, k)
    PROVE  /\ signer' = k
           /\ \E i \in Slots, info \in PoolRewardInfo :
                 /\ pool[pk].reward_infos[i].authority = k
                 /\ Becomes(pk, [pool[pk] EXCEPT !.reward_infos = [@ EXCEPT ![i] = info]])
                 /\ \/ \E m \in Mints : Taken(pk, i, m, info)
                    \/ \E emitting \in BOOLEAN : Emits(pk, i, emitting, info)
                    \/ \E key \in Keys : Passed(pk, i, key, info)
<1> PICK i \in 0 .. NUM_REWARDS :
       \/ \E m \in Mints : InitializeReward(pk, i, k, m)
       \/ \E emitting \in BOOLEAN : SetRewardEmissions(pk, i, k, emitting)
       \/ \E new \in Keys : SetRewardAuthority(pk, i, k, new)
  BY DEF RewardStep
<1> DEFINE old == pool[pk]
           info == old.reward_infos[i]
           Changed(new) == [old EXCEPT !.reward_infos = [@ EXCEPT ![i] = new]]
<1>0. IsRewardAuthority(pk, i, k) /\ signer' = k
  BY DEF InitializeReward, SetRewardEmissions, SetRewardAuthority
<1>1. i \in Slots /\ old \in Pool /\ info \in PoolRewardInfo /\ info.authority = k
  <2>1. i \in Slots /\ info.authority = k
    BY <1>0, Constants DEF IsRewardAuthority, Slots
  <2>2. old \in Pool
    BY <1>0 DEF IsRewardAuthority, TypeOK
  <2> QED BY <2>1, <2>2 DEF Pool
<1>2. ASSUME NEW new \in PoolRewardInfo, pool' = [pool EXCEPT ![pk] = Changed(new)],
             UNCHANGED <<config, fee_tier, extension, token_badge, vaults>>
      PROVE  Becomes(pk, Changed(new))
  <2>1. Changed(new) \in Pool
    BY <1>1, SlotChangeType
  <2> HIDE DEF Changed
  <2> QED BY <1>1, <1>2, <2>1 DEF Becomes
<1>3. ASSUME NEW m \in Mints, InitializeReward(pk, i, k, m)
      PROVE  LET new == [info EXCEPT !.mint = m]
             IN  new \in PoolRewardInfo /\ Becomes(pk, Changed(new)) /\ Taken(pk, i, m, new)
  <2> DEFINE new == [info EXCEPT !.mint = m]
  <2>1. new \in PoolRewardInfo
    BY <1>1 DEF PoolRewardInfo
  <2>2. pool' = [pool EXCEPT ![pk] = Changed(new)]
    BY <1>3 DEF InitializeReward
  <2>3. Becomes(pk, Changed(new))
    BY <1>2, <1>3, <2>1, <2>2 DEF InitializeReward
  <2>4. Taken(pk, i, m, new)
    BY <1>3 DEF InitializeReward, Taken
  <2> QED BY <2>1, <2>3, <2>4
<1>4. ASSUME NEW emitting \in BOOLEAN, SetRewardEmissions(pk, i, k, emitting)
      PROVE  LET new == [info EXCEPT !.emitting = emitting]
             IN  new \in PoolRewardInfo /\ Becomes(pk, Changed(new)) /\ Emits(pk, i, emitting, new)
  <2> DEFINE new == [info EXCEPT !.emitting = emitting]
  <2>1. new \in PoolRewardInfo
    BY <1>1 DEF PoolRewardInfo
  <2>2. pool' = [pool EXCEPT ![pk] = Changed(new)]
    BY <1>4 DEF SetRewardEmissions
  <2>3. Becomes(pk, Changed(new))
    BY <1>2, <1>4, <2>1, <2>2 DEF SetRewardEmissions
  <2>4. Emits(pk, i, emitting, new)
    BY <1>4 DEF SetRewardEmissions, Emits
  <2> QED BY <2>1, <2>3, <2>4
<1>5. ASSUME NEW key \in Keys, SetRewardAuthority(pk, i, k, key)
      PROVE  LET new == [info EXCEPT !.authority = key]
             IN  new \in PoolRewardInfo /\ Becomes(pk, Changed(new)) /\ Passed(pk, i, key, new)
  <2> DEFINE new == [info EXCEPT !.authority = key]
  <2>1. new \in PoolRewardInfo
    BY <1>1 DEF PoolRewardInfo
  <2>2. pool' = [pool EXCEPT ![pk] = Changed(new)]
    BY <1>5 DEF SetRewardAuthority
  <2>3. Becomes(pk, Changed(new))
    BY <1>2, <1>5, <2>1, <2>2 DEF SetRewardAuthority
  <2> QED BY <2>1, <2>3 DEF Passed
<1> HIDE DEF Changed
<1>6. \E new \in PoolRewardInfo :
         /\ Becomes(pk, Changed(new))
         /\ \/ \E m \in Mints : Taken(pk, i, m, new)
            \/ \E emitting \in BOOLEAN : Emits(pk, i, emitting, new)
            \/ \E key \in Keys : Passed(pk, i, key, new)
  BY <1>3, <1>4, <1>5
<1> QED BY <1>0, <1>1, <1>6 DEF Changed

\* A pool that is created has the rates of its tier and its config, and every
\* reward slot is the super authority's, not yet taken.
LEMMA InitializePoolEffect ==
    ASSUME TypeOK, NEW pk \in PoolKeys, InitializePool(pk)
    PROVE  /\ pool[pk] = None /\ config[pk.pools_config] \in PoolsConfig
           /\ \E p \in Pool :
                 /\ pool' = [pool EXCEPT ![pk] = p]
                 /\ \A i \in Slots : p.reward_infos[i] =
                       [authority |-> config[pk.pools_config].reward_emissions_super_authority,
                        mint |-> None, emitting |-> FALSE]
<1> DEFINE c == pk.pools_config
           infos == [i \in Slots |->
              [authority |-> config[c].reward_emissions_super_authority,
               mint |-> None, emitting |-> FALSE]]
           new == [fee_rate |-> fee_tier[TierOf(pk)],
                   protocol_fee_rate |-> config[c].default_protocol_fee_rate,
                   fees_owed |-> FALSE, reward_infos |-> infos]
<1>1. c \in Configs /\ TierOf(pk) \in TierKeys
  BY AdminAssumption DEF AdminAssumption
<1>2. config[c] \in PoolsConfig
  BY <1>1 DEF InitializePool, TypeOK
<1>3. fee_tier[TierOf(pk)] \in 0 .. MAX_FEE_RATE
  BY <1>1 DEF InitializePool, TypeOK
<1>4. infos \in [Slots -> PoolRewardInfo]
  BY <1>2 DEF PoolsConfig, PoolRewardInfo
<1>5. new \in Pool /\ new.reward_infos = infos
  <2> HIDE DEF infos
  <2> QED BY <1>2, <1>3, <1>4 DEF Pool, PoolsConfig
<1>6. pool' = [pool EXCEPT ![pk] = new] /\ pool[pk] = None
  BY DEF InitializePool
<1> HIDE DEF new
<1> QED BY <1>2, <1>5, <1>6

\* A swap leaves the rewards in place.
LEMMA SwapEffect ==
    ASSUME TypeOK, NEW pk \in PoolKeys, Swap(pk)
    PROVE  \E p \in Pool : Becomes(pk, p) /\ SameRewards(p.reward_infos, pool[pk].reward_infos)
<1> DEFINE new == [pool[pk] EXCEPT !.fees_owed = TRUE]
<1>1. /\ pool[pk] \in Pool
      /\ new \in Pool
      /\ SameRewards(new.reward_infos, pool[pk].reward_infos)
  BY DEF Swap, Pool, TypeOK, SameRewards
<1>2. pool' = [pool EXCEPT ![pk] = new]
  BY DEF Swap
<1> HIDE DEF new
<1> QED BY <1>1, <1>2 DEF Swap, Becomes

\* The steps of Next, by who may take them.
LEMMA Steps ==
    ASSUME Next
    PROVE  \/ \E c \in Configs, k \in Keys : ConfigStep(c, k)
           \/ \E c \in Configs, k \in Keys : ExtensionStep(c, k)
           \/ \E c \in Configs, k \in Keys, pk \in PoolKeys : PoolStep(c, pk, k)
           \/ \E pk \in PoolKeys, k \in Keys : RewardStep(pk, k)
           \/ \E pk \in PoolKeys : InitializePool(pk) \/ InitializePoolTokens(pk) \/ Swap(pk)
BY AdminAssumption DEF AdminAssumption, Next

\* Types are kept by every step.
LEMMA TypeStep == TypeOK /\ [Next]_vars => TypeOK'
<1> SUFFICES ASSUME TypeOK, [Next]_vars
             PROVE  TypeOK'
  OBVIOUS
<1>1. CASE Next
  <2>1. ASSUME NEW c \in Configs, NEW k \in Keys, NEW pk \in PoolKeys, PoolStep(c, pk, k)
        PROVE  TypeOK'
    BY <2>1, PoolStepEffect, BecomesType
  <2>2. ASSUME NEW k \in Keys, NEW pk \in PoolKeys, RewardStep(pk, k)
        PROVE  TypeOK'
    BY <2>2, RewardStepEffect, BecomesType
  <2>3. ASSUME NEW pk \in PoolKeys, InitializePool(pk)
        PROVE  TypeOK'
    BY <2>3, InitializePoolEffect, ZenonT(40) DEF InitializePool, TypeOK
  <2>4. ASSUME NEW pk \in PoolKeys, InitializePoolTokens(pk)
        PROVE  TypeOK'
    BY <2>4 DEF InitializePoolTokens, TypeOK
  <2>5. ASSUME NEW pk \in PoolKeys, Swap(pk)
        PROVE  TypeOK'
    BY <2>5, SwapEffect, BecomesType DEF Swap
  <2> QED BY <1>1, <2>1, <2>2, <2>3, <2>4, <2>5, Steps, ConfigStepType, ExtensionStepType
<1>2. CASE UNCHANGED vars
  BY <1>2 DEF vars, TypeOK
<1> QED BY <1>1, <1>2

\* Types hold initially.
LEMMA TypeInit == Init => TypeOK
BY DEF Init, TypeOK

\* Every account keeps its type, and every rate in force is within its cap.
THEOREM TypeCorrect == Spec => []TypeOK
BY TypeInit, TypeStep, PTL DEF Spec

----------------------------------------------------------------------------
(* What the steps do, as far as the other invariants can tell.             *)

\* A config is never removed, and nothing but configs and tiers changes with it.
LEMMA ConfigStepEffect ==
    ASSUME TypeOK, NEW c \in Configs, NEW k \in Keys, ConfigStep(c, k)
    PROVE  /\ \A d \in Configs : config[d] # None => config'[d] # None
           /\ UNCHANGED <<extension, token_badge, pool, vaults>>
<1>0a. UNCHANGED <<extension, token_badge, pool, vaults>>
  BY DEF ConfigStep, InitializeConfig, SetFeeAuthority, SetCollectProtocolFeesAuthority,
         SetRewardEmissionsSuperAuthority, SetDefaultProtocolFeeRate, InitializeFeeTier,
         SetDefaultFeeRate
<1> SUFFICES ASSUME NEW d \in Configs, config[d] # None
             PROVE  config'[d] # None
  BY <1>0a
<1> USE Constants DEF TypeOK
<1>0. config[d] \in PoolsConfig
  OBVIOUS
<1>1. ASSUME NEW collect \in Keys, NEW super \in Keys, NEW rate \in ProtocolFeeRates,
             InitializeConfig(c, k, collect, super, rate)
      PROVE  config'[d] = config[d]
  BY <1>1 DEF InitializeConfig
<1>2. ASSUME NEW new \in Keys, SetFeeAuthority(c, k, new)
      PROVE  config'[d] \in PoolsConfig
  BY <1>0, <1>2 DEF SetFeeAuthority, IsFeeAuthority, PoolsConfig
<1>3. ASSUME NEW new \in Keys, SetCollectProtocolFeesAuthority(c, k, new)
      PROVE  config'[d] \in PoolsConfig
  BY <1>0, <1>3 DEF SetCollectProtocolFeesAuthority, PoolsConfig
<1>4. ASSUME NEW new \in Keys, SetRewardEmissionsSuperAuthority(c, k, new)
      PROVE  config'[d] \in PoolsConfig
  BY <1>0, <1>4 DEF SetRewardEmissionsSuperAuthority, IsSuperAuthority, PoolsConfig
<1>5. ASSUME NEW rate \in ProtocolFeeRates, SetDefaultProtocolFeeRate(c, k, rate)
      PROVE  config'[d] \in PoolsConfig
  BY <1>0, <1>5 DEF SetDefaultProtocolFeeRate, IsFeeAuthority, WithinProtocolFeeCap, PoolsConfig
<1>6. ASSUME NEW t \in TierKeys, NEW rate \in FeeRates,
             InitializeFeeTier(t, k, rate) \/ SetDefaultFeeRate(c, t, k, rate)
      PROVE  config'[d] = config[d]
  BY <1>6 DEF InitializeFeeTier, SetDefaultFeeRate
<1>7. config'[d] \in PoolsConfig
  BY <1>0, <1>1, <1>2, <1>3, <1>4, <1>5, <1>6 DEF ConfigStep
<1> QED BY <1>7

\* An extension is never removed, is created for a config that exists, and
\* badges are issued only where there is one.
LEMMA ExtensionStepEffect ==
    ASSUME TypeOK, NEW c \in Configs, NEW k \in Keys, ExtensionStep(c, k)
    PROVE  /\ \A d \in Configs : extension[d] # None => extension'[d] # None
           /\ \A d \in Configs :
                 extension'[d] # None => extension[d] # None \/ config[d] # None
           /\ \A b \in token_badge' : b \in token_badge \/ extension[b[1]] # None
           /\ UNCHANGED <<config, fee_tier, pool, vaults>>
<1> USE Constants DEF TypeOK
<1>1. CASE InitializeConfigExtension(c, k)
  BY <1>1 DEF InitializeConfigExtension, IsFeeAuthority, PoolsConfigExtension
<1>2. ASSUME NEW e \in Configs, NEW new \in Keys,
             SetConfigExtensionAuthority(c, e, k, new) \/ SetTokenBadgeAuthority(c, e, k, new)
      PROVE  /\ extension[e] # None /\ extension'[e] \in PoolsConfigExtension
             /\ \A d \in Configs \ {e} : extension'[d] = extension[d]
             /\ UNCHANGED <<config, fee_tier, token_badge, pool, vaults>>
  BY <1>2 DEF SetConfigExtensionAuthority, SetTokenBadgeAuthority, IsExtensionAuthority,
              PoolsConfigExtension
<1>3. ASSUME NEW e \in Configs, NEW m \in Mints,
             InitializeTokenBadge(c, e, k, m) \/ DeleteTokenBadge(c, e, k, m)
      PROVE  /\ \A b \in token_badge' : b \in token_badge \/ extension[b[1]] # None
             /\ UNCHANGED <<config, fee_tier, extension, pool, vaults>>
  BY <1>3 DEF InitializeTokenBadge, DeleteTokenBadge, IsBadgeAuthority, HasOne
<1> QED BY <1>1, <1>2, <1>3 DEF ExtensionStep

----------------------------------------------------------------------------
(* The state invariants.                                                   *)

\* After a change of pool pk, that pool is the new one and the others are as before.
LEMMA BecomesPools ==
    ASSUME TypeOK, NEW pk \in PoolKeys, NEW p, Becomes(pk, p)
    PROVE  /\ pool[pk] # None /\ pool'[pk] = p /\ p # None
           /\ \A q \in PoolKeys \ {pk} : pool'[q] = pool[q]
BY Constants DEF TypeOK, Becomes

\* The pools that exist: a step only adds those that initialize_pool creates.
LEMMA NewPools ==
    ASSUME TypeOK, [Next]_vars, NEW pk \in PoolKeys, pool'[pk] # None, pool[pk] = None
    PROVE  InitializePool(pk)
<1>1. CASE UNCHANGED vars
  BY <1>1 DEF vars
<1>2. ASSUME NEW c \in Configs, NEW k \in Keys, NEW q \in PoolKeys, PoolStep(c, q, k)
      PROVE  FALSE
  BY <1>2, PoolStepEffect, BecomesPools
<1>3. ASSUME NEW k \in Keys, NEW q \in PoolKeys, RewardStep(q, k)
      PROVE  FALSE
  BY <1>3, RewardStepEffect, BecomesPools
<1>4. ASSUME NEW q \in PoolKeys, InitializePool(q)
      PROVE  q = pk
  BY <1>4 DEF InitializePool, TypeOK
<1>5. ASSUME NEW q \in PoolKeys, InitializePoolTokens(q)
      PROVE  FALSE
  BY <1>5 DEF InitializePoolTokens
<1>6. ASSUME NEW q \in PoolKeys, Swap(q)
      PROVE  FALSE
  BY <1>6, SwapEffect, BecomesPools
<1>7. ASSUME NEW c \in Configs, NEW k \in Keys, ConfigStep(c, k) \/ ExtensionStep(c, k)
      PROVE  FALSE
  BY <1>7, ConfigStepEffect, ExtensionStepEffect
<1> QED BY <1>1, <1>2, <1>3, <1>4, <1>5, <1>6, <1>7, Steps

\* What is founded stays: configs, extensions and pools are never removed.
LEMMA Stays ==
    ASSUME TypeOK, [Next]_vars
    PROVE  /\ \A c \in Configs : config[c] # None => config'[c] # None
           /\ \A c \in Configs : extension[c] # None => extension'[c] # None
           /\ \A pk \in PoolKeys : pool[pk] # None => pool'[pk] # None
<1>1. CASE UNCHANGED vars
  BY <1>1 DEF vars
<1>2. ASSUME NEW c \in Configs, NEW k \in Keys, NEW q \in PoolKeys, PoolStep(c, q, k)
      PROVE  /\ UNCHANGED <<config, extension>>
             /\ \A pk \in PoolKeys : pool[pk] # None => pool'[pk] # None
  BY <1>2, PoolStepEffect, BecomesPools DEF Becomes
<1>3. ASSUME NEW k \in Keys, NEW q \in PoolKeys, RewardStep(q, k)
      PROVE  /\ UNCHANGED <<config, extension>>
             /\ \A pk \in PoolKeys : pool[pk] # None => pool'[pk] # None
  BY <1>3, RewardStepEffect, BecomesPools DEF Becomes
<1>4. ASSUME NEW q \in PoolKeys, InitializePool(q)
      PROVE  /\ UNCHANGED <<config, extension>>
             /\ \A pk \in PoolKeys : pool[pk] # None => pool'[pk] # None
  BY <1>4 DEF InitializePool, TypeOK
<1>5. ASSUME NEW q \in PoolKeys, InitializePoolTokens(q)
      PROVE  UNCHANGED <<config, extension, pool>>
  BY <1>5 DEF InitializePoolTokens
<1>6. ASSUME NEW q \in PoolKeys, Swap(q)
      PROVE  /\ UNCHANGED <<config, extension>>
             /\ \A pk \in PoolKeys : pool[pk] # None => pool'[pk] # None
  BY <1>6, SwapEffect, BecomesPools DEF Becomes
<1>7. ASSUME NEW c \in Configs, NEW k \in Keys, ConfigStep(c, k)
      PROVE  /\ \A d \in Configs : config[d] # None => config'[d] # None
             /\ UNCHANGED <<extension, pool>>
  BY <1>7, ConfigStepEffect
<1>8. ASSUME NEW c \in Configs, NEW k \in Keys, ExtensionStep(c, k)
      PROVE  /\ \A d \in Configs : extension[d] # None => extension'[d] # None
             /\ UNCHANGED <<config, pool>>
  BY <1>8, ExtensionStepEffect
<1> QED BY <1>1, <1>2, <1>3, <1>4, <1>5, <1>6, <1>7, <1>8, Steps

\* New extensions and new badges.
LEMMA NewExtensions ==
    ASSUME TypeOK, [Next]_vars
    PROVE  /\ \A c \in Configs :
                 extension'[c] # None => extension[c] # None \/ config[c] # None
           /\ \A b \in token_badge' : b \in token_badge \/ extension[b[1]] # None
<1>1. CASE UNCHANGED vars
  BY <1>1 DEF vars
<1>2. ASSUME NEW c \in Configs, NEW k \in Keys, NEW q \in PoolKeys, PoolStep(c, q, k)
      PROVE  UNCHANGED <<extension, token_badge>>
  BY <1>2, PoolStepEffect DEF Becomes
<1>3. ASSUME NEW k \in Keys, NEW q \in PoolKeys, RewardStep(q, k)
      PROVE  UNCHANGED <<extension, token_badge>>
  BY <1>3, RewardStepEffect DEF Becomes
<1>4. ASSUME NEW q \in PoolKeys, InitializePool(q) \/ InitializePoolTokens(q) \/ Swap(q)
      PROVE  UNCHANGED <<extension, token_badge>>
  BY <1>4 DEF InitializePool, InitializePoolTokens, Swap
<1>5. ASSUME NEW c \in Configs, NEW k \in Keys, ConfigStep(c, k)
      PROVE  UNCHANGED <<extension, token_badge>>
  BY <1>5, ConfigStepEffect
<1>6. ASSUME NEW c \in Configs, NEW k \in Keys, ExtensionStep(c, k)
      PROVE  /\ \A d \in Configs :
                   extension'[d] # None => extension[d] # None \/ config[d] # None
             /\ \A b \in token_badge' : b \in token_badge \/ extension[b[1]] # None
  BY <1>6, ExtensionStepEffect
<1> QED BY <1>1, <1>2, <1>3, <1>4, <1>5, <1>6, Steps

\* A fee tier is opened, and changed, for a config that exists.
LEMMA NewTiers ==
    ASSUME TypeOK, [Next]_vars, NEW t \in TierKeys, fee_tier'[t] # None, fee_tier[t] = None
    PROVE  config[t.pools_config] # None
<1>1. ASSUME NEW c \in Configs, NEW k \in Keys, NEW u \in TierKeys, NEW rate \in FeeRates,
             InitializeFeeTier(u, k, rate) \/ SetDefaultFeeRate(c, u, k, rate)
      PROVE  config[t.pools_config] # None
  BY <1>1 DEF InitializeFeeTier, SetDefaultFeeRate, IsFeeAuthority, HasOne, TypeOK
<1>2. ASSUME UNCHANGED fee_tier
      PROVE  FALSE
  BY <1>2
<1>3. ASSUME NEW c \in Configs, NEW k \in Keys, ConfigStep(c, k)
      PROVE  config[t.pools_config] # None
  BY <1>1, <1>2, <1>3
     DEF ConfigStep, InitializeConfig, SetFeeAuthority, SetCollectProtocolFeesAuthority,
         SetRewardEmissionsSuperAuthority, SetDefaultProtocolFeeRate
<1>4. ASSUME NEW c \in Configs, NEW k \in Keys, ExtensionStep(c, k)
      PROVE  FALSE
  BY <1>2, <1>4, ExtensionStepEffect
<1>5. ASSUME NEW c \in Configs, NEW k \in Keys, NEW q \in PoolKeys, PoolStep(c, q, k)
      PROVE  FALSE
  BY <1>2, <1>5, PoolStepEffect DEF Becomes
<1>6. ASSUME NEW k \in Keys, NEW q \in PoolKeys, RewardStep(q, k)
      PROVE  FALSE
  BY <1>2, <1>6, RewardStepEffect DEF Becomes
<1>7. ASSUME NEW q \in PoolKeys, InitializePool(q) \/ InitializePoolTokens(q) \/ Swap(q)
      PROVE  FALSE
  BY <1>2, <1>7 DEF InitializePool, InitializePoolTokens, Swap
<1>8. CASE UNCHANGED vars
  BY <1>2, <1>8 DEF vars
<1> QED BY <1>3, <1>4, <1>5, <1>6, <1>7, <1>8, Steps

\* What belongs to a config finds it there.
LEMMA RootedStep == TypeOK /\ Rooted /\ [Next]_vars => Rooted'
<1> SUFFICES ASSUME TypeOK, Rooted, [Next]_vars
             PROVE  Rooted'
  OBVIOUS
<1>1. \A c \in Configs : extension'[c] # None => config'[c] # None
  BY NewExtensions, Stays DEF Rooted
<1>2. \A b \in token_badge' : extension'[b[1]] # None
  <2> SUFFICES ASSUME NEW b \in token_badge'
               PROVE  extension'[b[1]] # None
    OBVIOUS
  <2>1. b[1] \in Configs
    BY TypeStep DEF TypeOK
  <2> QED BY <2>1, NewExtensions, Stays DEF Rooted
<1>3. ASSUME NEW pk \in PoolKeys, pool'[pk] # None
      PROVE  config'[pk.pools_config] # None
  <2>1. pk.pools_config \in Configs
    BY AdminAssumption DEF AdminAssumption
  <2>2. config[pk.pools_config] # None
    BY <1>3, NewPools DEF Rooted, InitializePool
  <2> QED BY <2>1, <2>2, Stays
<1>4. ASSUME NEW t \in TierKeys, fee_tier'[t] # None
      PROVE  config'[t.pools_config] # None
  <2>1. t.pools_config \in Configs
    BY AdminAssumption DEF AdminAssumption
  <2>2. config[t.pools_config] # None
    BY <1>4, NewTiers DEF Rooted
  <2> QED BY <2>1, <2>2, Stays
<1> QED BY <1>1, <1>2, <1>3, <1>4 DEF Rooted

\* Extensions, fee tiers and pools belong to configs that exist, badges to
\* configs that have an extension.
THEOREM RootedAlways == Spec => []Rooted
<1>1. Init => Rooted
  BY AdminAssumption DEF Init, Rooted, AdminAssumption
<1> QED BY <1>1, RootedStep, TypeCorrect, PTL DEF Spec

\* Slots that are taken, and emit, as before are in order as before.
LEMMA SameRewardsInOrder ==
    ASSUME NEW infos, NEW others, SameRewards(infos, others), InOrder(others)
    PROVE  InOrder(infos)
BY DEF SameRewards, InOrder

\* Taking the lowest slot, or changing a taken one, keeps the order.
LEMMA SlotChangeInOrder ==
    ASSUME NEW pk \in PoolKeys, pool[pk] \in Pool, InOrder(pool[pk].reward_infos),
           NEW i \in Slots, NEW info \in PoolRewardInfo,
           \/ \E m \in Mints : Taken(pk, i, m, info)
           \/ \E emitting \in BOOLEAN : Emits(pk, i, emitting, info)
           \/ \E key \in Keys : Passed(pk, i, key, info)
    PROVE  InOrder([pool[pk].reward_infos EXCEPT ![i] = info])
<1> DEFINE old == pool[pk].reward_infos
           new == [old EXCEPT ![i] = info]
<1>1. old \in [Slots -> PoolRewardInfo]
  BY DEF Pool
<1> HIDE DEF old
<1>2. \A j \in Slots : new[j] = IF j = i THEN info ELSE old[j]
  BY <1>1
<1> HIDE DEF new
<1>3. ASSUME \E m \in Mints : Taken(pk, i, m, info)
      PROVE  InOrder(new)
  <2>1. PICK m \in Mints : Taken(pk, i, m, info)
    BY <1>3
  <2>2. info = [old[i] EXCEPT !.mint = m] /\ IsLowest(old, i)
    BY <2>1 DEF Taken, old
  <2>3. info.mint = m /\ m # None /\ info.emitting = old[i].emitting
    BY <1>1, <2>2, Constants DEF PoolRewardInfo
  <2>4. \A j \in Slots : old[j].mint = None => i <= j
    BY <2>2 DEF IsLowest, Uninitialized
  <2>5. \A j \in Slots : j \in Int
    BY Constants DEF Slots
  <2> QED BY <1>2, <2>3, <2>4, <2>5 DEF InOrder, old
<1>4. ASSUME \E emitting \in BOOLEAN : Emits(pk, i, emitting, info)
      PROVE  InOrder(new)
  <2>1. info.mint = old[i].mint /\ old[i].mint # None
    BY <1>1, <1>4 DEF Emits, PoolRewardInfo, old
  <2> QED BY <1>2, <2>1 DEF InOrder, old
<1>5. ASSUME \E key \in Keys : Passed(pk, i, key, info)
      PROVE  InOrder(new)
  <2>1. info.mint = old[i].mint /\ info.emitting = old[i].emitting
    BY <1>1, <1>5 DEF Passed, PoolRewardInfo, old
  <2> QED BY <1>2, <2>1 DEF InOrder, old
<1>6. InOrder(new)
  BY <1>3, <1>4, <1>5
<1> QED BY <1>6 DEF new, old

\* Reward slots are taken in order.
LEMMA RewardsInOrderStep == TypeOK /\ RewardsInOrder /\ [Next]_vars => RewardsInOrder'
<1> SUFFICES ASSUME TypeOK, RewardsInOrder, [Next]_vars, NEW pk \in PoolKeys, pool'[pk] # None
             PROVE  InOrder(pool'[pk].reward_infos)
  BY DEF RewardsInOrder
<1>1. CASE UNCHANGED vars
  BY <1>1 DEF vars, RewardsInOrder
<1>2. ASSUME NEW q \in PoolKeys,
             \E p \in Pool : Becomes(q, p) /\ SameRewards(p.reward_infos, pool[q].reward_infos)
      PROVE  InOrder(pool'[pk].reward_infos)
  BY <1>2, BecomesPools, SameRewardsInOrder DEF RewardsInOrder
<1>3. ASSUME NEW k \in Keys, NEW q \in PoolKeys, RewardStep(q, k)
      PROVE  InOrder(pool'[pk].reward_infos)
  <2>1. PICK i \in Slots, info \in PoolRewardInfo :
           /\ Becomes(q, [pool[q] EXCEPT !.reward_infos = [@ EXCEPT ![i] = info]])
           /\ \/ \E m \in Mints : Taken(q, i, m, info)
              \/ \E emitting \in BOOLEAN : Emits(q, i, emitting, info)
              \/ \E key \in Keys : Passed(q, i, key, info)
    BY <1>3, RewardStepEffect
  <2>2. pool[q] \in Pool /\ pool[q] # None
    BY <2>1, BecomesPools DEF Becomes
  <2>3. InOrder([pool[q].reward_infos EXCEPT ![i] = info])
    BY <2>1, <2>2, SlotChangeInOrder DEF RewardsInOrder
  <2>4. pool'[q].reward_infos = [pool[q].reward_infos EXCEPT ![i] = info]
    BY <2>1, <2>2, BecomesPools DEF Pool
  <2> QED BY <2>1, <2>3, <2>4, BecomesPools DEF RewardsInOrder
<1>4. ASSUME NEW q \in PoolKeys, InitializePool(q)
      PROVE  InOrder(pool'[pk].reward_infos)
  <2>1. PICK p \in Pool :
           /\ pool' = [pool EXCEPT ![q] = p]
           /\ \A i \in Slots : p.reward_infos[i] =
                 [authority |-> config[q.pools_config].reward_emissions_super_authority,
                  mint |-> None, emitting |-> FALSE]
    BY <1>4, InitializePoolEffect
  <2>2. \A i \in Slots : p.reward_infos[i].mint = None /\ ~p.reward_infos[i].emitting
    BY <2>1
  <2>3. InOrder(p.reward_infos)
    BY <2>2 DEF InOrder
  <2>4. pool'[pk] = IF pk = q THEN p ELSE pool[pk]
    BY <2>1 DEF TypeOK
  <2> QED BY <2>3, <2>4 DEF RewardsInOrder
<1>5. ASSUME NEW q \in PoolKeys, InitializePoolTokens(q)
      PROVE  pool' = pool
  BY <1>5 DEF InitializePoolTokens
<1>6. ASSUME NEW c \in Configs, NEW k \in Keys, ConfigStep(c, k) \/ ExtensionStep(c, k)
      PROVE  pool' = pool
  BY <1>6, ConfigStepEffect, ExtensionStepEffect
<1>7. ASSUME pool' = pool
      PROVE  InOrder(pool'[pk].reward_infos)
  BY <1>7 DEF RewardsInOrder
<1> QED BY <1>1, <1>2, <1>3, <1>4, <1>5, <1>6, <1>7, Steps, PoolStepEffect, SwapEffect

\* Only a slot that was taken emits, and slots are taken in order.
THEOREM RewardsInOrderAlways == Spec => []RewardsInOrder
<1>1. Init => RewardsInOrder
  BY DEF Init, RewardsInOrder
<1> QED BY <1>1, RewardsInOrderStep, TypeCorrect, PTL DEF Spec

\* A badge never makes a mint unsupported.
LEMMA BadgeHelps ==
    ASSUME NEW m, NEW badged \in BOOLEAN, IsSupportedTokenMint(m, badged)
    PROVE  IsSupportedTokenMint(m, TRUE)
BY DEF IsSupportedTokenMint

\* A mint that passes the check of a config is one its pools may touch.
Vetted(c, m) ==
    /\ IsSupportedTokenMint(m, TRUE)
    /\ extension[c] = None => IsSupportedTokenMint(m, FALSE)

\* What is supported today, is vetted.
LEMMA SupportedIsVetted ==
    ASSUME Rooted, NEW c \in Configs, NEW m, IsSupported(c, m)
    PROVE  Vetted(c, m)
<1> DEFINE badged == IsTokenBadgeInitialized(c, m)
<1>1. badged \in BOOLEAN /\ IsSupportedTokenMint(m, badged)
  BY DEF IsSupported, IsTokenBadgeInitialized
<1>2. extension[c] = None => badged = FALSE
  BY DEF Rooted, IsTokenBadgeInitialized
<1> HIDE DEF badged
<1> QED BY <1>1, <1>2, BadgeHelps DEF Vetted

\* What is vetted stays so.
LEMMA VettedStays ==
    ASSUME TypeOK, [Next]_vars, NEW c \in Configs, NEW m, Vetted(c, m)
    PROVE  Vetted(c, m)'
BY Stays DEF Vetted, IsSupportedTokenMint

\* Every mint a pool touches is vetted.
LEMMA MintsStep == TypeOK /\ Rooted /\ MintsWereVetted /\ [Next]_vars => MintsWereVetted'
<1> SUFFICES ASSUME TypeOK, Rooted, MintsWereVetted, [Next]_vars,
                    NEW pk \in PoolKeys, pool'[pk] # None, NEW m \in TokensOf(pk)'
             PROVE  Vetted(pk.pools_config, m)'
  BY DEF MintsWereVetted, Vetted
<1> DEFINE c == pk.pools_config
<1>0. c \in Configs
  BY AdminAssumption DEF AdminAssumption
<1>1. ASSUME pool[pk] # None, m \in TokensOf(pk)
      PROVE  Vetted(c, m)'
  <2>1. Vetted(c, m)
    BY <1>1 DEF MintsWereVetted, Vetted
  <2> QED BY <1>0, <2>1, VettedStays
<1>2. ASSUME IsSupported(c, m)
      PROVE  Vetted(c, m)'
  BY <1>0, <1>2, SupportedIsVetted, VettedStays
<1>3. ASSUME pool[pk] # None,
             \A i \in Slots : pool'[pk].reward_infos[i].mint = pool[pk].reward_infos[i].mint
      PROVE  Vetted(c, m)'
  BY <1>1, <1>3 DEF TokensOf
<1>4. CASE pool'[pk] = pool[pk]
  BY <1>3, <1>4
<1>5. ASSUME NEW q \in PoolKeys,
             \E p \in Pool : Becomes(q, p) /\ SameRewards(p.reward_infos, pool[q].reward_infos)
      PROVE  Vetted(c, m)'
  BY <1>3, <1>4, <1>5, BecomesPools DEF SameRewards
<1>6. ASSUME NEW k \in Keys, NEW q \in PoolKeys, RewardStep(q, k)
      PROVE  Vetted(c, m)'
  <2>1. PICK i \in Slots, info \in PoolRewardInfo :
           /\ Becomes(q, [pool[q] EXCEPT !.reward_infos = [@ EXCEPT ![i] = info]])
           /\ \/ \E t \in Mints : Taken(q, i, t, info)
              \/ \E emitting \in BOOLEAN : Emits(q, i, emitting, info)
              \/ \E key \in Keys : Passed(q, i, key, info)
    BY <1>6, RewardStepEffect
  <2>2. CASE q # pk
    BY <1>4, <2>1, <2>2, BecomesPools
  <2>3. CASE q = pk
    <3>1. pool[pk] \in Pool /\ pool[pk] # None
      BY <2>1, <2>3, BecomesPools DEF Becomes
    <3>2. pool'[pk].reward_infos = [pool[pk].reward_infos EXCEPT ![i] = info]
      BY <2>1, <2>3, <3>1, BecomesPools DEF Pool
    <3>3. \A j \in Slots :
             pool'[pk].reward_infos[j] = IF j = i THEN info ELSE pool[pk].reward_infos[j]
      BY <3>1, <3>2 DEF Pool
    <3>4. pool[pk].reward_infos[i] \in PoolRewardInfo
      BY <3>1 DEF Pool
    <3>5. CASE \E t \in Mints : Taken(pk, i, t, info)
      <4>1. PICK t \in Mints : Taken(pk, i, t, info)
        BY <3>5
      <4>2. info.mint = t /\ IsSupported(c, t)
        BY <3>4, <4>1 DEF Taken, PoolRewardInfo
      <4>3. m = t \/ m \in TokensOf(pk)
        BY <3>3, <4>2 DEF TokensOf
      <4> QED BY <1>1, <1>2, <3>1, <4>2, <4>3
    <3>6. CASE \/ \E emitting \in BOOLEAN : Emits(pk, i, emitting, info)
               \/ \E key \in Keys : Passed(pk, i, key, info)
      <4>1. info.mint = pool[pk].reward_infos[i].mint
        BY <3>4, <3>6 DEF Emits, Passed, PoolRewardInfo
      <4> QED BY <1>3, <3>1, <3>3, <4>1
    <3> QED BY <2>1, <2>3, <3>5, <3>6
  <2> QED BY <2>2, <2>3
<1>7. ASSUME NEW q \in PoolKeys, InitializePool(q)
      PROVE  Vetted(c, m)'
  <2>1. CASE q # pk
    BY <1>4, <1>7, <2>1 DEF InitializePool, TypeOK
  <2>2. CASE q = pk
    <3>1. PICK p \in Pool :
             /\ pool' = [pool EXCEPT ![q] = p]
             /\ \A i \in Slots : p.reward_infos[i] =
                   [authority |-> config[q.pools_config].reward_emissions_super_authority,
                    mint |-> None, emitting |-> FALSE]
      BY <1>7, InitializePoolEffect
    <3>2. \A i \in Slots : pool'[pk].reward_infos[i].mint = None
      BY <2>2, <3>1 DEF TypeOK
    <3>3. m \in MintsOf(pk)
      BY <3>2 DEF TokensOf
    <3> QED BY <1>2, <1>7, <2>2, <3>3 DEF InitializePool
  <2> QED BY <2>1, <2>2
<1>8. ASSUME NEW q \in PoolKeys, InitializePoolTokens(q)
      PROVE  Vetted(c, m)'
  BY <1>4, <1>8 DEF InitializePoolTokens
<1>9. ASSUME NEW d \in Configs, NEW k \in Keys, ConfigStep(d, k) \/ ExtensionStep(d, k)
      PROVE  Vetted(c, m)'
  BY <1>4, <1>9, ConfigStepEffect, ExtensionStepEffect
<1>10. CASE UNCHANGED vars
  BY <1>4, <1>10 DEF vars
<1> QED BY <1>5, <1>6, <1>7, <1>8, <1>9, <1>10, Steps, PoolStepEffect, SwapEffect

\* No pool touches a token that its config could not have vetted.
THEOREM MintsWereVettedAlways == Spec => []MintsWereVetted
<1>1. Init => MintsWereVetted
  BY DEF Init, MintsWereVetted
<1> QED BY <1>1, MintsStep, RootedAlways, TypeCorrect, PTL DEF Spec

\* The mints of every pool are in order.
AllOrdered == \A pk \in PoolKeys : pool[pk] # None => Ordered(pk)

\* Pools are created in order.
LEMMA AllOrderedStep == TypeOK /\ AllOrdered /\ [Next]_vars => AllOrdered'
BY NewPools DEF AllOrdered, InitializePool, Ordered

\* Pools whose mints are in order are told apart by their tier and mints.
LEMMA OrderedPairs ==
    ASSUME NEW p \in PoolKeys, NEW q \in PoolKeys, Ordered(p), Ordered(q),
           TierOf(p) = TierOf(q), MintsOf(p) = MintsOf(q)
    PROVE  p = q
<1>1. \A pk \in PoolKeys : pk \in [pools_config : Configs, token_mint_a : Mints,
                                   token_mint_b : Mints, tick_spacing : TickSpacings]
  BY AdminAssumption DEF AdminAssumption
<1>2. \A m \in Mints : m \in Int
  BY AdminAssumption DEF AdminAssumption
<1>3. p.pools_config = q.pools_config /\ p.tick_spacing = q.tick_spacing
  BY DEF TierOf
<1>4. p.token_mint_a = q.token_mint_a /\ p.token_mint_b = q.token_mint_b
  <2>1. /\ p.token_mint_a \in Int /\ p.token_mint_b \in Int
        /\ q.token_mint_a \in Int /\ q.token_mint_b \in Int
    BY <1>1, <1>2
  <2>2. /\ p.token_mint_a \in {q.token_mint_a, q.token_mint_b}
        /\ p.token_mint_b \in {q.token_mint_a, q.token_mint_b}
        /\ q.token_mint_a \in {p.token_mint_a, p.token_mint_b}
        /\ q.token_mint_b \in {p.token_mint_a, p.token_mint_b}
    BY DEF MintsOf
  <2> QED BY <2>1, <2>2 DEF Ordered
<1> QED BY <1>1, <1>3, <1>4

\* Two tokens have one pool per config and spacing.
THEOREM OnePoolPerPairAlways == Spec => []OnePoolPerPair
<1>1. Init => AllOrdered
  BY DEF Init, AllOrdered
<1>2. AllOrdered => OnePoolPerPair
  BY OrderedPairs DEF AllOrdered, OnePoolPerPair
<1> QED BY <1>1, <1>2, AllOrderedStep, TypeCorrect, PTL DEF Spec

----------------------------------------------------------------------------
(* Nothing changes without the signature of the authority over it.         *)

\* A pool that is left alone, and one that comes into being, needs no signature.
LEMMA PoolKept ==
    ASSUME NEW pk \in PoolKeys, pool[pk] # None => pool'[pk] = pool[pk]
    PROVE  PoolChange(pk)
BY DEF PoolChange

\* Nor does a config that is left alone.
LEMMA ConfigKept ==
    ASSUME NEW c \in Configs, config[c] # None => config'[c] = config[c]
    PROVE  ConfigChange(c)
BY DEF ConfigChange

\* The instructions on configs and tiers are signed.
LEMMA ConfigStepSigned ==
    ASSUME TypeOK, NEW c \in Configs, NEW k \in Keys, ConfigStep(c, k)
    PROVE  SignedChange
<1> USE Constants DEF TypeOK
<1>1. UNCHANGED <<token_badge, pool>>
  BY ConfigStepEffect
<1>2. ASSUME NEW collect \in Keys, NEW super \in Keys, NEW rate \in ProtocolFeeRates,
             InitializeConfig(c, k, collect, super, rate)
      PROVE  UNCHANGED fee_tier /\ \A d \in Configs : ConfigChange(d)
  BY <1>2, ConfigKept DEF InitializeConfig
<1>3. ASSUME NEW new \in Keys,
             \/ SetFeeAuthority(c, k, new)
             \/ SetCollectProtocolFeesAuthority(c, k, new)
             \/ SetRewardEmissionsSuperAuthority(c, k, new)
      PROVE  UNCHANGED fee_tier /\ \A d \in Configs : ConfigChange(d)
  <2>1. UNCHANGED fee_tier /\ config[c] \in PoolsConfig
    BY <1>3 DEF SetFeeAuthority, SetCollectProtocolFeesAuthority,
                SetRewardEmissionsSuperAuthority, IsFeeAuthority, IsSuperAuthority
  <2>2. /\ config'[c] \in PoolsConfig
        /\ config'[c].default_protocol_fee_rate = config[c].default_protocol_fee_rate
    BY <1>3, <2>1 DEF SetFeeAuthority, SetCollectProtocolFeesAuthority,
                      SetRewardEmissionsSuperAuthority, PoolsConfig
  <2>3. \A d \in Configs \ {c} : config'[d] = config[d]
    BY <1>3 DEF SetFeeAuthority, SetCollectProtocolFeesAuthority,
                SetRewardEmissionsSuperAuthority
  <2>4. ConfigChange(c)
    BY <2>2 DEF ConfigChange
  <2> QED BY <2>1, <2>3, <2>4, ConfigKept
<1>4. ASSUME NEW rate \in ProtocolFeeRates, SetDefaultProtocolFeeRate(c, k, rate)
      PROVE  UNCHANGED fee_tier /\ \A d \in Configs : ConfigChange(d)
  <2>1. UNCHANGED fee_tier /\ FeeSigned(c) /\ config[c] \in PoolsConfig
    BY <1>4 DEF SetDefaultProtocolFeeRate, IsFeeAuthority, FeeSigned
  <2>2. config'[c] \in PoolsConfig
    BY <1>4, <2>1 DEF SetDefaultProtocolFeeRate, WithinProtocolFeeCap, PoolsConfig
  <2>3. \A d \in Configs \ {c} : config'[d] = config[d]
    BY <1>4 DEF SetDefaultProtocolFeeRate
  <2>4. ConfigChange(c)
    BY <2>1, <2>2 DEF ConfigChange
  <2> QED BY <2>1, <2>3, <2>4, ConfigKept
<1>5. ASSUME NEW t \in TierKeys, NEW rate \in FeeRates,
             InitializeFeeTier(t, k, rate) \/ SetDefaultFeeRate(c, t, k, rate)
      PROVE  /\ UNCHANGED config /\ FeeSigned(t.pools_config)
             /\ \A u \in TierKeys \ {t} : fee_tier'[u] = fee_tier[u]
  BY <1>5 DEF InitializeFeeTier, SetDefaultFeeRate, HasOne, IsFeeAuthority, FeeSigned
<1>6. \/ UNCHANGED fee_tier /\ \A d \in Configs : ConfigChange(d)
      \/ /\ UNCHANGED config
         /\ \A u \in TierKeys : fee_tier'[u] = fee_tier[u] \/ FeeSigned(u.pools_config)
  BY <1>2, <1>3, <1>4, <1>5 DEF ConfigStep
<1> QED BY <1>1, <1>6, ConfigKept, PoolKept DEF SignedChange

\* So are those on badges, by the authority of the config the badge is for.
LEMMA ExtensionStepSigned ==
    ASSUME TypeOK, NEW c \in Configs, NEW k \in Keys, ExtensionStep(c, k)
    PROVE  SignedChange
<1>1. UNCHANGED <<config, fee_tier, pool>>
  BY ExtensionStepEffect
<1>2. \A b \in Configs \X Mints :
         (b \in token_badge' <=> b \in token_badge) \/ BadgeSigned(b[1])
  <2>1. ASSUME NEW e \in Configs, NEW m \in Mints,
               InitializeTokenBadge(c, e, k, m) \/ DeleteTokenBadge(c, e, k, m)
        PROVE  /\ BadgeSigned(c)
               /\ \A b \in Configs \X Mints :
                     b # <<c, m>> => (b \in token_badge' <=> b \in token_badge)
    BY <2>1 DEF InitializeTokenBadge, DeleteTokenBadge, HasOne, IsBadgeAuthority, BadgeSigned
  <2>2. CASE UNCHANGED token_badge
    BY <2>2
  <2>3. CASE \E e \in Configs, m \in Mints :
               InitializeTokenBadge(c, e, k, m) \/ DeleteTokenBadge(c, e, k, m)
    BY <2>1, <2>3
  <2> QED BY <2>2, <2>3
          DEF ExtensionStep, InitializeConfigExtension, SetConfigExtensionAuthority,
              SetTokenBadgeAuthority
<1> QED BY <1>1, <1>2, ConfigKept, PoolKept DEF SignedChange

\* A change of pool pk needs only that pool's signatures.
LEMMA OnePoolSigned ==
    ASSUME TypeOK, NEW pk \in PoolKeys, NEW p \in Pool, Becomes(pk, p), PoolChange(pk)
    PROVE  SignedChange
<1>1. UNCHANGED <<config, fee_tier, token_badge>>
  BY DEF Becomes
<1>2. \A q \in PoolKeys \ {pk} : pool'[q] = pool[q]
  BY BecomesPools
<1> QED BY <1>1, <1>2, ConfigKept, PoolKept DEF SignedChange

\* The instructions of a config's authorities on a pool are signed by those of
\* the pool's own config.
LEMMA PoolStepSigned ==
    ASSUME TypeOK, NEW c \in Configs, NEW pk \in PoolKeys, NEW k \in Keys, PoolStep(c, pk, k)
    PROVE  SignedChange
<1>1. PICK p \in Pool : Becomes(pk, p)
  BY PoolStepEffect
<1>2. pool[pk] \in Pool /\ pool'[pk] = p
  BY <1>1, BecomesPools DEF TypeOK
<1>3. ASSUME NEW rate \in FeeRates, SetFeeRate(c, pk, k, rate)
      PROVE  PoolChange(pk)
  <2>1. FeeSigned(pk.pools_config) /\ pool'[pk] = [pool[pk] EXCEPT !.fee_rate = rate]
    BY <1>3 DEF SetFeeRate, HasOne, IsFeeAuthority, FeeSigned, TypeOK
  <2>2. /\ pool'[pk].protocol_fee_rate = pool[pk].protocol_fee_rate
        /\ pool'[pk].fees_owed = pool[pk].fees_owed
        /\ pool'[pk].reward_infos = pool[pk].reward_infos
    BY <1>2, <2>1 DEF Pool
  <2> QED BY <1>1, <2>1, <2>2, BecomesPools DEF PoolChange
<1>4. ASSUME NEW rate \in ProtocolFeeRates, SetProtocolFeeRate(c, pk, k, rate)
      PROVE  PoolChange(pk)
  <2>1. /\ FeeSigned(pk.pools_config)
        /\ pool'[pk] = [pool[pk] EXCEPT !.protocol_fee_rate = rate]
    BY <1>4 DEF SetProtocolFeeRate, HasOne, IsFeeAuthority, FeeSigned, TypeOK
  <2>2. /\ pool'[pk].fee_rate = pool[pk].fee_rate
        /\ pool'[pk].fees_owed = pool[pk].fees_owed
        /\ pool'[pk].reward_infos = pool[pk].reward_infos
    BY <1>2, <2>1 DEF Pool
  <2> QED BY <1>1, <2>1, <2>2, BecomesPools DEF PoolChange
<1>5. ASSUME CollectProtocolFees(c, pk, k)
      PROVE  PoolChange(pk)
  <2>1. CollectSigned(pk.pools_config) /\ pool'[pk] = [pool[pk] EXCEPT !.fees_owed = FALSE]
    BY <1>5 DEF CollectProtocolFees, HasOne, CollectSigned, TypeOK
  <2>2. /\ pool'[pk].fee_rate = pool[pk].fee_rate
        /\ pool'[pk].protocol_fee_rate = pool[pk].protocol_fee_rate
        /\ pool'[pk].reward_infos = pool[pk].reward_infos
    BY <1>2, <2>1 DEF Pool
  <2> QED BY <1>1, <2>1, <2>2, BecomesPools DEF PoolChange
<1>6. ASSUME NEW i \in 0 .. NUM_REWARDS, NEW new \in Keys,
             SetRewardAuthorityBySuperAuthority(c, pk, i, k, new)
      PROVE  PoolChange(pk)
  <2> DEFINE infos == [pool[pk].reward_infos EXCEPT ![i].authority = new]
  <2>1. i \in Slots /\ pool'[pk] = [pool[pk] EXCEPT !.reward_infos = infos]
    BY <1>6, Constants DEF SetRewardAuthorityBySuperAuthority, Slots, TypeOK
  <2>2. /\ pool'[pk].fee_rate = pool[pk].fee_rate
        /\ pool'[pk].protocol_fee_rate = pool[pk].protocol_fee_rate
        /\ pool'[pk].fees_owed = pool[pk].fees_owed
        /\ pool'[pk].reward_infos = infos
    BY <1>2, <2>1 DEF Pool
  <2>3. \A j \in Slots :
           /\ pool'[pk].reward_infos[j].mint = pool[pk].reward_infos[j].mint
           /\ pool'[pk].reward_infos[j].emitting = pool[pk].reward_infos[j].emitting
    BY <1>2, <2>1, <2>2 DEF Pool, PoolRewardInfo
  <2> QED BY <1>1, <2>2, <2>3, BecomesPools DEF PoolChange
<1>7. PoolChange(pk)
  BY <1>3, <1>4, <1>5, <1>6 DEF PoolStep
<1> QED BY <1>1, <1>7, OnePoolSigned

\* The instructions on rewards are signed by the authority of the slot.
LEMMA RewardStepSigned ==
    ASSUME TypeOK, NEW pk \in PoolKeys, NEW k \in Keys, RewardStep(pk, k)
    PROVE  SignedChange
<1>1. PICK i \in Slots, info \in PoolRewardInfo :
         /\ pool[pk].reward_infos[i].authority = k
         /\ Becomes(pk, [pool[pk] EXCEPT !.reward_infos = [@ EXCEPT ![i] = info]])
  BY RewardStepEffect
<1> DEFINE p == [pool[pk] EXCEPT !.reward_infos = [@ EXCEPT ![i] = info]]
<1>2. signer' = k
  BY RewardStepEffect
<1>3. pool[pk] \in Pool /\ pool[pk] # None /\ pool'[pk] = p /\ p # None
  BY <1>1, BecomesPools DEF TypeOK
<1>4. p \in Pool
  BY <1>3, SlotChangeType
<1>5. /\ p.fee_rate = pool[pk].fee_rate
      /\ p.protocol_fee_rate = pool[pk].protocol_fee_rate
      /\ p.fees_owed = pool[pk].fees_owed
      /\ p.reward_infos = [pool[pk].reward_infos EXCEPT ![i] = info]
  BY <1>3 DEF Pool
<1> HIDE DEF p
<1>6. \A j \in Slots \ {i} : p.reward_infos[j] = pool[pk].reward_infos[j]
  BY <1>3, <1>5 DEF Pool
<1>7. PoolChange(pk)
  BY <1>1, <1>2, <1>3, <1>5, <1>6 DEF PoolChange
<1>8. Becomes(pk, p)
  BY <1>1 DEF p
<1> QED BY <1>4, <1>7, <1>8, OnePoolSigned

\* A swap changes nothing that takes a signature: what is owed only grows.
LEMMA SwapSigned ==
    ASSUME TypeOK, NEW pk \in PoolKeys, Swap(pk)
    PROVE  SignedChange
<1>1. PICK p \in Pool : Becomes(pk, p)
  BY SwapEffect
<1>2. pool[pk] \in Pool /\ pool'[pk] = p /\ p # None
  BY <1>1, BecomesPools DEF TypeOK
<1>3. pool'[pk] = [pool[pk] EXCEPT !.fees_owed = TRUE]
  BY DEF Swap, TypeOK
<1>4. /\ pool'[pk].fee_rate = pool[pk].fee_rate
      /\ pool'[pk].protocol_fee_rate = pool[pk].protocol_fee_rate
      /\ pool'[pk].fees_owed
      /\ pool'[pk].reward_infos = pool[pk].reward_infos
  BY <1>2, <1>3 DEF Pool
<1>5. PoolChange(pk)
  BY <1>2, <1>4 DEF PoolChange
<1> QED BY <1>1, <1>5, OnePoolSigned

\* What exists is changed only by the signature of the authority over it.
THEOREM ChangesAreSignedAlways == Spec => ChangesAreSigned
<1>1. ASSUME TypeOK, Next
      PROVE  SignedChange
  <2>1. ASSUME NEW pk \in PoolKeys, InitializePool(pk) \/ InitializePoolTokens(pk)
        PROVE  SignedChange
    <3>1. UNCHANGED <<config, fee_tier, token_badge>>
      BY <2>1 DEF InitializePool, InitializePoolTokens
    <3>2. InitializePoolTokens(pk) => UNCHANGED pool
      BY DEF InitializePoolTokens
    <3>3. ASSUME InitializePool(pk), NEW q \in PoolKeys, pool[q] # None
          PROVE  pool'[q] = pool[q]
      <4>1. q # pk
        BY <3>3 DEF InitializePool
      <4> QED BY <3>3, <4>1 DEF InitializePool, TypeOK
    <3> QED BY <2>1, <3>1, <3>2, <3>3, ConfigKept, PoolKept DEF SignedChange
  <2> QED BY <1>1, <2>1, Steps, ConfigStepSigned, ExtensionStepSigned, PoolStepSigned,
             RewardStepSigned, SwapSigned
<1>2. TypeOK /\ [Next]_vars => [SignedChange]_vars
  BY <1>1
<1> QED BY <1>2, TypeCorrect, PTL DEF Spec, ChangesAreSigned

----------------------------------------------------------------------------
(* Authority is handed on as Delegation says.                              *)

\* What a step of Delegation is, office by office: one is handed on, or some
\* are founded.
Kept(o) == Holder(o)' = Holder(o)
Handed(o) ==
    /\ Holder(o) # None /\ Holder(o)' \in Keys
    /\ \E a \in Appointers(o) : Holder(a) # None /\ signer' = Holder(a)
    /\ \A q \in Office \ {o} : Kept(q)
Founded(o) ==
    /\ Holder(o) = None
    /\ IF First(o) = o THEN Holder(o)' \in Keys
                       ELSE Holder(First(o)) # None /\ Holder(o)' = Holder(First(o))
HandedOn == (\E o \in Office : Handed(o)) \/ (\A o \in Office : Kept(o) \/ Founded(o))

\* The offices are those of the configs, of their extensions, and of the slots.
LEMMA OfficeKinds ==
    ASSUME NEW o \in Office
    PROVE  \/ \E c \in Configs : o \in {<<"fee", c, 0>>, <<"collect", c, 0>>, <<"super", c, 0>>}
           \/ \E c \in Configs : o \in {<<"extension", c, 0>>, <<"badge", c, 0>>}
           \/ \E pk \in PoolKeys, i \in Slots : o = <<"reward", pk, i>>
BY DEF Office, ConfigOffices

\* Who holds the offices of a config,
LEMMA ConfigHolders ==
    ASSUME NEW c \in Configs
    PROVE  /\ Holder(<<"fee", c, 0>>) = IF config[c] = None THEN None ELSE config[c].fee_authority
           /\ Holder(<<"collect", c, 0>>) =
                 IF config[c] = None THEN None ELSE config[c].collect_protocol_fees_authority
           /\ Holder(<<"super", c, 0>>) =
                 IF config[c] = None THEN None ELSE config[c].reward_emissions_super_authority
           /\ Holder(<<"fee", c, 0>>)' =
                 IF config'[c] = None THEN None ELSE config'[c].fee_authority
           /\ Holder(<<"collect", c, 0>>)' =
                 IF config'[c] = None THEN None ELSE config'[c].collect_protocol_fees_authority
           /\ Holder(<<"super", c, 0>>)' =
                 IF config'[c] = None THEN None ELSE config'[c].reward_emissions_super_authority
BY DEF Holder

\* of its extension,
LEMMA ExtensionHolders ==
    ASSUME NEW c \in Configs
    PROVE  /\ Holder(<<"extension", c, 0>>) =
                 IF extension[c] = None THEN None ELSE extension[c].config_extension_authority
           /\ Holder(<<"badge", c, 0>>) =
                 IF extension[c] = None THEN None ELSE extension[c].token_badge_authority
           /\ Holder(<<"extension", c, 0>>)' =
                 IF extension'[c] = None THEN None ELSE extension'[c].config_extension_authority
           /\ Holder(<<"badge", c, 0>>)' =
                 IF extension'[c] = None THEN None ELSE extension'[c].token_badge_authority
BY DEF Holder

\* and of a reward slot.
LEMMA RewardHolders ==
    ASSUME NEW pk \in PoolKeys, NEW i \in Slots
    PROVE  /\ Holder(<<"reward", pk, i>>) =
                 IF pool[pk] = None THEN None ELSE pool[pk].reward_infos[i].authority
           /\ Holder(<<"reward", pk, i>>)' =
                 IF pool'[pk] = None THEN None ELSE pool'[pk].reward_infos[i].authority
BY DEF Holder

\* Where each office starts, and who appoints to it.
LEMMA Rules ==
    /\ \A c \in Configs :
          /\ First(<<"fee", c, 0>>) = <<"fee", c, 0>>
          /\ First(<<"collect", c, 0>>) = <<"collect", c, 0>>
          /\ First(<<"super", c, 0>>) = <<"super", c, 0>>
          /\ Appointers(<<"fee", c, 0>>) = {<<"fee", c, 0>>}
          /\ Appointers(<<"collect", c, 0>>) = {<<"collect", c, 0>>}
          /\ Appointers(<<"super", c, 0>>) = {<<"super", c, 0>>}
          /\ First(<<"extension", c, 0>>) = <<"fee", c, 0>>
          /\ First(<<"badge", c, 0>>) = <<"fee", c, 0>>
          /\ Appointers(<<"extension", c, 0>>) = {<<"extension", c, 0>>}
          /\ Appointers(<<"badge", c, 0>>) = {<<"extension", c, 0>>}
    /\ \A pk \in PoolKeys, i \in Slots :
          /\ First(<<"reward", pk, i>>) = <<"super", pk.pools_config, 0>>
          /\ Appointers(<<"reward", pk, i>>) =
                {<<"reward", pk, i>>, <<"super", pk.pools_config, 0>>}
BY DEF First, Appointers

\* Every office is one, and so are the one it starts from and those that appoint to it.
LEMMA OfficesExist ==
    /\ \A c \in Configs, n \in ConfigOffices : <<n, c, 0>> \in Office
    /\ \A pk \in PoolKeys, i \in Slots : <<"reward", pk, i>> \in Office
    /\ \A o \in Office : First(o) \in Office /\ Appointers(o) \subseteq Office
<1>1. \A c \in Configs, n \in ConfigOffices : <<n, c, 0>> \in Office
  BY DEF Office
<1>2. \A pk \in PoolKeys, i \in Slots : <<"reward", pk, i>> \in Office
  BY DEF Office
<1>3. \A pk \in PoolKeys : pk.pools_config \in Configs
  BY AdminAssumption DEF AdminAssumption
<1>4. ASSUME NEW o \in Office
      PROVE  First(o) \in Office /\ Appointers(o) \subseteq Office
  <2>1. ASSUME NEW c \in Configs, NEW n \in ConfigOffices, o = <<n, c, 0>>
        PROVE  First(o) \in Office /\ Appointers(o) \subseteq Office
    <3>1. \A x \in ConfigOffices : <<x, c, 0>> \in Office
      BY <1>1
    <3> QED BY <2>1, <3>1, Rules DEF ConfigOffices
  <2>2. ASSUME NEW pk \in PoolKeys, NEW i \in Slots, o = <<"reward", pk, i>>
        PROVE  First(o) \in Office /\ Appointers(o) \subseteq Office
    <3>1. <<"super", pk.pools_config, 0>> \in Office
      BY <1>1, <1>3 DEF ConfigOffices
    <3> QED BY <2>2, <3>1, <1>2, Rules
  <2> QED BY <2>1, <2>2, OfficeKinds DEF ConfigOffices
<1> QED BY <1>1, <1>2, <1>4

\* An office changes hands only when its account changes.
LEMMA OfficesKept ==
    ASSUME NEW o \in Office
    PROVE  \/ Kept(o)
           \/ \E c \in Configs :
                 /\ config'[c] # config[c]
                 /\ o \in {<<"fee", c, 0>>, <<"collect", c, 0>>, <<"super", c, 0>>}
           \/ \E c \in Configs :
                 /\ extension'[c] # extension[c]
                 /\ o \in {<<"extension", c, 0>>, <<"badge", c, 0>>}
           \/ \E pk \in PoolKeys, i \in Slots :
                 pool'[pk] # pool[pk] /\ o = <<"reward", pk, i>>
<1>1. ASSUME NEW c \in Configs, config'[c] = config[c]
      PROVE  Kept(<<"fee", c, 0>>) /\ Kept(<<"collect", c, 0>>) /\ Kept(<<"super", c, 0>>)
  BY <1>1, ConfigHolders DEF Kept
<1>2. ASSUME NEW c \in Configs, extension'[c] = extension[c]
      PROVE  Kept(<<"extension", c, 0>>) /\ Kept(<<"badge", c, 0>>)
  BY <1>2, ExtensionHolders DEF Kept
<1>3. ASSUME NEW pk \in PoolKeys, NEW i \in Slots, pool'[pk] = pool[pk]
      PROVE  Kept(<<"reward", pk, i>>)
  BY <1>3, RewardHolders DEF Kept
<1>4. ASSUME NEW c \in Configs, o \in {<<"fee", c, 0>>, <<"collect", c, 0>>, <<"super", c, 0>>}
      PROVE  Kept(o) \/ config'[c] # config[c]
  BY <1>1, <1>4
<1>5. ASSUME NEW c \in Configs, o \in {<<"extension", c, 0>>, <<"badge", c, 0>>}
      PROVE  Kept(o) \/ extension'[c] # extension[c]
  BY <1>2, <1>5
<1>6. ASSUME NEW pk \in PoolKeys, NEW i \in Slots, o = <<"reward", pk, i>>
      PROVE  Kept(o) \/ pool'[pk] # pool[pk]
  BY <1>3, <1>6
<1> QED BY <1>4, <1>5, <1>6, OfficeKinds

\* A step on one config founds its offices, or hands one of them on.
LEMMA OneConfig ==
    ASSUME NEW c \in Configs, UNCHANGED <<extension, pool>>,
           \A d \in Configs \ {c} : config'[d] = config[d],
           \/ \A n \in {"fee", "collect", "super"} :
                 Kept(<<n, c, 0>>) \/ Founded(<<n, c, 0>>)
           \/ \E n \in {"fee", "collect", "super"} :
                 /\ Holder(<<n, c, 0>>) # None /\ Holder(<<n, c, 0>>)' \in Keys
                 /\ signer' = Holder(<<n, c, 0>>)
                 /\ \A m \in {"fee", "collect", "super"} \ {n} : Kept(<<m, c, 0>>)
    PROVE  HandedOn
<1>1. ASSUME NEW o \in Office, \A n \in {"fee", "collect", "super"} : o # <<n, c, 0>>
      PROVE  Kept(o)
  BY <1>1, OfficesKept
<1>2. \A n \in {"fee", "collect", "super"} : <<n, c, 0>> \in Office
  BY OfficesExist DEF ConfigOffices
<1>3. CASE \A n \in {"fee", "collect", "super"} : Kept(<<n, c, 0>>) \/ Founded(<<n, c, 0>>)
  BY <1>1, <1>3 DEF HandedOn
<1>4. ASSUME NEW n \in {"fee", "collect", "super"},
             Holder(<<n, c, 0>>) # None, Holder(<<n, c, 0>>)' \in Keys,
             signer' = Holder(<<n, c, 0>>),
             \A m \in {"fee", "collect", "super"} \ {n} : Kept(<<m, c, 0>>)
      PROVE  Handed(<<n, c, 0>>)
  <2>1. Appointers(<<n, c, 0>>) = {<<n, c, 0>>}
    BY Rules
  <2>2. \A q \in Office \ {<<n, c, 0>>} : Kept(q)
    BY <1>1, <1>4
  <2> QED BY <1>4, <2>1, <2>2 DEF Handed
<1> QED BY <1>2, <1>3, <1>4 DEF HandedOn

\* The instructions on configs and tiers.
LEMMA ConfigStepHandsOn ==
    ASSUME TypeOK, NEW c \in Configs, NEW k \in Keys, ConfigStep(c, k)
    PROVE  HandedOn
<1> USE Constants DEF TypeOK
<1>0. UNCHANGED <<extension, pool>>
  BY ConfigStepEffect
<1>1. ASSUME NEW collect \in Keys, NEW super \in Keys, NEW rate \in ProtocolFeeRates,
             InitializeConfig(c, k, collect, super, rate)
      PROVE  HandedOn
  <2>1. /\ config[c] = None
        /\ config'[c].fee_authority = k
        /\ config'[c].collect_protocol_fees_authority = collect
        /\ config'[c].reward_emissions_super_authority = super
        /\ \A d \in Configs \ {c} : config'[d] = config[d]
    BY <1>1 DEF InitializeConfig
  <2>2. config'[c] # None
    <3>1. config'[c] = [fee_authority |-> k, collect_protocol_fees_authority |-> collect,
                        reward_emissions_super_authority |-> super,
                        default_protocol_fee_rate |-> rate]
      BY <1>1 DEF InitializeConfig
    <3>2. rate \in 0 .. MAX_PROTOCOL_FEE_RATE
      <4>1. WithinProtocolFeeCap(rate)
        BY <1>1 DEF InitializeConfig
      <4> QED BY <4>1 DEF WithinProtocolFeeCap
    <3>3. config'[c] \in PoolsConfig
      BY <3>1, <3>2 DEF PoolsConfig
    <3> QED BY <3>3
  <2>3. Founded(<<"fee", c, 0>>)
    BY <2>1, <2>2, ConfigHolders, Rules DEF Founded
  <2>4. Founded(<<"collect", c, 0>>)
    BY <2>1, <2>2, ConfigHolders, Rules DEF Founded
  <2>5. Founded(<<"super", c, 0>>)
    BY <2>1, <2>2, ConfigHolders, Rules DEF Founded
  <2> QED BY <1>0, <2>1, <2>3, <2>4, <2>5, OneConfig
<1>2. ASSUME NEW new \in Keys, SetFeeAuthority(c, k, new)
      PROVE  HandedOn
  <2>1. /\ config[c] \in PoolsConfig /\ config[c].fee_authority = k /\ signer' = k
        /\ config' = [config EXCEPT ![c].fee_authority = new]
    BY <1>2 DEF SetFeeAuthority, IsFeeAuthority
  <2>2. /\ config'[c] \in PoolsConfig
        /\ config'[c].fee_authority = new
        /\ config'[c].collect_protocol_fees_authority = config[c].collect_protocol_fees_authority
        /\ config'[c].reward_emissions_super_authority = config[c].reward_emissions_super_authority
        /\ \A d \in Configs \ {c} : config'[d] = config[d]
    BY <2>1 DEF PoolsConfig
  <2>3. /\ Holder(<<"fee", c, 0>>) = k /\ Holder(<<"fee", c, 0>>)' = new
        /\ Kept(<<"collect", c, 0>>) /\ Kept(<<"super", c, 0>>)
    BY <2>1, <2>2, ConfigHolders DEF Kept
  <2> QED BY <1>0, <2>1, <2>2, <2>3, OneConfig
<1>3. ASSUME NEW new \in Keys, SetCollectProtocolFeesAuthority(c, k, new)
      PROVE  HandedOn
  <2>1. /\ config[c] \in PoolsConfig /\ config[c].collect_protocol_fees_authority = k
        /\ config' = [config EXCEPT ![c].collect_protocol_fees_authority = new]
        /\ signer' = k
    BY <1>3 DEF SetCollectProtocolFeesAuthority
  <2>2. /\ config'[c] \in PoolsConfig
        /\ config'[c].fee_authority = config[c].fee_authority
        /\ config'[c].collect_protocol_fees_authority = new
        /\ config'[c].reward_emissions_super_authority = config[c].reward_emissions_super_authority
        /\ \A d \in Configs \ {c} : config'[d] = config[d]
    BY <2>1 DEF PoolsConfig
  <2>3. /\ Holder(<<"collect", c, 0>>) = k /\ Holder(<<"collect", c, 0>>)' = new
        /\ Kept(<<"fee", c, 0>>) /\ Kept(<<"super", c, 0>>)
    BY <2>1, <2>2, ConfigHolders DEF Kept
  <2> QED BY <1>0, <2>1, <2>2, <2>3, OneConfig
<1>4. ASSUME NEW new \in Keys, SetRewardEmissionsSuperAuthority(c, k, new)
      PROVE  HandedOn
  <2>1. /\ config[c] \in PoolsConfig /\ config[c].reward_emissions_super_authority = k
        /\ config' = [config EXCEPT ![c].reward_emissions_super_authority = new]
        /\ signer' = k
    BY <1>4 DEF SetRewardEmissionsSuperAuthority, IsSuperAuthority
  <2>2. /\ config'[c] \in PoolsConfig
        /\ config'[c].fee_authority = config[c].fee_authority
        /\ config'[c].collect_protocol_fees_authority = config[c].collect_protocol_fees_authority
        /\ config'[c].reward_emissions_super_authority = new
        /\ \A d \in Configs \ {c} : config'[d] = config[d]
    BY <2>1 DEF PoolsConfig
  <2>3. /\ Holder(<<"super", c, 0>>) = k /\ Holder(<<"super", c, 0>>)' = new
        /\ Kept(<<"fee", c, 0>>) /\ Kept(<<"collect", c, 0>>)
    BY <2>1, <2>2, ConfigHolders DEF Kept
  <2> QED BY <1>0, <2>1, <2>2, <2>3, OneConfig
<1>5. ASSUME NEW rate \in ProtocolFeeRates, SetDefaultProtocolFeeRate(c, k, rate)
      PROVE  HandedOn
  <2>1. /\ config[c] \in PoolsConfig
        /\ config' = [config EXCEPT ![c].default_protocol_fee_rate = rate]
    BY <1>5 DEF SetDefaultProtocolFeeRate, IsFeeAuthority
  <2>2. config'[c] \in PoolsConfig
    BY <1>5, <2>1 DEF SetDefaultProtocolFeeRate, WithinProtocolFeeCap, PoolsConfig
  <2>3. /\ config'[c].fee_authority = config[c].fee_authority
        /\ config'[c].collect_protocol_fees_authority = config[c].collect_protocol_fees_authority
        /\ config'[c].reward_emissions_super_authority = config[c].reward_emissions_super_authority
        /\ \A d \in Configs \ {c} : config'[d] = config[d]
    BY <2>1 DEF PoolsConfig
  <2>4. Kept(<<"fee", c, 0>>) /\ Kept(<<"collect", c, 0>>) /\ Kept(<<"super", c, 0>>)
    BY <2>1, <2>2, <2>3, ConfigHolders DEF Kept
  <2> QED BY <1>0, <2>3, <2>4, OneConfig
<1>6. ASSUME NEW t \in TierKeys, NEW rate \in FeeRates,
             InitializeFeeTier(t, k, rate) \/ SetDefaultFeeRate(c, t, k, rate)
      PROVE  HandedOn
  <2>1. UNCHANGED <<config, extension, pool>>
    BY <1>6 DEF InitializeFeeTier, SetDefaultFeeRate
  <2> QED BY <2>1, OfficesKept DEF HandedOn
<1> QED BY <1>1, <1>2, <1>3, <1>4, <1>5, <1>6 DEF ConfigStep

\* The instructions on extensions and badges.
LEMMA ExtensionStepHandsOn ==
    ASSUME TypeOK, NEW c \in Configs, NEW k \in Keys, ExtensionStep(c, k)
    PROVE  HandedOn
<1> USE Constants DEF TypeOK
<1>0. UNCHANGED <<config, pool>>
  BY ExtensionStepEffect
<1>1. CASE InitializeConfigExtension(c, k)
  <2>1. /\ extension[c] = None /\ config[c] # None /\ config[c].fee_authority = k
        /\ extension'[c] = [config_extension_authority |-> k, token_badge_authority |-> k]
        /\ \A d \in Configs \ {c} : extension'[d] = extension[d]
    BY <1>1 DEF InitializeConfigExtension, IsFeeAuthority
  <2>2. /\ extension'[c] # None
        /\ extension'[c].config_extension_authority = k
        /\ extension'[c].token_badge_authority = k
    BY <2>1 DEF PoolsConfigExtension
  <2>3. /\ Holder(<<"fee", c, 0>>) = k /\ Holder(<<"extension", c, 0>>) = None
        /\ Holder(<<"badge", c, 0>>) = None /\ Holder(<<"extension", c, 0>>)' = k
        /\ Holder(<<"badge", c, 0>>)' = k
    BY <2>1, <2>2, ConfigHolders, ExtensionHolders
  <2>4. Founded(<<"extension", c, 0>>)
    BY <2>3, Rules, ZenonT(60) DEF Founded
  <2>4a. Founded(<<"badge", c, 0>>)
    BY <2>3, Rules, ZenonT(60) DEF Founded
  <2>5. ASSUME NEW o \in Office, o # <<"extension", c, 0>>, o # <<"badge", c, 0>>
        PROVE  Kept(o)
    BY <1>0, <2>1, <2>5, OfficesKept
  <2> QED BY <2>4, <2>4a, <2>5 DEF HandedOn
<1>2. ASSUME NEW e \in Configs, NEW new \in Keys, SetConfigExtensionAuthority(c, e, k, new)
      PROVE  HandedOn
  <2>1. /\ extension[e] \in PoolsConfigExtension /\ signer' = k
        /\ extension[e].config_extension_authority = k
        /\ extension' = [extension EXCEPT ![e].config_extension_authority = new]
    BY <1>2 DEF SetConfigExtensionAuthority, IsExtensionAuthority
  <2>2. /\ extension'[e] \in PoolsConfigExtension
        /\ extension'[e].config_extension_authority = new
        /\ extension'[e].token_badge_authority = extension[e].token_badge_authority
        /\ \A d \in Configs \ {e} : extension'[d] = extension[d]
    BY <2>1 DEF PoolsConfigExtension
  <2>3. /\ Holder(<<"extension", e, 0>>) = k /\ Holder(<<"extension", e, 0>>)' = new
        /\ Kept(<<"badge", e, 0>>)
    BY <2>1, <2>2, ExtensionHolders DEF Kept
  <2>4. ASSUME NEW o \in Office, o # <<"extension", e, 0>>
        PROVE  Kept(o)
    BY <1>0, <2>2, <2>3, <2>4, OfficesKept
  <2>5. Handed(<<"extension", e, 0>>)
    BY <2>1, <2>3, <2>4, Rules DEF Handed
  <2> QED BY <2>5, OfficesExist DEF HandedOn, ConfigOffices
<1>3. ASSUME NEW e \in Configs, NEW new \in Keys, SetTokenBadgeAuthority(c, e, k, new)
      PROVE  HandedOn
  <2>1. /\ extension[e] \in PoolsConfigExtension /\ signer' = k
        /\ extension[e].config_extension_authority = k
        /\ extension' = [extension EXCEPT ![e].token_badge_authority = new]
    BY <1>3 DEF SetTokenBadgeAuthority, IsExtensionAuthority
  <2>2. /\ extension'[e] \in PoolsConfigExtension
        /\ extension'[e].config_extension_authority = extension[e].config_extension_authority
        /\ extension'[e].token_badge_authority = new
        /\ \A d \in Configs \ {e} : extension'[d] = extension[d]
    BY <2>1 DEF PoolsConfigExtension
  <2>3. /\ Holder(<<"extension", e, 0>>) = k /\ Holder(<<"badge", e, 0>>) \in Keys
        /\ Holder(<<"badge", e, 0>>)' = new /\ Kept(<<"extension", e, 0>>)
    BY <2>1, <2>2, ExtensionHolders DEF Kept, PoolsConfigExtension
  <2>4. ASSUME NEW o \in Office, o # <<"badge", e, 0>>
        PROVE  Kept(o)
    BY <1>0, <2>2, <2>3, <2>4, OfficesKept
  <2>5. Handed(<<"badge", e, 0>>)
    BY <2>1, <2>3, <2>4, Rules DEF Handed
  <2> QED BY <2>5, OfficesExist DEF HandedOn, ConfigOffices
<1>4. ASSUME NEW e \in Configs, NEW m \in Mints,
             InitializeTokenBadge(c, e, k, m) \/ DeleteTokenBadge(c, e, k, m)
      PROVE  HandedOn
  <2>1. UNCHANGED extension
    BY <1>4 DEF InitializeTokenBadge, DeleteTokenBadge
  <2> QED BY <1>0, <2>1, OfficesKept DEF HandedOn
<1> QED BY <1>1, <1>2, <1>3, <1>4 DEF ExtensionStep

\* A step on one pool founds its offices, keeps them, or hands one on.
LEMMA OnePool ==
    ASSUME NEW pk \in PoolKeys, UNCHANGED <<config, extension>>,
           \A q \in PoolKeys \ {pk} : pool'[q] = pool[q],
           \/ \A i \in Slots : Kept(<<"reward", pk, i>>) \/ Founded(<<"reward", pk, i>>)
           \/ \E i \in Slots :
                 /\ Holder(<<"reward", pk, i>>) # None /\ Holder(<<"reward", pk, i>>)' \in Keys
                 /\ signer' # None
                 /\ signer' \in {Holder(<<"reward", pk, i>>),
                                 Holder(<<"super", pk.pools_config, 0>>)}
                 /\ \A j \in Slots \ {i} : Kept(<<"reward", pk, j>>)
    PROVE  HandedOn
<1>1. ASSUME NEW o \in Office, \A i \in Slots : o # <<"reward", pk, i>>
      PROVE  Kept(o)
  BY <1>1, OfficesKept
<1>2. \A i \in Slots : <<"reward", pk, i>> \in Office
  BY OfficesExist
<1>3. CASE \A i \in Slots : Kept(<<"reward", pk, i>>) \/ Founded(<<"reward", pk, i>>)
  BY <1>1, <1>3 DEF HandedOn
<1>4. ASSUME NEW i \in Slots,
             Holder(<<"reward", pk, i>>) # None, Holder(<<"reward", pk, i>>)' \in Keys,
             signer' # None,
             signer' \in {Holder(<<"reward", pk, i>>), Holder(<<"super", pk.pools_config, 0>>)},
             \A j \in Slots \ {i} : Kept(<<"reward", pk, j>>)
      PROVE  Handed(<<"reward", pk, i>>)
  <2>1. \E a \in Appointers(<<"reward", pk, i>>) : Holder(a) # None /\ signer' = Holder(a)
    BY <1>4, Rules
  <2>2. \A q \in Office \ {<<"reward", pk, i>>} : Kept(q)
    BY <1>1, <1>4
  <2> QED BY <1>4, <2>1, <2>2 DEF Handed
<1> QED BY <1>2, <1>3, <1>4 DEF HandedOn

\* A change of a pool that is not one of its rewards' authorities.
LEMMA PoolKeepsOffices ==
    ASSUME TypeOK, NEW pk \in PoolKeys, NEW p \in Pool, Becomes(pk, p),
           \A i \in Slots : p.reward_infos[i].authority = pool[pk].reward_infos[i].authority
    PROVE  HandedOn
<1>1. pool[pk] # None /\ pool'[pk] = p /\ p # None
  BY BecomesPools
<1>2. \A i \in Slots : Kept(<<"reward", pk, i>>)
  BY <1>1, RewardHolders DEF Kept
<1>3. UNCHANGED <<config, extension>> /\ \A q \in PoolKeys \ {pk} : pool'[q] = pool[q]
  BY BecomesPools DEF Becomes
<1> QED BY <1>2, <1>3, OnePool

\* A new authority for a slot, which the slot's own or the super authority chose.
LEMMA SlotHandedOn ==
    ASSUME TypeOK, NEW pk \in PoolKeys, NEW i \in Slots, NEW new \in Keys, pool[pk] # None,
           pool' = [pool EXCEPT ![pk].reward_infos[i].authority = new],
           UNCHANGED <<config, extension>>, signer' # None,
           signer' \in {pool[pk].reward_infos[i].authority,
                        Holder(<<"super", pk.pools_config, 0>>)}
    PROVE  HandedOn
<1> DEFINE infos == [pool[pk].reward_infos EXCEPT ![i].authority = new]
<1>1. /\ pool[pk] \in Pool /\ pool'[pk] = [pool[pk] EXCEPT !.reward_infos = infos]
      /\ \A q \in PoolKeys \ {pk} : pool'[q] = pool[q]
  BY DEF TypeOK
<1>2. pool'[pk].reward_infos = infos
  BY <1>1 DEF Pool
<1>3. /\ infos[i].authority = new
      /\ \A j \in Slots \ {i} : infos[j] = pool[pk].reward_infos[j]
      /\ pool[pk].reward_infos[i].authority \in Keys
      /\ [pool[pk].reward_infos[i] EXCEPT !.authority = new] \in PoolRewardInfo
  BY <1>1 DEF Pool, PoolRewardInfo
<1>4. pool'[pk] # None
  <2>1. infos = [pool[pk].reward_infos EXCEPT
                    ![i] = [pool[pk].reward_infos[i] EXCEPT !.authority = new]]
    OBVIOUS
  <2>2. pool'[pk] \in Pool
    BY <1>1, <1>3, <2>1, SlotChangeType
  <2> QED BY <2>2, Constants
<1> HIDE DEF infos
<1>5. \A j \in Slots \ {i} : Kept(<<"reward", pk, j>>)
  BY <1>2, <1>3, <1>4, RewardHolders DEF Kept
<1>6. /\ Holder(<<"reward", pk, i>>) = pool[pk].reward_infos[i].authority
      /\ Holder(<<"reward", pk, i>>)' = new
  BY <1>2, <1>3, <1>4, RewardHolders
<1> QED BY <1>1, <1>3, <1>5, <1>6, OnePool, Constants

\* The instructions of a config's authorities on a pool.
LEMMA PoolStepHandsOn ==
    ASSUME TypeOK, NEW c \in Configs, NEW pk \in PoolKeys, NEW k \in Keys, PoolStep(c, pk, k)
    PROVE  HandedOn
<1>1. PICK p \in Pool : Becomes(pk, p)
  BY PoolStepEffect
<1>2. pool[pk] \in Pool /\ pool'[pk] = p
  BY <1>1, BecomesPools DEF TypeOK
<1>3. ASSUME NEW rate \in FeeRates, SetFeeRate(c, pk, k, rate)
      PROVE  pool'[pk].reward_infos = pool[pk].reward_infos
  BY <1>2, <1>3 DEF SetFeeRate, TypeOK, Pool
<1>4. ASSUME NEW rate \in ProtocolFeeRates, SetProtocolFeeRate(c, pk, k, rate)
      PROVE  pool'[pk].reward_infos = pool[pk].reward_infos
  BY <1>2, <1>4 DEF SetProtocolFeeRate, TypeOK, Pool
<1>5. ASSUME CollectProtocolFees(c, pk, k)
      PROVE  pool'[pk].reward_infos = pool[pk].reward_infos
  BY <1>2, <1>5 DEF CollectProtocolFees, TypeOK, Pool
<1>6. ASSUME NEW i \in 0 .. NUM_REWARDS, NEW new \in Keys,
             SetRewardAuthorityBySuperAuthority(c, pk, i, k, new)
      PROVE  HandedOn
  <2>1. /\ i \in Slots /\ pk.pools_config = c /\ config[c] # None
        /\ config[c].reward_emissions_super_authority = k /\ signer' = k
        /\ pool' = [pool EXCEPT ![pk].reward_infos[i].authority = new]
        /\ UNCHANGED <<config, extension>> /\ pool[pk] # None
    BY <1>6, Constants DEF SetRewardAuthorityBySuperAuthority, HasOne, IsSuperAuthority, Slots
  <2>2. Holder(<<"super", pk.pools_config, 0>>) = k
    BY <2>1, ConfigHolders
  <2> QED BY <2>1, <2>2, SlotHandedOn, Constants
<1>7. pool'[pk].reward_infos = pool[pk].reward_infos => HandedOn
  BY <1>1, <1>2, PoolKeepsOffices
<1> QED BY <1>3, <1>4, <1>5, <1>6, <1>7 DEF PoolStep

\* The instructions on rewards.
LEMMA RewardStepHandsOn ==
    ASSUME TypeOK, NEW pk \in PoolKeys, NEW k \in Keys, RewardStep(pk, k)
    PROVE  HandedOn
<1> PICK i \in 0 .. NUM_REWARDS :
       \/ \E m \in Mints : InitializeReward(pk, i, k, m)
       \/ \E emitting \in BOOLEAN : SetRewardEmissions(pk, i, k, emitting)
       \/ \E new \in Keys : SetRewardAuthority(pk, i, k, new)
  BY DEF RewardStep
<1>1. /\ i \in Slots /\ pool[pk] \in Pool /\ pool[pk] # None /\ signer' = k
      /\ pool[pk].reward_infos[i].authority = k
      /\ UNCHANGED <<config, extension>>
  BY Constants DEF InitializeReward, SetRewardEmissions, SetRewardAuthority,
                   IsRewardAuthority, Slots, TypeOK
<1>2. ASSUME NEW m \in Mints, InitializeReward(pk, i, k, m)
      PROVE  HandedOn
  <2> DEFINE info == [pool[pk].reward_infos[i] EXCEPT !.mint = m]
             p == [pool[pk] EXCEPT !.reward_infos = [@ EXCEPT ![i] = info]]
  <2>1. info \in PoolRewardInfo /\ info.authority = k
    BY <1>1 DEF Pool, PoolRewardInfo
  <2>2. pool' = [pool EXCEPT ![pk] = p]
    BY <1>2 DEF InitializeReward
  <2> HIDE DEF info
  <2>3. p \in Pool
    BY <1>1, <2>1, SlotChangeType
  <2>4. \A j \in Slots : p.reward_infos[j].authority = pool[pk].reward_infos[j].authority
    BY <1>1, <2>1 DEF Pool
  <2> HIDE DEF p
  <2>5. Becomes(pk, p)
    BY <1>1, <1>2, <2>2, <2>3 DEF Becomes, InitializeReward
  <2> QED BY <2>3, <2>4, <2>5, PoolKeepsOffices
<1>3. ASSUME NEW emitting \in BOOLEAN, SetRewardEmissions(pk, i, k, emitting)
      PROVE  HandedOn
  <2> DEFINE info == [pool[pk].reward_infos[i] EXCEPT !.emitting = emitting]
             p == [pool[pk] EXCEPT !.reward_infos = [@ EXCEPT ![i] = info]]
  <2>1. info \in PoolRewardInfo /\ info.authority = k
    BY <1>1 DEF Pool, PoolRewardInfo
  <2>2. pool' = [pool EXCEPT ![pk] = p]
    BY <1>3 DEF SetRewardEmissions
  <2> HIDE DEF info
  <2>3. p \in Pool
    BY <1>1, <2>1, SlotChangeType
  <2>4. \A j \in Slots : p.reward_infos[j].authority = pool[pk].reward_infos[j].authority
    BY <1>1, <2>1 DEF Pool
  <2> HIDE DEF p
  <2>5. Becomes(pk, p)
    BY <1>1, <1>3, <2>2, <2>3 DEF Becomes, SetRewardEmissions
  <2> QED BY <2>3, <2>4, <2>5, PoolKeepsOffices
<1>4. ASSUME NEW new \in Keys, SetRewardAuthority(pk, i, k, new)
      PROVE  HandedOn
  <2>1. pool' = [pool EXCEPT ![pk].reward_infos[i].authority = new]
    BY <1>4 DEF SetRewardAuthority
  <2> QED BY <1>1, <2>1, SlotHandedOn, Constants
<1> QED BY <1>2, <1>3, <1>4

\* A pool that is created has the super authority of its config in every slot.
LEMMA InitializePoolHandsOn ==
    ASSUME TypeOK, NEW pk \in PoolKeys, InitializePool(pk)
    PROVE  HandedOn
<1> DEFINE c == pk.pools_config
           super == config[c].reward_emissions_super_authority
<1>1. PICK p \in Pool :
         /\ pool' = [pool EXCEPT ![pk] = p]
         /\ \A i \in Slots : p.reward_infos[i] =
               [authority |-> super, mint |-> None, emitting |-> FALSE]
  BY InitializePoolEffect
<1>2. /\ pool[pk] = None /\ config[c] # None /\ c \in Configs
      /\ UNCHANGED <<config, extension>>
  BY AdminAssumption DEF AdminAssumption, InitializePool
<1>3. super \in Keys
  BY <1>2 DEF TypeOK, PoolsConfig
<1>4. pool'[pk] = p /\ p # None /\ \A q \in PoolKeys \ {pk} : pool'[q] = pool[q]
  BY <1>1, Constants DEF TypeOK
<1>5. Holder(<<"super", c, 0>>) = super
  BY <1>2, ConfigHolders
<1>6. ASSUME NEW i \in Slots
      PROVE  Founded(<<"reward", pk, i>>)
  <2>1. Holder(<<"reward", pk, i>>) = None /\ Holder(<<"reward", pk, i>>)' = super
    BY <1>1, <1>2, <1>4, RewardHolders
  <2>2. First(<<"reward", pk, i>>) = <<"super", c, 0>>
    BY Rules
  <2>3. <<"super", c, 0>> # <<"reward", pk, i>>
    OBVIOUS
  <2> HIDE DEF c, super
  <2> QED BY <1>3, <1>5, <2>1, <2>2, <2>3, Constants DEF Founded
<1> QED BY <1>2, <1>4, <1>6, OnePool

\* A swap hands on no authority.
LEMMA SwapHandsOn ==
    ASSUME TypeOK, NEW pk \in PoolKeys, Swap(pk)
    PROVE  HandedOn
<1>1. PICK p \in Pool : Becomes(pk, p)
  BY SwapEffect
<1>2. pool[pk] \in Pool /\ pool'[pk] = p
  BY <1>1, BecomesPools DEF TypeOK
<1>3. pool'[pk].reward_infos = pool[pk].reward_infos
  BY <1>2 DEF Swap, TypeOK, Pool
<1> QED BY <1>1, <1>2, <1>3, PoolKeepsOffices

\* Office by office, every step founds or hands on.
LEMMA StepHandsOn == TypeOK /\ [Next]_vars => HandedOn
<1> SUFFICES ASSUME TypeOK, [Next]_vars
             PROVE  HandedOn
  OBVIOUS
<1>1. UNCHANGED <<config, extension, pool>> => HandedOn
  BY OfficesKept DEF HandedOn
<1>2. CASE UNCHANGED vars
  BY <1>1, <1>2 DEF vars
<1>3. ASSUME NEW pk \in PoolKeys, InitializePoolTokens(pk)
      PROVE  HandedOn
  BY <1>1, <1>3 DEF InitializePoolTokens
<1>4. CASE Next
  BY <1>3, <1>4, Steps, ConfigStepHandsOn, ExtensionStepHandsOn, PoolStepHandsOn,
     RewardStepHandsOn, InitializePoolHandsOn, SwapHandsOn
<1> QED BY <1>2, <1>4

\* Every authority is handed on as Delegation says.
THEOREM ImplementsDelegationAlways == Spec => ImplementsDelegation
<1> DEFINE h == [o \in Office |-> Holder(o)]
<1>1. Init => Offices!Init
  <2> SUFFICES ASSUME Init, NEW o \in Office
               PROVE  Holder(o) = None
    BY DEF Offices!Init
  <2>1. ASSUME NEW c \in Configs,
               \/ o \in {<<"fee", c, 0>>, <<"collect", c, 0>>, <<"super", c, 0>>}
               \/ o \in {<<"extension", c, 0>>, <<"badge", c, 0>>}
        PROVE  Holder(o) = None
    <3>1. config[c] = None /\ extension[c] = None
      BY DEF Init
    <3> QED BY <2>1, <3>1, ConfigHolders, ExtensionHolders
  <2>2. ASSUME NEW pk \in PoolKeys, NEW i \in Slots, o = <<"reward", pk, i>>
        PROVE  Holder(o) = None
    <3>1. pool[pk] = None
      BY DEF Init
    <3> QED BY <2>2, <3>1, RewardHolders
  <2> QED BY <2>1, <2>2, OfficeKinds
<1>2. HandedOn => Offices!Next
  <2> SUFFICES ASSUME HandedOn
               PROVE  Offices!Next
    OBVIOUS
  <2>1. \A o \in Office : h[o] = Holder(o) /\ h'[o] = Holder(o)'
    OBVIOUS
  <2>2. DOMAIN h' = Office
    OBVIOUS
  <2>3. ASSUME NEW o \in Office, Handed(o)
        PROVE  Offices!Appoint(o)
    BY <2>1, <2>3, OfficesExist DEF Handed, Kept, Offices!Appoint, Offices!Vacant
  <2>4. ASSUME NEW o \in Office, Founded(o)
        PROVE  Offices!Found(o)
    BY <2>1, <2>4, OfficesExist DEF Founded, Offices!Found, Offices!Vacant
  <2> QED BY <2>1, <2>2, <2>3, <2>4 DEF HandedOn, Kept, Offices!Next
<1>3. TypeOK /\ [Next]_vars => Offices!Next
  BY <1>2, StepHandsOn
<1> QED BY <1>1, <1>3, TypeCorrect, PTL DEF Spec, ImplementsDelegation, Offices!Spec

----------------------------------------------------------------------------
(* The SDK's copy of the test for supported mints.                         *)

\* Looking at the extensions one by one comes to the same as comparing the sets.
LEMMA ExtensionsOneByOne ==
    ASSUME NEW m \in Mints, NEW b \in BOOLEAN
    PROVE  (\A e \in MintInfo[m].extensions : SupportedExtension(MintInfo[m], e, b))
               <=> /\ MintInfo[m].extensions
                          \subseteq PlainExtensions \cup (IF b THEN BadgeExtensions ELSE {})
                   /\ "DefaultAccountState" \in MintInfo[m].extensions
                          => ~MintInfo[m].frozen_by_default
<1> DEFINE info == MintInfo[m]
<1>1. info.extensions \subseteq Extensions
  BY AdminAssumption DEF AdminAssumption
<1>2. ASSUME NEW e \in Extensions
      PROVE  SupportedExtension(info, e, b)
                <=> /\ e \in PlainExtensions \cup (IF b THEN BadgeExtensions ELSE {})
                    /\ e = "DefaultAccountState" => ~info.frozen_by_default
  BY <1>2 DEF SupportedExtension, Extensions, PlainExtensions, BadgeExtensions
<1> HIDE DEF info
<1>3. (\A e \in info.extensions : SupportedExtension(info, e, b))
         <=> /\ info.extensions \subseteq PlainExtensions \cup (IF b THEN BadgeExtensions ELSE {})
             /\ "DefaultAccountState" \in info.extensions => ~info.frozen_by_default
  BY <1>1, <1>2
<1> QED BY <1>3 DEF info

\* Whatever is written in the mints, a client is told what the program would decide
\* (PoolUtil.isSupportedToken and is_supported_token).
THEOREM SdkAgreesOnSupportAlways == Spec => []SdkAgreesOnSupport
<1>1. ASSUME NEW c \in Configs, NEW m \in Mints
      PROVE  isSupportedToken(MintInfo[m], <<c, m>> \in token_badge) = IsSupported(c, m)
  <2> DEFINE b == <<c, m>> \in token_badge
  <2>1. b \in BOOLEAN
    OBVIOUS
  <2>2. isSupportedToken(MintInfo[m], b) <=> IsSupportedTokenMint(m, b)
    <3> HIDE DEF b
    <3> QED BY <2>1, ExtensionsOneByOne DEF isSupportedToken, IsSupportedTokenMint
  <2>3. isSupportedToken(MintInfo[m], b) = IsSupportedTokenMint(m, b)
    BY <2>2 DEF isSupportedToken, IsSupportedTokenMint
  <2> QED BY <2>3 DEF IsSupported, IsTokenBadgeInitialized
<1>2. SdkAgreesOnSupport
  BY <1>1, Zenon DEF SdkAgreesOnSupport
<1> QED BY <1>2, PTL

=============================================================================
