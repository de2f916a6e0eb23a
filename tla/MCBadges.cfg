SPECIFICATION Spec
CONSTANTS
    c1 = c1
    c2 = c2
    Configs = {c1, c2}
    Keys = {k1}
    Mints = {1, 2, 3, 6, 7}
    MintInfo <- MCMintInfo
    TickSpacings = {1}
    TierKeys <- TierOfC1
    PoolKeys <- BadgedAndSwapped
    FeeRates = {1, 2}
    ProtocolFeeRates = {0, 1, 2}
    MAX_FEE_RATE = 1
    MAX_PROTOCOL_FEE_RATE = 1
    NUM_REWARDS = 2
    ExtendedConfigs = {c1, c2}
    None = None
INVARIANTS
    Rooted
    RewardsInOrder
    MintsWereVetted
    SdkAgreesOnSupport
