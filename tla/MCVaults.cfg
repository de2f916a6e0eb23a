SPECIFICATION FairSpec
CONSTANTS
    c1 = c1
    c2 = c2
    Configs = {c1}
    Keys = {k1}
    Mints = {1, 4, 5}
    MintInfo <- MCMintInfo
    TickSpacings = {1}
    TierKeys <- TierOfC1
    PoolKeys <- OneToken2022Pool
    FeeRates = {1, 2}
    ProtocolFeeRates = {1, 2}
    MAX_FEE_RATE = 1
    MAX_PROTOCOL_FEE_RATE = 1
    NUM_REWARDS = 1
    ExtendedConfigs = {}
    None = None
PROPERTIES
    VaultsFollow
