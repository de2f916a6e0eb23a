SPECIFICATION Spec
CONSTANTS
    c1 = c1
    c2 = c2
    Configs = {c1, c2}
    Keys = {k1, k2}
    Mints = {1, 5}
    MintInfo <- MCMintInfo
    TickSpacings = {1}
    TierKeys <- TierOfC1
    PoolKeys <- OneOrdinaryPool
    FeeRates = {0, 1, 2}
    ProtocolFeeRates = {0, 1, 2}
    MAX_FEE_RATE = 1
    MAX_PROTOCOL_FEE_RATE = 1
    NUM_REWARDS = 1
    ExtendedConfigs = {}
    None = None
SYMMETRY KeySymmetry
INVARIANTS
    TypeOK
PROPERTIES
    ChangesAreSigned
    ImplementsDelegation
