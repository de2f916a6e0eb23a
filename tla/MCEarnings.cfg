CONSTANTS
    Q64 = 256
    MIN_TICK_INDEX <- MCMinTick
    MAX_TICK_INDEX = 3
    SqrtPrice <- MCSqrtPrice
    FEE_RATE_MUL_VALUE = 100
    PROTOCOL_FEE_RATE_MUL_VALUE = 4
    MAX_FEE_BASIS_POINTS = 10
    MAX_FEE_RATE = 30
    MAX_PROTOCOL_FEE_RATE = 2
    TickSpacing = 2
    TICK_ARRAY_SIZE = 2
    NumPositions = 2
    DAY_IN_SECONDS = 2
    Supply = 200
    StartTime = 3
    InitialPrices <- AtTickZero
    InitialFeeRate = 10
    InitialProtocolFeeRate = 1
    RewardSlots <- TwoRewards
    PositionRanges <- NestedRanges
    LiquidityAmounts = {256}
    SwapArgs <- EarningSwaps
    FeeRates = {0, 30, 31}
    ProtocolFeeRates = {0, 2, 3}
    Emissions = {0, 2600}
    Fundings = {20}
    Budgets <- EarningBudgets
SPECIFICATION Spec
INVARIANTS
    Solvent
    RewardsNotOverdistributed
    FeeQuoteForetells
    RewardQuoteForetells
PROPERTIES
    EarnsOnlyWhereTraded
    RewardsSettledBeforeChange
CHECK_DEADLOCK FALSE
