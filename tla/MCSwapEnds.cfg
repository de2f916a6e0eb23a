CONSTANTS
    Q64 = 256
    MIN_TICK_INDEX <- MCMinTick
    MAX_TICK_INDEX = 3
    SqrtPrice <- MCSqrtPrice
    FEE_RATE_MUL_VALUE = 100
    PROTOCOL_FEE_RATE_MUL_VALUE = 4
    MAX_FEE_BASIS_POINTS = 10
    MAX_FEE_RATE = 30
    MAX_PROTOCOL_FEE_RATE = 2
    TickSpacing = 2
    TICK_ARRAY_SIZE = 2
    NumPositions = 2
    DAY_IN_SECONDS = 2
    Supply = 200
    StartTime = 3
    InitialPrices <- AtTickZero
    InitialFeeRate = 10
    InitialProtocolFeeRate = 1
    RewardSlots <- NoRewards
    PositionRanges <- RangesTried
    LiquidityAmounts = {256}
    SwapArgs <- LiquiditySwaps
    FeeRates = {}
    ProtocolFeeRates = {}
    Emissions = {}
    Fundings = {}
    Budgets <- EndingBudgets
SPECIFICATION FairSpec
PROPERTIES
    SwapTerminates
CHECK_DEADLOCK FALSE
