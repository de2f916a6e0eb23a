CONSTANTS
    Q64 = 256
    MIN_TICK_INDEX <- MCMinTick
    MAX_TICK_INDEX = 3
    SqrtPrice <- QuotedSqrtPrice
    FEE_RATE_MUL_VALUE = 100
    PROTOCOL_FEE_RATE_MUL_VALUE = 4
    MAX_FEE_BASIS_POINTS = 10
    MAX_FEE_RATE = 30
    MAX_PROTOCOL_FEE_RATE = 2
    TickSpacing = 2
    TICK_ARRAY_SIZE = 2
    NumPositions = 2
    DAY_IN_SECONDS = 2
    Supply = 250
    StartTime = 3
    InitialPrices <- BelowTickZero
    InitialFeeRate = 10
    InitialProtocolFeeRate = 1
    RewardSlots <- NoRewards
    PositionRanges <- QuotedRanges
    LiquidityAmounts = {128}
    SwapArgs <- OthersSwaps
    FeeRates = {}
    ProtocolFeeRates = {}
    Emissions = {}
    Fundings = {}
    Budgets <- QuotedBudgets
    TradeAmounts = {2, 50}
    DepositAmounts = {7}
    Slippages <- MCSlippages
SPECIFICATION ClientSpec
INVARIANTS
    DepositSuffices
PROPERTIES
    FreshSwapIsAccepted
    FreshQuoteFromAToBIsExact
    FreshQuoteFailsOnlyMisrounded
    ExactOutputCostsAsQuoted
    LiquidityQuoteHoldsWithinSlippage
CHECK_DEADLOCK FALSE
