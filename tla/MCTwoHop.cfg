CONSTANTS
    Q64 = 256
    MIN_TICK_INDEX <- MCMinTick
    MAX_TICK_INDEX = 3
    SqrtPrice <- MCSqrtPrice
    FEE_RATE_MUL_VALUE = 100
    PROTOCOL_FEE_RATE_MUL_VALUE = 4
    TickSpacing = 2
    TICK_ARRAY_SIZE = 2
    RewardSlots <- NoRewards
    MAX_FEE_BASIS_POINTS = 10
    Pool = {1, 2}
    Mint = {"x", "m", "y"}
    MintOf <- ChainMints
    Token2022Sets <- MCToken2022Sets
    PositionRange <- Ranges
    InitialPrice = 256
    InitialFeeRate = 10
    InitialProtocolFeeRate = 1
    Funds = 200
    LiquidityAmounts = {256}
    Trades <- MCTrades
    FeesSet <- MCFees
    Budget <- MCBudget
SPECIFICATION Spec
INVARIANTS
    Solvent
PROPERTIES
    IntermediateConsumed
    TradeIsAsAsked
    IntermediateNotSpent
CHECK_DEADLOCK FALSE
