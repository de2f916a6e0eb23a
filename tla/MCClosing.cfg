CONSTANTS
    Pools = {"P"}
    Mints = {"A", "C", "SOL"}
    Native = "SOL"
    TokensOf <- MCTokensOf
    RewardMintsOf <- MCRewardMintsOf
    ArraysOf <- MCArraysOf
    PoolOf <- MCPoolOf
    MaxTxSize = 7
    StartAtas = {{}, {"A"}}
    StartSlots = {1}
    MaxRequests = 1
    MaxOthers = 1
    Opened = {"p1", "p2"}
SPECIFICATION Spec
INVARIANTS
    ClosingAlwaysSucceeds
