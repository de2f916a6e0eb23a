CONSTANTS
    Q64 = 128
    MIN_TICK_INDEX = 0
    MAX_TICK_INDEX = 1
    SqrtPrice <- MCSqrtPrice
    FEE_RATE_MUL_VALUE = 100
    PROTOCOL_FEE_RATE_MUL_VALUE = 4
    MAX_FEE_BASIS_POINTS = 20
    BasisPoints = {0, 1, 3, 10, 13, 19, 20}
    Maxima = {0, 1, 2, 5, 30, 127}
SPECIFICATION AlgSpec
INVARIANTS
    IncludedIsLeast
    SdkAgrees
    BuildersFitProgram
    RoutesAreBest
    RouteDelivers
CHECK_DEADLOCK FALSE
