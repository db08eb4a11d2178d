CONSTANTS
    A = A
    B = B
    C = C
    i1 = i1
    i2 = i2
    USDC = USDC
    Mint <- ThreeMints
    Baskets <- PairAndOne
    Freezable <- Nothing
    Investor <- OneInvestor
    Leftovers <- AnyLeftover
    MaxPosition = 1
    SwapBatch = 2
    SweepBatch = 1
    ShareCounts <- NoMark
    Tvls <- NoMark
    RestructureShort = 0
    RestructureLong = 0
    UnwindTimeout = 0
    InKindTimeout = 0
    OrphanTimeout = 0
    MinInitialShares = 2
    SameSecond = FALSE
    MaxAge = 1
SPECIFICATION Spec
INVARIANTS TypeOK ExtractedNeverUnwinds
PROPERTIES IsExitChoice ReturnsAsAssumed
