CONSTANTS
    A = A
    B = B
    C = C
    i1 = i1
    i2 = i2
    USDC = USDC
    Mint <- OneMint
    Baskets <- OneBasket
    Freezable <- Nothing
    Investor <- TwoInvestors
    Leftovers <- AnyLeftover
    MaxPosition = 2
    SwapBatch = 1
    SweepBatch = 1
    ShareCounts <- NoMark
    Tvls <- NoMark
    RestructureShort = 0
    RestructureLong = 0
    UnwindTimeout = 0
    InKindTimeout = 0
    OrphanTimeout = 1
    MinInitialShares = 2
    SameSecond = FALSE
    MaxAge = 2
SPECIFICATION Spec
SYMMETRY Interchangeable
INVARIANTS BurnedExact
PROPERTIES NothingLeftBehind
