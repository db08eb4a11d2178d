CONSTANTS
    A = A
    B = B
    i1 = i1
    USDC = USDC
    Mint <- TwoMints
    Baskets <- JustPair
    Freezable <- FreezeA
    Investor <- OneInvestor
    Leftovers <- AnyLeftover
    MaxPosition = 1
    SwapBatch = 1
    SweepBatch = 1
    ShareCounts <- NoMark
    Tvls <- NoMark
    RestructureShort = 0
    RestructureLong = 0
    UnwindTimeout = 0
    InKindTimeout = 0
    OrphanTimeout = 1
    MinInitialShares = 2
    SameSecond = FALSE
    MaxAge = 2
SPECIFICATION OpenSpec
PROPERTIES ExitAlwaysOpen PaidInTheEnd OrphanCleared
