CONSTANTS
    A = A
    B = B
    i1 = i1
    USDC = USDC
    Mint <- TwoMints
    Baskets <- SwapBaskets
    Freezable <- Nothing
    Investor <- OneInvestor
    Amounts <- OneAmount
    ShareCounts <- OneShare
    Tvls <- OneValuation
    Residues <- NoResidue
    Leftovers <- AnyLeftover
    SameSecond = TRUE
    SwapBatch = 2
    SweepBatch = 1
    MaxPosition = 1
    RestructureShort = 0
    RestructureLong = 0
    DepositTimeout = 0
    ForceTimeout = 0
    UnwindTimeout = 0
    InKindTimeout = 0
    OrphanTimeout = 0
    MaxAge = 1
    MinInitialShares = 1
SPECIFICATION WagonSpec
SYMMETRY Interchangeable
INVARIANTS OffTableIsFlagged ManifestCovers UntiedLandsOnTable SessionMatchesStatus ClosedOwesNobody
PROPERTIES IsEntryControl IsExitControl EntrySeesAllValue
