CONSTANTS
    A = A
    B = B
    i1 = i1
    i2 = i2
    USDC = USDC
    Mint <- TwoMints
    Baskets <- OnePair
    Freezable <- FreezeAandUsdc
    Investor <- OneInvestor
    Amounts <- OneAmount
    ShareCounts <- NoShares
    Tvls <- OneValuation
    Residues <- OnlyResidue
    Leftovers <- NoLeftover
    SwapBatch = 2
    SweepBatch = 1
    RestructureShort = 0
    RestructureLong = 0
    DepositTimeout = 0
    ForceTimeout = 0
    MaxAge = 1
    MinInitialShares = 2
    SameSecond = FALSE
SPECIFICATION FairSpec
INVARIANTS CommittedExact CommittedNeverTurnsBack
PROPERTIES ReleaseOnlyIfStuck CommittedResolves
