CONSTANTS
    A = A
    B = B
    i1 = i1
    i2 = i2
    USDC = USDC
    Mint <- OneMint
    Baskets <- OneBasket
    Freezable <- Nothing
    Investor <- TwoInvestors
    Amounts <- OneAmount
    ShareCounts <- NoShares
    Tvls <- OneValuation
    Residues <- NoResidue
    Leftovers <- NoLeftover
    SwapBatch = 1
    SweepBatch = 1
    RestructureShort = 0
    RestructureLong = 0
    DepositTimeout = 0
    ForceTimeout = 1
    MaxAge = 2
    MinInitialShares = 2
    SameSecond = TRUE
SPECIFICATION FairSpec
PROPERTIES AbandonedCleared RestructureEnds
