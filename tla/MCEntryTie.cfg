CONSTANTS
    A = A
    B = B
    i1 = i1
    i2 = i2
    USDC = USDC
    Mint <- TwoMints
    Baskets <- SwapBaskets
    Freezable <- Nothing
    Investor <- OneInvestor
    Amounts <- OneAmount
    ShareCounts <- NoShares
    Tvls <- OneValuation
    Residues <- NoResidue
    Leftovers <- NoLeftover
    SwapBatch = 2
    SweepBatch = 1
    RestructureShort = 0
    RestructureLong = 1
    DepositTimeout = 0
    ForceTimeout = 1
    MaxAge = 2
    MinInitialShares = 2
    SameSecond = TRUE
SPECIFICATION Spec
INVARIANTS LandsOnTable
