CONSTANTS
    A = A
    B = B
    i1 = i1
    i2 = i2
    USDC = USDC
    Mint <- OneMint
    Baskets <- TwoBaskets
    Freezable <- Nothing
    ShareCounts <- Shares
    Tvls <- Valuations
    Leftovers <- NoLeftover
    SwapBatch = 1
    RestructureShort = 0
    RestructureLong = 1
    MaxAge = 2
    Investor <- TwoInvestors
    Amounts <- OneAmount
    MinInitialShares = 2
    SweepBatch = 1
    DepositTimeout = 0
    ForceTimeout = 1
    Residues <- NoResidue
    SameSecond = TRUE
SPECIFICATION Spec
SYMMETRY Interchangeable
INVARIANTS TypeOK CommittedExact CommittedNeverTurnsBack ReservationCoversMint
PROPERTIES IsCommitLock
