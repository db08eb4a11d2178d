CONSTANTS
    i1 = i1
    i2 = i2
    Investor <- TwoInvestors
    Payments <- OnePayment
    Burns <- JustOne
    Losses <- LossOfOne
    Vaults <- LedgerVaults
    TvlCap = 10
    EntryFeeBps = 5000
    EntryFeeCap = 1
    EntryFeeExemptBelow = 3
    PerfFeeBps = 5000
    ProtocolCutBps = 5000
    MaxSlippageBps = 5000
    LowWord = 2
    HighWord = 16
    MinInitialShares = 1
    Idles <- AllIn
    MaxSessions = 3
SPECIFICATION Spec
SYMMETRY Interchangeable
INVARIANTS LedgerTypeOK SupplyExact CostBasisExact CountersExact
CHECK_DEADLOCK FALSE
PROPERTIES NoDilution SeededForever AggregateCapped
