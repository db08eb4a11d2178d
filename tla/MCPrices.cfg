CONSTANTS
    SOL = SOL
    A = A
    f1 = f1
    f2 = f2
    Zero = Zero
    Scrap = Scrap
    Mint <- TwoMints
    Feed <- TwoFeeds
    Sol <- SOL
    Baskets <- AllBaskets
    MaxTokens = 2
    InitialCapacity = 1
    HardCap = 2
    Extensions <- ByOne
SPECIFICATION Spec
SYMMETRY InterchangeableFeeds
INVARIANTS RegistryTypeOK BookTypeOK CachesBelong
PROPERTIES IsFeedMap
