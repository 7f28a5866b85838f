CONSTANTS
    a1 = a1 a2 = a2 b1 = b1 s1 = s1
    Traders = {"A", "B"}
    Stranger = "S"
    Assets = {"xcc", "cat"}
    CoinOwner <- MCCoinOwner
    CoinAsset <- MCCoinAsset
    CoinValue <- MCCoinValue
    GiveAmounts = {1, 2}
    WantAmounts = {1}
    MaxTrades = 2
    MaxCancels = 1
    MaxFaults = 1
    Pools = {"p"}
    LockOf <- MCLockOf
    MINIMUM_RELATIVE_LOCK_HEIGHT = 0
    max_spends_in_tx = 4
    StartStates <- MCStarts
    MaxHeight = 5
    MaxAhead = 1
    MaxDepth = 2
    RewardHeights = {2}
    MaxAsks = 2
    MaxReorgs = 1
    MaxPoolFaults = 1
SPECIFICATION FundsSpec
SYMMETRY CoinSymmetry
INVARIANT OffersSettle
 
PROPERTY SubmittedIsValid
CHECK_DEADLOCK FALSE
