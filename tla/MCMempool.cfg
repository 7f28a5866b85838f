CONSTANTS
    g = g
    a1 = a1
    a2 = a2
    b1 = b1
    b2 = b2
    c1 = c1
    c2 = c2
    c3 = c3
    d1 = d1
    x1 = x1
    x2 = x2
    x3 = x3
    x4 = x4
    x5 = x5
    NoBlock = NoBlock
    Block <- MCBlock
    Parent <- MCParent
    Height <- MCHeight
    Weight <- MCWeight
    Anc <- MCAnc
    IsTx <- MCIsTx
    Coin <- MCCoin
    Spends <- MCSpends
    Creates <- MCCreates
    Claims <- MCClaims
    Tx <- MCTx
    Removals <- MCRemovals
    Additions <- MCAdditions
    Cost <- MCCost
    Fee <- MCFee
    HeightLock <- MCHeightLock
    SecondsLock <- MCSecondsLock
    HeightRelative <- MCHeightRelative
    MaxCost = 4
    PendingCost = 3
    BlockCost = 2
    MinRate = 1
    MinIncrease = 1
    SeenSize = 2
    MaxChecking = 2
SPECIFICATION Spec
INVARIANT PoolIsUsable
PROPERTY OnlyLeavesForBetter
CHECK_DEADLOCK FALSE
