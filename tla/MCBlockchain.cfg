CONSTANTS
    g = g
    a1 = a1
    a2 = a2
    a3 = a3
    a4 = a4
    x4 = x4
    b1 = b1
    b2 = b2
    b3 = b3
    y3 = y3
    z4 = z4
    c3 = c3
    h = h
    h1 = h1
    NoBlock = NoBlock
    Block <- MCBlock
    Parent <- MCParent
    Height <- MCHeight
    Weight <- MCWeight
    Anc <- MCAnc
    Coin <- MCCoin
    Spends <- MCSpends
    Creates <- MCCreates
    Claims <- MCClaims
    IsTx <- MCIsTx
    WellFormed <- MCWellFormed
    Rewards <- MCRewards
    Amount <- MCAmount
    CacheSize = 3
    MaxRestarts = 2
SPECIFICATION Spec
INVARIANT DatabaseMatchesPeak
INVARIANT MemoryConsistent
INVARIANT ValidationIsExact
INVARIANT CoinsConserved
PROPERTY PeakWeightGrows
PROPERTY ImplementsLedger
