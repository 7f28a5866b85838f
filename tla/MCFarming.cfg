SPECIFICATION Spec
CONSTANTS
    SP <- MCSP
    Plot = {"og", "pool"}
    InitPlots <- MCInitPlots
    PoolPlots = {"pool"}
    Level <- MCLevel
    Difficulty = 2
    Interval = 4
    PoolInterval = 4
    PoolDiffs = {1}
    KeyFor = {"og"}
    MaxPosPerSp = 5
    Mainnet = TRUE
    MaxAnnounced = 2
    MaxTicks = 4
    MaxChanges = 1
    Payouts = {"p", "q"}
    InitPayout = "p"
    MinDifficulty = 1
    PoolDifficulties = {1, 2}
    MaxFailures = 1
    MaxPayouts = 1
    MaxPartials = 1
INVARIANT FarmerReady
PROPERTY FarmingArrives
CHECK_DEADLOCK FALSE
