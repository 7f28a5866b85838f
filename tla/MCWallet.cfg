CONSTANTS
    Coins = {"c1", "c2", "c3"}
    Txs = {"t1", "t2"}
    Foreign = {"t2"}
    Rems <- MCRems
    Adds <- MCAdds
    PaidCoins = {"c1", "c2"}
    KnownCoins = {"c1"}
    Nodes = {"n"}
    MaxHeight = 2
    MaxJobs = 2
    MaxReorgs = 1
    MaxOdd = 1
    Blocks <- MCBlocks
    ParentOf <- MCParentOf
    HeightOf <- MCHeightOf
    WeightOf <- MCWeightOf
    Creates <- MCCreates
    Spends <- MCSpends
    SyncPeers = {"u", "v"}
    TrustChoices = {{}, {"v"}}
    StartBlock = "a1"
    WEIGHT_PROOF_RECENT_BLOCKS = 3
    LONG_SYNC_THRESHOLD = 1
    TrustedDepth = 2
    UntrustedDepth = 2
    MaxRestarts = 1
    MaxWaiting = 1
    WalletIds = {1, 2}
    Users = {"u1", "u2"}
    initial_num_public_keys = 2
    MaxIndex = 4
    MaxExtra = 2
    Amounts = {1, 2, 4}
    NumCoins = 4
    Targets = {0, 1, 2, 3, 4, 5}
    Fees = {0, 1}
    max_num_coins = 2
    MaxSpends = 3
    Trials = 2
SPECIFICATION WalletSpec
 
INVARIANT SyncIsRight
 
 
CHECK_DEADLOCK FALSE
