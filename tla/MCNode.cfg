CONSTANTS
    ultra = ultra high1 = high1 high2 = high2 low = low
    t1 = t1 t2 = t2 k1 = k1 eos = eos ip = ip
    Request <- MCRequest
    Priority <- MCPriority
    Task = {t1, t2}
    Nobody = Nobody
    Conns = 1
    MaxDepth = 2
    MaxOpens = 2
    MaxWrites = 2
    g = g a1 = a1 a2 = a2 a3 = a3 a4 = a4 b2 = b2 b3 = b3
    h = h h1 = h1 h2 = h2 s1 = s1 s2 = s2
    NoBlock = NoBlock
    NoSes = NoSes
    Block <- MCBlock
    Parent <- MCParent
    Height <- MCHeight
    Weight <- MCWeight
    Anc <- MCAnc
    Ses <- MCSes
    OtherPeaks <- MCOther
    FlushLimit = 2
    MaxRestarts = 2
    Tx = {x1}
    RPeer = {p1, p2}
    MaxAsks = 2
    QueueSize = 1
    Workers = 1
    MaxOffers = 3
    Trunk <- MCTrunk
    TrunkHeight <- MCTrunkHeight
    UPeer <- MCUPeer
    PeerFoliage <- MCPeerFoliage
    Good = {"empty", "other"}
    ClearBelow = 0
    MaxTip = 2
    CBlock = {k1}
    Field = {eos, ip}
    MaxPeerOffers = 1
    MaxReads = 1
    MaxFailures = 1
SPECIFICATION NodeSpec
INVARIANT LockConsistent
INVARIANT TasksMatchState
INVARIANT DbConsistent
INVARIANT HeightMapFollows
PROPERTY HigherPriorityFirst
PROPERTY NodeLive
CHECK_DEADLOCK FALSE
