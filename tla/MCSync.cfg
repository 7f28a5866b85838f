SPECIFICATION SyncSpec
CONSTANTS
    t0 = t0 t1 = t1 t2 = t2 t3 = t3 t4 = t4 t5 = t5 t6 = t6 t7 = t7
    u2 = u2 u3 = u3 u4 = u4 u5 = u5 u6 = u6 w4 = w4 w5 = w5 peerP = peerP peerQ = peerQ
    NoBlock = NoBlock NoPeer = NoPeer NoSes = NoSes
    Block <- MCBlock
    Parent <- MCParent
    Height <- MCHeight
    Weight <- MCWeight
    Anc <- MCAnc
    Ses <- MCSes
    InitStored <- MCInitStored
    InitPeak = t5
    InitTip <- MCInitTip
    Tips <- MCTips
    Peer = {peerP, peerQ}
    Slot = {h1, h2}
    Syncer = {s1, s2}
    MaxPeaks = 2
    ShortThreshold = 0
    LongThreshold = 2
    RecentBlocks = 6
    BackDepth = 1
    BatchSize = 3
    BufferSize = 2
    ClearEvery = 6
    MaxConnects = 1
    MaxFaults = 1
    diskA = diskA diskB = diskB bad = bad NoFile = NoFile
    File <- MCFile
    NameOf <- MCName
    KindOf <- MCKind
    InitDisk <- MCDisk
    Batch = 1
    MaxDisk = 1
    MaxPlotFaults = 1
INVARIANT SyncGuarded
PROPERTY SyncsEnd
INVARIANT PlotsKnown
CHECK_DEADLOCK FALSE
