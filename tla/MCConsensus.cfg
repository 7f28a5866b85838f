CONSTANTS
    NUM_SPS_SUB_SLOT = 4
    NUM_SP_INTERVALS_EXTRA = 1
    MIN_BLOCKS_PER_CHALLENGE_BLOCK = 2
    MAX_SUB_SLOT_BLOCKS = 2
    SUB_EPOCH_BLOCKS = 7
    EPOCH_BLOCKS = 14
    SUB_SLOT_ITERS_STARTING = 32
    DIFFICULTY_STARTING = 7
    DIFFICULTY_CHANGE_MAX_FACTOR = 3
    SIGNIFICANT_BITS = 3
    SUB_SLOT_TIME_TARGET = 4
    SLOT_BLOCKS_TARGET = 2
    Required <- MCRequired
    Pauses <- MCPauses
    Schedules <- MCSchedules
    QuietSummary = FALSE
    MaxOdd = 1
    MaxHeight = 29
    Blk <- MCBlk
    Block <- MCBlock
    Eos <- MCEos
    Bundle <- MCBundle
    SpMsgs <- MCSps
    SlotIters = 8
    Interval = 2
SPECIFICATION ConsensusSpec
INVARIANT GrowthIsRight
INVARIANT StoreIsRight
CHECK_DEADLOCK FALSE
