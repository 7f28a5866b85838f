CONSTANTS
    l1 = l1
    l2 = l2
    l3 = l3
    t1 = t1
    t2 = t2
    Links = {l1, l2, l3}
    Tasks = {t1, t2}
    Execute = {t2}
    PeerOf <- MCPeerOf
    HostOf <- MCHostOf
    NodeTypeOf <- MCNodeTypeOf
    Outbound <- MCOutbound
    LinkOf <- MCLinkOf
    InboundLimit <- MCInboundLimit
    Banning = TRUE
    Half = 2
    MaxRequests <- MCMaxRequests
    Messages = {"a", "b", "t"}
    TypeOf <- MCTypeOf
    SizeOf <- MCSizeOf
    TxTypes = {"new_transaction"}
    Frequency <- MCFrequency
    MaxSize <- MCMaxSize
    MaxTotalSize <- MCMaxTotalSize
    NON_TX_FREQ = 7
    NON_TX_MAX_TOTAL_SIZE = 10
    Percent = 30
    Ticks = 2
    Delay = 2
    Hosts = {"a", "b", "c"}
    Sources = {"s", "t"}
    NewCell <- MCNewCell
    TriedCell <- MCTriedCell
    NEW_BUCKETS_PER_ADDRESS = 2
    TRIED_COLLISION_SIZE = 1
    MaxId = 3
    Addresses = {"a", "b", "c"}
    GroupOf <- MCGroupOf
    target_outbound_count = 2
    MAX_CONCURRENT_OUTBOUND_CONNECTIONS = 1
SPECIFICATION NetworkSpec
INVARIANT ServerConsistent
 
INVARIANT AnswersMatch
 
INVARIANT AddressesAreRight
INVARIANT PendingIsWorkedOn
CHECK_DEADLOCK FALSE
