SPECIFICATION MCSpec
CONSTANTS
    p1 = p1
    p2 = p2
    Leaves <- MCLeaves
    SegmentLeaves <- MCSegmentLeaves
    Tops = {5, 7}
    ChunkLeaves = 4
    BatchSize = 2
    MaxCached = 2
    Peer = {p, q}
    Outbound = {p}
    PibdPeer = {p}
    Threshold = 1
    Interval = 2
    Horizon = 4
    SyncSlack = 1
    RequestCount = 1
    QueueSize = 1
    RejectThreshold = 2
    MaxFaults = 2
    Rare = {}
INVARIANTS  SegmentsAsRequested
 
CHECK_DEADLOCK FALSE
