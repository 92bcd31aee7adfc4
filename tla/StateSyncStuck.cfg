SPECIFICATION FairSpec
CONSTANTS
    Leaves <- MCLeaves
    SegmentLeaves <- MCSegmentLeaves
    Tops <- MCTops
    ChunkLeaves = 4
    BatchSize = 2
    MaxCached = 2
    Peer = {p, q}
    Outbound = {p}
    PibdPeer = {p}
    Threshold = 1
    Interval = 2
    Horizon = 4
    SyncSlack = 1
    RequestCount = 1
    QueueSize = 1
    RejectThreshold = 2
    MaxFaults = 2
    Rare <- AllPeersLost
PROPERTIES SyncCompletes
CHECK_DEADLOCK FALSE
