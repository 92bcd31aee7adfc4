SPECIFICATION MCFairSpec
CONSTANTS
    Parts = {"peers", "fair", "lists", "codec"}
    a = a
    b = b
    c1 = c1
    c2 = c2
    Addr = {a, b}
    Private = {b}
    Seeds = {a}
    Preferred = {}
    Deny = {}
    Allow = {}
    Reachable = {a, b}
    Conn = {c1, c2}
    MaxInbound = 1
    ListenerBuffer = 0
    MaxOutbound = 1
    MinOutbound = 1
    ChannelCap = 1
    MaxFaults = 2
    Frames <- AllShapes
INVARIANTS InboundBounded 
PROPERTIES GossipKeepsVerdict PeersStayInOrder
