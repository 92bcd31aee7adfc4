SPECIFICATION MCSpec
CONSTANTS
    Parts = {"peers"}
    a = a
    b = b
    c1 = c1
    c2 = c2
    Addr = {a, b}
    Private = {b}
    Seeds = {a}
    Preferred = {}
    Deny = {}
    Allow = {}
    Reachable = {a, b}
    Conn = {c1, c2}
    MaxInbound = 1
    ListenerBuffer = 0
    MaxOutbound = 1
    MinOutbound = 1
    ChannelCap = 1
    MaxFaults = 2
    Frames <- AllShapes
PROPERTIES BanStands
