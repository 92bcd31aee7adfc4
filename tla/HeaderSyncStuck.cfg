SPECIFICATION Spec
CONSTANTS
  p1 = p1
  p2 = p2
  Peer = {p1, p2}
  PeerHeight <- MCPeerHeight
  PihdPeer = {p1, p2}
  Outbound = {p1, p2}
  Capacity = 2
  Slack = 0
  MaxInFlight = 2
  MaxTimedOut = 2
  MaxPeerFailures = 2
  ForkPoint = 0
  OwnHeight = 0
  MaxFaults = 0
PROPERTIES HeadersArrive
