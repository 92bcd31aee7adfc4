---------------------------- MODULE MCHeaderSync -----------------------------
\* Instances of HeaderSync with two peers: one ahead of the other, or both on one head.
EXTENDS HeaderSync
CONSTANTS p1, p2
MCPeerHeight(p) == IF p = p1 THEN 5 ELSE 4
SameHeight(p) == 4
=============================================================================
