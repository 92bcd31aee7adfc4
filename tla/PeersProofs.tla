---------------------------- MODULE PeersProofs ----------------------------
(***************************************************************************)
(* The limit on inbound peers holds for every number of addresses,         *)
(* connections and threads, and an address list never changes the verdict  *)
(* on a peer.                                                              *)
(*                                                                         *)
(* The listener counts, and inserts two steps later; in between every      *)
(* other thread may insert, remove, stop or drop connections.  It is safe  *)
(* because only the listener inserts inbound ones: what a dialling thread  *)
(* inserts is outbound (DialsOutbound), and a connection keeps its         *)
(* direction as long as anybody holds it.                                  *)
(***************************************************************************)
EXTENDS Peers, FiniteSetTheorems, TLAPS

\* The provers of a leaf that names none, in this order.
USE SMTT(30), ZenonT(30), SMTT(60)

\* Maps and records keep their keys.
Shape ==
    /\ DOMAIN db = Addr /\ DOMAIN peers = Addr /\ DOMAIN dial = Addr
    /\ DOMAIN conn = Conn /\ \A c \in Conn : {"dir", "state"} \subseteq DOMAIN conn[c]
    /\ {"pc", "addr", "conn"} \subseteq DOMAIN inbound

\* The connection a dialling thread holds is outbound.
DialsOutbound ==
    \A a \in Addr : dial[a].conn \in Conn => conn[dial[a].conn].dir = "Outbound"

Inbound == with_direction("Inbound")
Limit == MaxInbound + ListenerBuffer

\* There is room for the connection the listener has let in.
Room ==
    /\ Cardinality(Inbound) <= Limit
    /\ inbound.pc \in {"hand", "add"} => Cardinality(Inbound) < Limit

IInv == Shape /\ DialsOutbound /\ Room

-----------------------------------------------------------------------------
\* The inbound peers are finitely many, and no more when some are dropped.
LEMMA InboundFinite ==
           /\ Limit \in Nat
           /\ IsFiniteSet(Inbound) /\ Cardinality(Inbound) \in Nat
           /\ (Inbound' \subseteq Inbound => /\ Cardinality(Inbound') \in Nat
                                             /\ Cardinality(Inbound') <= Cardinality(Inbound))
<1>1. Inbound \subseteq Conn
  BY DEF Inbound, with_direction, connected
<1>2. IsFiniteSet(Inbound) /\ Cardinality(Inbound) \in Nat
  BY PeersAssumption, <1>1, FS_Subset, FS_CardinalityType
<1>3. Inbound' \subseteq Inbound =>
        Cardinality(Inbound') \in Nat /\ Cardinality(Inbound') <= Cardinality(Inbound)
  BY <1>2, FS_Subset, FS_CardinalityType
<1> QED BY PeersAssumption, <1>2, <1>3 DEF Limit

\* A connection somebody holds keeps its direction, and is not revived.
Same(c) == conn'[c].dir = conn[c].dir /\ (conn'[c].state = "Connected" => conn[c].state = "Connected")

\* A step that inserts nothing into the map: connections only leave it, dialling
\* threads open outbound ones, and the listener has let in no other.
ConnsKept == \A c \in Conn : held(c) => Same(c)
MapShrinks == \A a \in Addr : peers'[a] # None => peers'[a] = peers[a]
DialsKept == \A a \in Addr : dial'[a].conn \in Conn =>
                 dial'[a].conn = dial[a].conn \/ conn'[dial'[a].conn].dir = "Outbound"
LetsNoneIn == inbound'.pc \in {"hand", "add"} => inbound.pc \in {"hand", "add"}
Quiet == ConnsKept /\ MapShrinks /\ DialsKept /\ LetsNoneIn

LEMMA NothingInserted ==
    ASSUME IInv, Shape', Quiet
    PROVE  IInv'
<1> USE DEF Quiet, ConnsKept, MapShrinks, DialsKept, LetsNoneIn
<1>1. DialsOutbound'
  <2> SUFFICES ASSUME NEW a \in Addr, dial'[a].conn \in Conn
               PROVE  conn'[dial'[a].conn].dir = "Outbound"
    BY DEF DialsOutbound
  <2>1. CASE dial'[a].conn = dial[a].conn
    <3>1. held(dial[a].conn)
      BY DEF held
    <3> QED BY <2>1, <3>1 DEF Same, IInv, DialsOutbound
  <2> QED BY <2>1
<1>2. Inbound' \subseteq Inbound
  <2> SUFFICES ASSUME NEW c \in Conn, c \in Inbound' PROVE c \in Inbound
    BY DEF Inbound, with_direction, connected
  <2>1. PICK a \in Addr : peers'[a] = c /\ conn'[c].state = "Connected" /\ conn'[c].dir = "Inbound"
    BY DEF Inbound, with_direction, connected
  <2>2. peers[a] = c
    BY PeersAssumption, <2>1
  <2>3. Same(c)
    BY <2>2 DEF held
  <2> QED BY <2>1, <2>2, <2>3 DEF Same, Inbound, with_direction, connected
<1>3. Room'
  BY <1>2, InboundFinite DEF IInv, Room, Limit
<1> QED BY <1>1, <1>3 DEF IInv

\* Steps that leave the map, the connections and who holds them alone.
LEMMA Elsewhere ==
    ASSUME IInv, UNCHANGED <<peers, conn, dial, inbound>>, DOMAIN db' = DOMAIN db
    PROVE  IInv'
<1>1. Shape'
  BY ZenonT(30) DEF IInv, Shape
<1>2. Quiet
  BY ZenonT(30) DEF Quiet, ConnsKept, Same, MapShrinks, DialsKept, LetsNoneIn
<1> QED BY ZenonT(30), <1>1, <1>2, NothingInserted

\* Steps that leave the dialling threads and the listener alone.
LEMMA ConnsAndMap ==
    ASSUME IInv, UNCHANGED <<dial, inbound>>, DOMAIN db' = DOMAIN db,
           DOMAIN peers' = DOMAIN peers, MapShrinks,
           DOMAIN conn' = Conn, \A c \in Conn : DOMAIN conn'[c] = DOMAIN conn[c] /\ Same(c)
    PROVE  IInv'
<1>1. Shape'
  BY ZenonT(30) DEF IInv, Shape
<1>2. Quiet
  BY ZenonT(30) DEF Quiet, ConnsKept, DialsKept, LetsNoneIn
<1> QED BY ZenonT(30), <1>1, <1>2, NothingInserted

\* Steps of a dialling thread or the listener that leave the connections alone.
LEMMA ThreadMoves ==
    ASSUME IInv, UNCHANGED peers, DOMAIN db' = DOMAIN db, DOMAIN conn' = Conn,
           \A c \in Conn : DOMAIN conn'[c] = DOMAIN conn[c] /\ Same(c),
           DOMAIN dial' = DOMAIN dial,
           \A a \in Addr : dial'[a].conn = dial[a].conn \/ dial'[a].conn = None,
           inbound' = inbound \/ inbound' = Idle
    PROVE  IInv'
<1>1. Shape'
  <2>1. {"pc", "addr", "conn"} \subseteq DOMAIN inbound'
    BY DEF IInv, Shape, Idle
  <2> QED BY ZenonT(30), <2>1 DEF IInv, Shape
<1>2. Quiet
  <2>1. DialsKept
    BY ZenonT(30), PeersAssumption DEF DialsKept
  <2>2. LetsNoneIn
    BY DEF LetsNoneIn, Idle
  <2> QED BY ZenonT(30), <2>1, <2>2 DEF Quiet, ConnsKept, MapShrinks
<1> QED BY ZenonT(30), <1>1, <1>2, NothingInserted

\* What stop, a send and a ban do to a connection.
LEMMA ConnFlags ==
    ASSUME Shape, NEW c \in Conn
    PROVE  /\ DOMAIN Sent(c) = DOMAIN conn[c] /\ DOMAIN Banned(c) = DOMAIN conn[c]
           /\ Sent(c).dir = conn[c].dir /\ Sent(c).state = conn[c].state
           /\ Banned(c).dir = conn[c].dir /\ Banned(c).state = "Banned"
<1>1. {"dir", "state"} \subseteq DOMAIN conn[c]
  BY DEF Shape
<1>2. DOMAIN Sent(c) = DOMAIN conn[c] /\ Sent(c).dir = conn[c].dir /\ Sent(c).state = conn[c].state
  BY <1>1 DEF Sent
<1>3. DOMAIN Banned(c) = DOMAIN conn[c] /\ Banned(c).dir = conn[c].dir /\ Banned(c).state = "Banned"
  <2> HIDE DEF Sent
  <2> QED BY <1>1, <1>2 DEF Banned
<1> QED BY <1>2, <1>3

LEMMA StopFlags ==
    ASSUME Shape, NEW cs, conn' = stop(cs)
    PROVE  DOMAIN conn' = Conn /\ \A c \in Conn : DOMAIN conn'[c] = DOMAIN conn[c] /\ Same(c)
<1> SUFFICES ASSUME NEW c \in Conn PROVE DOMAIN conn'[c] = DOMAIN conn[c] /\ Same(c)
  BY ZenonT(30) DEF stop
<1>1. conn'[c] = IF c \in cs THEN [conn[c] EXCEPT !.stop = TRUE] ELSE conn[c]
  BY ZenonT(30) DEF stop
<1>2. {"dir", "state"} \subseteq DOMAIN conn[c]
  BY DEF Shape
<1> QED BY <1>1, <1>2 DEF Same

LEMMA OneConn ==
    ASSUME Shape, NEW c \in Conn, NEW r, conn' = [conn EXCEPT ![c] = r], DOMAIN r = DOMAIN conn[c],
           r.dir = conn[c].dir, r.state = "Connected" => conn[c].state = "Connected"
    PROVE  DOMAIN conn' = Conn /\ \A x \in Conn : DOMAIN conn'[x] = DOMAIN conn[x] /\ Same(x)
<1>1. DOMAIN conn = Conn
  BY DEF Shape
<1> QED BY <1>1 DEF Same

\* Steps that move nothing but the database, the queue, the seed thread or the
\* records of the banning and gossiping threads.
LEMMA ElsewhereSteps ==
    ASSUME IInv, NEW a,
           \/ monitor_peers \/ connect_more \/ ban_peer(a) \/ WindowOver(a)
           \/ peer_addrs_received(a) \/ save_peers
    PROVE  IInv'
<1>d. DOMAIN db = Addr
  BY ZenonT(30) DEF IInv, Shape
<1>1. CASE monitor_peers
  BY ZenonT(30), <1>1, Elsewhere DEF monitor_peers
<1>2. CASE connect_more
  BY ZenonT(30), <1>2, <1>d, Elsewhere DEF connect_more
<1>3. CASE ban_peer(a)
  BY ZenonT(30), <1>3, Elsewhere DEF ban_peer
<1>4. CASE WindowOver(a)
  BY ZenonT(30), <1>4, Elsewhere DEF WindowOver
<1>5. CASE peer_addrs_received(a)
  BY ZenonT(30), <1>5, Elsewhere DEF peer_addrs_received
<1>6. CASE save_peers
  BY ZenonT(30), <1>6, Elsewhere DEF save_peers
<1> QED BY ZenonT(30), <1>1, <1>2, <1>3, <1>4, <1>5, <1>6

\* The threads of a connection, pings, clean-ups, bans and disconnections.
LEMMA ReaderStep ==
    ASSUME IInv, NEW c \in Conn, ReaderExits(c)
    PROVE  IInv'
<1> DEFINE r == [conn[c] EXCEPT !.reader = FALSE]
<1>1. Shape /\ {"dir", "state"} \subseteq DOMAIN conn[c]
  BY DEF IInv, Shape
<1>2. conn' = [conn EXCEPT ![c] = r] /\ UNCHANGED <<db, peers, dial, inbound>>
  BY ZenonT(30) DEF ReaderExits
<1>3. DOMAIN r = DOMAIN conn[c] /\ r.dir = conn[c].dir /\ r.state = conn[c].state
  BY <1>1
<1> HIDE DEF r
<1> QED BY ZenonT(30), <1>1, <1>2, <1>3, OneConn, ConnsAndMap DEF MapShrinks

LEMMA WriterKeeps ==
    ASSUME IInv, NEW c \in Conn, WriterStep(c)
    PROVE  IInv'
<1> DEFINE r == [conn[c] EXCEPT !.q = @ - 1]
           w == [conn[c] EXCEPT !.writer = FALSE, !.q = 0]
<1>1. Shape /\ {"dir", "state"} \subseteq DOMAIN conn[c] /\ DOMAIN conn = Conn
  BY DEF IInv, Shape
<1>2. UNCHANGED <<db, peers, dial, inbound>>
  BY ZenonT(30) DEF WriterStep
<1>3. conn' = [conn EXCEPT ![c] = r] \/ conn' = [conn EXCEPT ![c] = w]
  BY ZenonT(30), <1>1 DEF WriterStep
<1>4. DOMAIN r = DOMAIN conn[c] /\ r.dir = conn[c].dir /\ r.state = conn[c].state
  BY <1>1
<1>5. DOMAIN w = DOMAIN conn[c] /\ w.dir = conn[c].dir /\ w.state = conn[c].state
  BY <1>1
<1> HIDE DEF r, w
<1> QED BY ZenonT(30), <1>1, <1>2, <1>3, <1>4, <1>5, OneConn, ConnsAndMap DEF MapShrinks

LEMMA CheckPeerKeeps ==
    ASSUME IInv, NEW c \in Conn, check_peer(c)
    PROVE  IInv'
<1>1. Shape /\ DOMAIN db = Addr /\ DOMAIN peers = Addr
  BY ZenonT(30) DEF IInv, Shape
<1>2. UNCHANGED <<dial, inbound>> /\ DOMAIN db' = DOMAIN db
  BY ZenonT(30) DEF check_peer, update_state
<1>3. DOMAIN peers' = DOMAIN peers /\ MapShrinks
  BY <1>1 DEF check_peer, MapShrinks
<1>4. conn' = [conn EXCEPT ![c] = Sent(c)] \/ conn' = stop({c})
  BY ZenonT(30) DEF check_peer
<1>5. DOMAIN conn' = Conn /\ \A x \in Conn : DOMAIN conn'[x] = DOMAIN conn[x] /\ Same(x)
  BY ZenonT(30), <1>1, <1>4, OneConn, StopFlags, ConnFlags
<1> QED BY ZenonT(30), <1>2, <1>3, <1>5, ConnsAndMap

LEMMA CleanPeersKeeps ==
    ASSUME IInv, clean_peers
    PROVE  IInv'
<1>1. Shape /\ DOMAIN db = Addr /\ DOMAIN peers = Addr
  BY ZenonT(30) DEF IInv, Shape
<1>2. UNCHANGED <<dial, inbound>> /\ DOMAIN db' = Addr
  BY ZenonT(30) DEF clean_peers
<1>3. PICK S : /\ conn' = [c \in Conn |-> IF c \in S THEN Banned(c) ELSE conn[c]]
               /\ peers' = [a \in Addr |-> IF peers[a] \in S THEN None ELSE peers[a]]
  BY ZenonT(30) DEF clean_peers
<1>4. DOMAIN peers' = DOMAIN peers /\ MapShrinks
  BY <1>1, <1>3 DEF MapShrinks
<1>5. DOMAIN conn' = Conn
  BY ZenonT(30), <1>3
<1>6. ASSUME NEW x \in Conn PROVE DOMAIN conn'[x] = DOMAIN conn[x] /\ Same(x)
  <2>1. conn'[x] = IF x \in S THEN Banned(x) ELSE conn[x]
    BY ZenonT(30), <1>3
  <2>2. CASE x \in S
    BY <1>1, <2>1, <2>2, ConnFlags DEF Same
  <2>3. CASE x \notin S
    BY <2>1, <2>3 DEF Same
  <2> QED BY <2>2, <2>3
<1> QED BY ZenonT(30), <1>1, <1>2, <1>4, <1>5, <1>6, ConnsAndMap

LEMMA RemovalKeeps ==
    ASSUME IInv, NEW a,
           remove_peers \/ disconnect_peer(a) \/ ban_remove
    PROVE  IInv'
<1>1. Shape /\ DOMAIN peers = Addr
  BY ZenonT(30) DEF IInv, Shape
<1>2. UNCHANGED <<db, dial, inbound>>
  BY ZenonT(30) DEF remove_peers, disconnect_peer, ban_remove
<1>3. DOMAIN peers' = DOMAIN peers /\ MapShrinks
  BY <1>1 DEF MapShrinks, remove_peers, disconnect_peer, ban_remove
<1>4. conn' = conn \/ \E cs : conn' = stop(cs)
  BY ZenonT(30) DEF remove_peers, disconnect_peer, ban_remove
<1>5. DOMAIN conn' = Conn /\ \A c \in Conn : DOMAIN conn'[c] = DOMAIN conn[c] /\ Same(c)
  <2>1. CASE conn' = conn
    BY ZenonT(30), <1>1, <2>1 DEF Shape, Same
  <2>2. CASE \E cs : conn' = stop(cs)
    BY ZenonT(30), <1>1, <2>2, StopFlags
  <2> QED BY ZenonT(30), <1>4, <2>1, <2>2
<1> QED BY ZenonT(30), <1>2, <1>3, <1>5, ConnsAndMap

LEMMA BanStopKeeps ==
    ASSUME IInv, ban_stop
    PROVE  IInv'
<1>1. Shape
  BY ZenonT(30) DEF IInv
<1>2. UNCHANGED <<db, peers, dial, inbound>>
  BY ZenonT(30) DEF ban_stop
<1>3. conn' = conn \/ \E c \in Conn : conn' = [conn EXCEPT ![c] = Banned(c)]
  BY ZenonT(30) DEF ban_stop, get_connected_peer, connected
<1>4. DOMAIN conn' = Conn /\ \A c \in Conn : DOMAIN conn'[c] = DOMAIN conn[c] /\ Same(c)
  <2>1. CASE conn' = conn
    BY ZenonT(30), <1>1, <2>1 DEF Shape, Same
  <2>2. ASSUME NEW c \in Conn, conn' = [conn EXCEPT ![c] = Banned(c)]
        PROVE  DOMAIN conn' = Conn /\ \A x \in Conn : DOMAIN conn'[x] = DOMAIN conn[x] /\ Same(x)
    <3>1. DOMAIN Banned(c) = DOMAIN conn[c] /\ Banned(c).dir = conn[c].dir
          /\ ~(Banned(c).state = "Connected")
      BY <1>1, ConnFlags
    <3> QED BY ZenonT(30), <1>1, <2>2, <3>1, OneConn
  <2> QED BY ZenonT(30), <1>3, <2>1, <2>2
<1> QED BY ZenonT(30), <1>2, <1>4, ConnsAndMap DEF MapShrinks

\* The dialling threads and the listener, where they begin and insert nothing.
LEMMA DialMoves ==
    ASSUME IInv, NEW a,
           \/ listen_for_addrs \/ connect(a) \/ connect_failed(a) \/ mark_defunct(a)
           \/ save_outbound(a) \/ save_inbound
    PROVE  IInv'
<1>1. Shape /\ DOMAIN db = Addr /\ DOMAIN dial = Addr /\ DOMAIN conn = Conn
  BY ZenonT(30) DEF IInv, Shape
<1>s. DOMAIN conn = Conn /\ \A c \in Conn : DOMAIN conn[c] = DOMAIN conn[c]
  BY <1>1
<1>2. CASE listen_for_addrs
  <2>1. UNCHANGED <<peers, conn, inbound>> /\ DOMAIN db' = DOMAIN db /\ DOMAIN dial' = DOMAIN dial
    BY ZenonT(30), <1>1, <1>2 DEF listen_for_addrs, remove_expired
  <2>2. \A x \in Addr : dial'[x].conn = dial[x].conn \/ dial'[x].conn = None
    BY <1>2 DEF listen_for_addrs, Idle
  <2> QED BY ZenonT(30), <1>1, <2>1, <2>2, ThreadMoves DEF Same
<1>3. ASSUME NEW p, DialTo(a, p, None), UNCHANGED <<db, peers, conn, inbound>> PROVE IInv'
  <2>1. DOMAIN dial' = DOMAIN dial
    BY ZenonT(30), <1>1, <1>3 DEF DialTo
  <2>2. \A x \in Addr : dial'[x].conn = dial[x].conn \/ dial'[x].conn = None
    BY <1>1, <1>3 DEF DialTo, Idle
  <2> QED BY ZenonT(30), <1>1, <1>3, <2>1, <2>2, ThreadMoves DEF Same
<1>4. CASE connect(a)
  BY ZenonT(30), <1>3, <1>4 DEF connect
<1>5. CASE connect_failed(a)
  BY ZenonT(30), <1>3, <1>5 DEF connect_failed
<1>6. CASE mark_defunct(a) \/ save_outbound(a)
  <2>1. UNCHANGED <<peers, inbound>> /\ dial' = [dial EXCEPT ![a] = Idle]
    BY ZenonT(30), <1>6 DEF mark_defunct, save_outbound
  <2>2. DOMAIN db' = DOMAIN db
    BY ZenonT(30), <1>6 DEF mark_defunct, save_outbound, save_connected_peer
  <2>3. \A x \in Addr : dial'[x].conn = dial[x].conn \/ dial'[x].conn = None
    BY <1>1, <2>1 DEF Idle
  <2>4. DOMAIN dial' = DOMAIN dial
    BY ZenonT(30), <2>1
  <2>5. conn' = conn \/ conn' = [conn EXCEPT ![dial[a].conn] = Sent(dial[a].conn)]
    BY ZenonT(30), <1>6 DEF mark_defunct, save_outbound
  <2>6. DOMAIN conn' = Conn /\ \A c \in Conn : DOMAIN conn'[c] = DOMAIN conn[c] /\ Same(c)
    <3>1. CASE conn' = conn
      BY ZenonT(30), <1>1, <3>1 DEF Same
    <3>2. CASE conn' = [conn EXCEPT ![dial[a].conn] = Sent(dial[a].conn)] /\ dial[a].conn \in Conn
      BY ZenonT(30), <1>1, <3>2, OneConn, ConnFlags
    <3>3. CASE conn' = [conn EXCEPT ![dial[a].conn] = Sent(dial[a].conn)] /\ dial[a].conn \notin Conn
      BY ZenonT(30), <1>1, <3>3 DEF Same
    <3> QED BY ZenonT(30), <2>5, <3>1, <3>2, <3>3
  <2> QED BY ZenonT(30), <2>1, <2>2, <2>3, <2>4, <2>6, ThreadMoves
<1>7. CASE save_inbound
  <2>1. UNCHANGED <<peers, conn, dial>> /\ inbound' = Idle /\ DOMAIN db' = DOMAIN db
    BY ZenonT(30), <1>7 DEF save_inbound, save_connected_peer
  <2> QED BY ZenonT(30), <1>1, <2>1, ThreadMoves DEF Same
<1> QED BY ZenonT(30), <1>2, <1>4, <1>5, <1>6, <1>7

\* A new connection is one that nobody holds.
LEMMA FreeIsUnheld ==
    \A c \in Free : c \in Conn /\ ~held(c)
<1> SUFFICES ASSUME NEW c \in Free PROVE c \in Conn /\ ~held(c)
  OBVIOUS
<1>1. c \in Unused
  BY DEF Free
<1> QED BY <1>1 DEF Unused

\* The steps that begin, insert or forget a connection.
LEMMA DroppedStep ==
    ASSUME IInv, NEW c \in Conn, Dropped(c)
    PROVE  IInv'
<1>1. Shape /\ DOMAIN conn = Conn /\ ~held(c) /\ conn' = [conn EXCEPT ![c] = Dead]
      /\ UNCHANGED <<db, peers, dial, inbound>>
  BY ZenonT(30) DEF IInv, Shape, Dropped
<1>2. {"dir", "state"} \subseteq DOMAIN Dead
  BY DEF Dead
<1>3. Shape'
  BY ZenonT(30), <1>1, <1>2 DEF Shape
<1>4. Quiet
  BY ZenonT(30), <1>1 DEF Quiet, ConnsKept, Same, MapShrinks, DialsKept, LetsNoneIn
<1> QED BY ZenonT(30), <1>3, <1>4, NothingInserted

LEMMA HandshakeStep ==
    ASSUME IInv, NEW a \in Addr, handshake(a)
    PROVE  IInv'
<1>1. Shape /\ DOMAIN conn = Conn /\ DOMAIN dial = Addr /\ UNCHANGED <<db, peers, inbound>>
  BY ZenonT(30) DEF IInv, Shape, handshake
<1>2. ASSUME NEW c \in Free, conn' = [conn EXCEPT ![c] = Opened(a, "Outbound")], DialTo(a, "add", c)
      PROVE  IInv'
  <2>1. c \in Conn /\ ~held(c)
    BY ZenonT(30), <1>2, FreeIsUnheld
  <2>2. {"dir", "state"} \subseteq DOMAIN Opened(a, "Outbound") /\ Opened(a, "Outbound").dir = "Outbound"
    BY DEF Opened
  <2>3. DOMAIN dial' = Addr
    BY ZenonT(30), <1>1, <1>2 DEF DialTo
  <2>4. \A x \in Addr : IF x = a THEN dial'[x].conn = c ELSE dial'[x] = dial[x]
    BY <1>1, <1>2 DEF DialTo, Idle
  <2>5. Shape'
    BY ZenonT(30), <1>1, <1>2, <2>2, <2>3 DEF Shape
  <2>6. ConnsKept /\ conn'[c].dir = "Outbound"
    BY ZenonT(30), <1>1, <1>2, <2>1, <2>2 DEF ConnsKept, Same
  <2>7. DialsKept
    BY ZenonT(30), <2>4, <2>6 DEF DialsKept
  <2> QED BY ZenonT(30), <1>1, <2>5, <2>6, <2>7, NothingInserted DEF Quiet, MapShrinks, LetsNoneIn
<1>3. CASE DialTo(a, "failed", None) /\ UNCHANGED conn
  <2>1. DOMAIN dial' = DOMAIN dial
    BY ZenonT(30), <1>1, <1>3 DEF DialTo
  <2>2. \A x \in Addr : dial'[x].conn = dial[x].conn \/ dial'[x].conn = None
    BY <1>1, <1>3 DEF DialTo, Idle
  <2> QED BY ZenonT(30), <1>1, <1>3, <2>1, <2>2, ThreadMoves DEF Same
<1> QED BY ZenonT(30), <1>2, <1>3 DEF handshake

\* What a dialling thread inserts is outbound, and may only displace an inbound peer.
LEMMA AddConnectedStep ==
    ASSUME IInv, NEW a \in Addr, add_connected(a)
    PROVE  IInv'
<1>1. Shape'
  BY DEF IInv, Shape, add_connected, DialTo, Idle, stop
<1>2. \A c \in Conn : Same(c)
  BY DEF IInv, Shape, Same, add_connected, stop
<1>3. \A x \in Addr : dial'[x].conn = dial[x].conn
  BY DEF IInv, Shape, add_connected, DialTo, Idle
<1>4. inbound' = inbound
  BY DEF add_connected
<1>5. \A x \in Addr : peers'[x] = peers[x] \/ peers'[x] = dial[a].conn
  BY DEF IInv, Shape, add_connected
<1>6. DialsOutbound'
  BY <1>2, <1>3 DEF IInv, DialsOutbound, Same
<1>7. Inbound' \subseteq Inbound
  <2> SUFFICES ASSUME NEW c \in Conn, c \in Inbound' PROVE c \in Inbound
    BY DEF Inbound, with_direction, connected
  <2>1. PICK x \in Addr : peers'[x] = c /\ conn'[c].state = "Connected" /\ conn'[c].dir = "Inbound"
    BY DEF Inbound, with_direction, connected
  <2>2. conn[c].state = "Connected" /\ conn[c].dir = "Inbound"
    BY <1>2, <2>1 DEF Same
  <2>3. peers[x] = c
    BY <1>5, <2>1, <2>2 DEF IInv, DialsOutbound
  <2> QED BY <2>2, <2>3 DEF Inbound, with_direction, connected
<1>8. Room'
  BY <1>4, <1>7, InboundFinite DEF IInv, Room, Limit
<1> QED BY <1>1, <1>6, <1>8 DEF IInv

\* The listener counts before it lets a connection in,
LEMMA ListenStepKeeps ==
    ASSUME IInv, NEW a \in Addr, listen(a)
    PROVE  IInv'
<1>1. Shape'
  BY DEF IInv, Shape, listen
<1>2. DialsOutbound'
  BY DEF IInv, DialsOutbound, listen
<1>3. Inbound' = Inbound
  BY DEF Inbound, with_direction, connected, listen
<1>4. Cardinality(Inbound) < Limit
  BY InboundFinite DEF listen, check_undesirable, Inbound, Limit
<1>5. Room'
  BY <1>3, <1>4 DEF IInv, Room, Limit
<1> QED BY <1>1, <1>2, <1>5 DEF IInv

LEMMA AcceptStep ==
    ASSUME IInv, accept
    PROVE  IInv'
<1>1. Shape /\ DOMAIN conn = Conn /\ UNCHANGED <<peers, dial>> /\ inbound.pc = "hand"
  BY ZenonT(30) DEF IInv, Shape, accept
<1>2. ASSUME NEW c \in Free, conn' = [conn EXCEPT ![c] = Opened(inbound.addr, "Inbound")],
             inbound' = [inbound EXCEPT !.pc = "add", !.conn = c], UNCHANGED db
      PROVE  IInv'
  <2>1. c \in Conn /\ ~held(c)
    BY ZenonT(30), <1>2, FreeIsUnheld
  <2>2. {"dir", "state"} \subseteq DOMAIN Opened(inbound.addr, "Inbound")
    BY DEF Opened
  <2>3. DOMAIN inbound' = DOMAIN inbound
    BY <1>2
  <2>4. Shape'
    BY ZenonT(30), <1>1, <1>2, <2>2, <2>3 DEF Shape
  <2>5. ConnsKept
    BY ZenonT(30), <1>1, <1>2, <2>1 DEF ConnsKept, Same
  <2>6. MapShrinks /\ DialsKept /\ LetsNoneIn
    BY ZenonT(30), <1>1 DEF MapShrinks, DialsKept, LetsNoneIn
  <2> QED BY ZenonT(30), <2>4, <2>5, <2>6, NothingInserted DEF Quiet
<1>3. CASE inbound' = Idle /\ UNCHANGED conn /\ DOMAIN db' = DOMAIN db
  BY ZenonT(30), <1>1, <1>3, ThreadMoves DEF Same
<1> QED BY ZenonT(30), <1>2, <1>3 DEF accept

\* and inserts it when there is still room for it.
LEMMA AddInboundStep ==
    ASSUME IInv, add_inbound
    PROVE  IInv'
<1>1. Shape'
  BY DEF IInv, Shape, add_inbound
<1>2. DialsOutbound'
  BY DEF IInv, DialsOutbound, add_inbound
<1>3. Inbound' \subseteq Inbound \union {inbound.conn}
  BY DEF Inbound, with_direction, connected, add_inbound, IInv, Shape
<1>4. /\ IsFiniteSet(Inbound \union {inbound.conn})
      /\ Cardinality(Inbound \union {inbound.conn}) <= Cardinality(Inbound) + 1
      /\ Cardinality(Inbound \union {inbound.conn}) \in Nat
  BY InboundFinite, FS_AddElement, FS_CardinalityType
<1>5. Cardinality(Inbound') \in Nat /\ Cardinality(Inbound') <= Cardinality(Inbound \union {inbound.conn})
  BY <1>3, <1>4, FS_Subset, FS_CardinalityType
<1>6. Cardinality(Inbound') <= Limit
  BY <1>4, <1>5, InboundFinite DEF IInv, Room, add_inbound
<1>7. inbound'.pc = "save"
  BY DEF add_inbound, IInv, Shape
<1>8. Room'
  BY <1>6, <1>7 DEF Room, Limit
<1> QED BY <1>1, <1>2, <1>8 DEF IInv

-----------------------------------------------------------------------------
LEMMA InvInit == Init => IInv
<1> SUFFICES ASSUME Init PROVE IInv
  OBVIOUS
<1>1. Shape
  BY DEF Init, Shape, Dead, Idle
<1>2. DialsOutbound
  BY PeersAssumption DEF Init, DialsOutbound, Idle
<1>3. Inbound = {}
  BY PeersAssumption DEF Init, Inbound, with_direction, connected
<1>4. Cardinality(Inbound) = 0
  BY <1>3, FS_EmptySet
<1>5. Room
  BY <1>4, InboundFinite DEF Room, Init, Idle
<1> QED BY <1>1, <1>2, <1>5 DEF IInv

LEMMA InvStep == IInv /\ [Next]_vars => IInv'
<1> SUFFICES ASSUME IInv, [Next]_vars PROVE IInv'
  OBVIOUS
<1>1. CASE UNCHANGED vars
  BY <1>1 DEF vars, IInv, Shape, DialsOutbound, Room, Inbound, with_direction, connected, Limit
<1>2. CASE \E c \in Conn : Dropped(c)
  BY <1>2, DroppedStep
<1>3. CASE \E a \in Addr : handshake(a)
  BY <1>3, HandshakeStep
<1>4. CASE \E a \in Addr : add_connected(a)
  BY <1>4, AddConnectedStep
<1>5. CASE \E a \in Addr : listen(a)
  BY <1>5, ListenStepKeeps
<1>6. CASE accept
  BY <1>6, AcceptStep
<1>7. CASE add_inbound
  BY <1>7, AddInboundStep
<1>8. ASSUME NEW a, \/ monitor_peers \/ connect_more \/ ban_peer(a) \/ WindowOver(a)
                              \/ peer_addrs_received(a) \/ save_peers
      PROVE  IInv'
  BY ZenonT(30), <1>8, ElsewhereSteps
<1>9. ASSUME NEW a, \/ listen_for_addrs \/ connect(a) \/ connect_failed(a)
                              \/ mark_defunct(a) \/ save_outbound(a) \/ save_inbound
      PROVE  IInv'
  BY ZenonT(30), <1>9, DialMoves
<1>10. ASSUME NEW a, remove_peers \/ disconnect_peer(a) \/ ban_remove PROVE IInv'
  BY ZenonT(30), <1>10, RemovalKeeps
<1>11. ASSUME NEW c \in Conn, ReaderExits(c) \/ WriterStep(c) \/ check_peer(c) PROVE IInv'
  BY ZenonT(30), <1>11, ReaderStep, WriterKeeps, CheckPeerKeeps
<1>12. CASE clean_peers \/ ban_stop
  BY ZenonT(30), <1>12, CleanPeersKeeps, BanStopKeeps
<1> QED BY ZenonT(30), <1>1, <1>2, <1>3, <1>4, <1>5, <1>6, <1>7, <1>8, <1>9, <1>10, <1>11, <1>12
      DEF Next, SeedStep, DialStep, ListenStep, BanStep

\* The connected inbound peers are at most peer_max_inbound_count plus the listener's
\* buffer, for every number of peers and of threads that dial, ban, clean and drop
\* between the count in check_undesirable and the insertion in the map.
THEOREM InboundCorrect == Spec => []InboundBounded
<1>1. Init => IInv
  BY InvInit
<1>2. IInv /\ [Next]_vars => IInv'
  BY InvStep
<1>3. IInv => InboundBounded
  BY DEF IInv, Room, Inbound, Limit, InboundBounded
<1> QED BY <1>1, <1>2, <1>3, PTL DEF Spec

\* What save_peers writes, after whatever happened since peer_addrs_received read
\* the record, changes no record of a healthy or banned peer.
THEOREM GossipCorrect == Spec => GossipKeepsVerdict
<1>1. Init => IInv
  BY InvInit
<1>2. IInv /\ [Next]_vars => IInv'
  BY InvStep
<1>3. IInv /\ [Next]_vars =>
        [gossip.pc = "save" /\ gossip'.pc = "idle" =>
            \A a \in Addr : db[a].flags \in {"Healthy", "Banned"} => db'[a] = db[a]]_vars
  <2> SUFFICES ASSUME IInv, Next, gossip.pc = "save", gossip'.pc = "idle",
                      NEW a \in Addr, db[a].flags \in {"Healthy", "Banned"}
               PROVE  db'[a] = db[a]
    BY ZenonT(30)
  <2>1. save_peers
    BY ZenonT(30) DEF Next, SeedStep, DialStep, ListenStep, BanStep, listen_for_addrs, clean_peers,
           remove_peers, monitor_peers, connect_more, check_peer, connect, handshake,
           add_connected, save_outbound, connect_failed, mark_defunct, listen, accept,
           add_inbound, save_inbound, ban_peer, ban_stop, ban_remove, WindowOver,
           disconnect_peer, peer_addrs_received, ReaderExits, WriterStep, Dropped
  <2> QED BY <2>1 DEF save_peers, IInv, Shape, None
<1> QED BY <1>1, <1>2, <1>3, PTL DEF Spec, GossipKeepsVerdict
=============================================================================
