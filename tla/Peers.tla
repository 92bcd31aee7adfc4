------------------------------- MODULE Peers -------------------------------
(***************************************************************************)
(* The peers of a node: the map of connected peers and the peer database  *)
(* (p2p/src/peers.rs, store.rs), the connections with their reader and     *)
(* writer threads (conn.rs, peer.rs), the listener (serv.rs), the seed     *)
(* thread that cleans, unbans, connects and pings (servers/src/grin/       *)
(* seed.rs) and the peer_connect threads it spawns.  Every thread takes    *)
(* one step per lock or database transaction.                              *)
(*                                                                         *)
(* Time is abstracted: a ban window that is over is the flag `served' of a *)
(* record, and "long enough ago" (last_connected, last_attempt) is any     *)
(* subset of the records it could hold for.                                *)
(***************************************************************************)
EXTENDS Integers, FiniteSets, FiniteSetsExt

CONSTANTS Addr,             \* peer addresses, equal when PeerAddr::eq holds
          Private,          \* those is_private_ip() holds for
          Seeds,            \* seed_list()
          Preferred,        \* config.peers_preferred
          Deny,             \* config.peers_deny
          Allow,            \* config.peers_allow, {} when not configured
          Reachable,        \* addresses a node really listens on
          Conn,             \* names of connections, reused when dead
          MaxInbound, ListenerBuffer, MaxOutbound, MinOutbound,
          ChannelCap,       \* SEND_CHANNEL_CAP
          MaxFaults         \* drops, bans, inbound connections, gossip, ...

None == "none"

ASSUME PeersAssumption ==
    /\ IsFiniteSet(Conn) /\ None \notin Conn
    /\ MaxInbound \in Nat /\ ListenerBuffer \in Nat

States == {"Healthy", "Banned", "Defunct", "Unknown"}

VARIABLES db,         \* the peer store: address -> record or NoPeer
          peers,      \* Peers::peers: address -> connection or None
          conn,       \* connection -> its sockets, threads and Peer state
          queue,      \* the mpsc channel of addresses to connect to
          seed,       \* the seed thread: pc and what it read
          dial,       \* one peer_connect thread per address
          inbound,    \* the listener thread
          banner,     \* a thread in Peers::ban_peer
          gossip,     \* a reader thread in peer_addrs_received
          faults

vars == <<db, peers, conn, queue, seed, dial, inbound, banner, gossip, faults>>

NoPeer == [flags |-> None, served |-> FALSE]

Peer(flags) == [flags |-> flags, served |-> FALSE]

Dead == [addr |-> None, dir |-> None, state |-> None, stop |-> FALSE,
         reader |-> FALSE, writer |-> FALSE, q |-> 0]

Opened(a, dir) == [addr |-> a, dir |-> dir, state |-> "Connected",
                   stop |-> FALSE, reader |-> TRUE, writer |-> TRUE, q |-> 0]

Idle == [pc |-> "idle", addr |-> None, conn |-> None]

SeedAt(pc) == [pc |-> pc, read |-> [a \in Addr |-> NoPeer], conns |-> {}]

Init == /\ db = [a \in Addr |-> NoPeer]
        /\ peers = [a \in Addr |-> None]
        /\ conn = [c \in Conn |-> Dead]
        /\ queue = Seeds \ Deny
        /\ seed = SeedAt("ping")
        /\ dial = [a \in Addr |-> Idle]
        /\ inbound = Idle
        /\ banner = Idle
        /\ gossip = [pc |-> "idle", addr |-> None]
        /\ faults = 0

-----------------------------------------------------------------------------
(* The map of peers and its filters *)

connected == {c \in Conn : \E a \in Addr : peers[a] = c /\ conn[c].state = "Connected"}

with_direction(dir) == {c \in connected : conn[c].dir = dir}

get_connected_peer(a) ==
    IF peers[a] \in connected THEN peers[a] ELSE None

is_known(a) == peers[a] # None

is_banned(a) == db[a].flags = "Banned"

is_denied(a) == a \in Deny \/ (Allow # {} /\ a \notin Allow)

enough_outbound_peers ==
    Cardinality(with_direction("Outbound"))
        >= Min({IF Allow # {} THEN Cardinality(Allow) ELSE MinOutbound, MaxOutbound})

\* Who still holds an Arc<Peer> of connection c
held(c) == \/ \E a \in Addr : peers[a] = c \/ dial[a].conn = c
           \/ inbound.conn = c \/ banner.conn = c \/ c \in seed.conns

\* A name for a new connection, if one is free
Unused == {c \in Conn : conn[c] = Dead /\ ~held(c)}

Free == IF Unused = {} THEN {} ELSE {CHOOSE c \in Unused : TRUE}

\* Peers::save_connected_peer: private peers are not saved
save_connected_peer(a) ==
    IF a \in Private THEN db ELSE [db EXCEPT ![a] = Peer("Healthy")]

\* PeerStore::update_state, once the record was found
update_state(d, a, flags) ==
    IF d[a] = NoPeer THEN d ELSE [d EXCEPT ![a] = Peer(flags)]

stop(cs) == [c \in Conn |-> IF c \in cs THEN [conn[c] EXCEPT !.stop = TRUE] ELSE conn[c]]

-----------------------------------------------------------------------------
(* The two threads of a connection, conn.rs *)

\* ConnHandle::send: an error once the writer is gone, dropped when full
CanSend(c) == conn[c].writer

Sent(c) == [conn[c] EXCEPT !.q = Min({@ + 1, ChannelCap})]

\* A peer that was told why it is banned, marked and stopped
Banned(c) == [Sent(c) EXCEPT !.state = "Banned", !.stop = TRUE]

\* The reader leaves its loop when it is told to stop or the read fails
\* (the remote closed, or sent what try_break! does not forgive)
ReaderExits(c) ==
    /\ conn[c].reader /\ held(c)
    /\ \/ conn[c].stop /\ faults' = faults
       \/ ~conn[c].stop /\ faults < MaxFaults /\ faults' = faults + 1
    /\ conn' = [conn EXCEPT ![c].reader = FALSE]
    /\ UNCHANGED <<db, peers, queue, seed, dial, inbound, banner, gossip>>

\* The writer writes a message of its channel, finds the socket shut when it
\* does, or leaves because of the stop flag
WriterStep(c) ==
    /\ conn[c].writer /\ held(c)
    /\ \/ /\ conn[c].q > 0 /\ conn[c].reader
          /\ conn' = [conn EXCEPT ![c].q = @ - 1]
       \/ /\ \/ conn[c].stop
             \/ conn[c].q > 0 /\ ~conn[c].reader
          /\ conn' = [conn EXCEPT ![c].writer = FALSE, ![c].q = 0]
    /\ UNCHANGED <<db, peers, queue, seed, dial, inbound, banner, gossip, faults>>

\* The last Arc<Peer> was dropped: the node knows no more of the connection,
\* whether its threads have ended or run until the remote closes it
Dropped(c) ==
    /\ conn[c] # Dead /\ ~held(c)
    /\ conn' = [conn EXCEPT ![c] = Dead]
    /\ UNCHANGED <<db, peers, queue, seed, dial, inbound, banner, gossip, faults>>

-----------------------------------------------------------------------------
(* The seed thread, seed.rs: one loop of connect_and_monitor *)

\* The connections of one direction that may be dropped when there are too
\* many, and how many to drop
Spare(dir) == {c \in with_direction(dir) : conn[c].addr \notin Preferred}

Excess(dir, max) == Min({Max({Cardinality(with_direction(dir)) - max, 0}),
                         Cardinality(Spare(dir))})

\* Peers::remove_expired: defunct records last connected to long ago
remove_expired(old) == [a \in Addr |-> IF a \in old THEN NoPeer ELSE db[a]]

\* A new loop: expired peers are removed; listen_for_addrs drains the channel
\* and spawns a peer_connect thread for every address without an attempt in
\* its connecting history
listen_for_addrs ==
    /\ seed.pc = "ping" /\ seed.conns = {}
    /\ \E old \in SUBSET {a \in Addr : db[a].flags = "Defunct"} :
          /\ faults' = faults + Cardinality(old)
          /\ faults' <= MaxFaults
          /\ db' = remove_expired(old)
    /\ dial' = [a \in Addr |-> IF a \in queue /\ dial[a].pc = "idle"
                               THEN [Idle EXCEPT !.pc = "start"] ELSE dial[a]]
    /\ queue' = {}
    /\ seed' = SeedAt("clean")
    /\ UNCHANGED <<peers, conn, inbound, banner, gossip>>

\* The first half of Peers::clean_peers: which addresses to remove.  Which peer
\* is found stuck, or abusive and then banned on the spot, is arbitrary.
clean_peers ==
    /\ seed.pc = "clean"
    /\ \E verdict \in {"stuck", "abusive"}, bad \in {{}} \union {{c} : c \in connected} :
       \E over_out \in SUBSET Spare("Outbound"), over_in \in SUBSET Spare("Inbound") :
          /\ faults' = faults + Cardinality(bad)
          /\ faults' <= MaxFaults
          /\ Cardinality(over_out) = Excess("Outbound", MaxOutbound)
          /\ Cardinality(over_in) = Excess("Inbound", MaxInbound)
          /\ LET banned == {c \in bad : verdict = "abusive" /\ CanSend(c)}
                 flagged == {a \in Addr : peers[a] \in bad}
             IN  /\ db' = [a \in Addr |->
                             IF a \notin flagged THEN db[a]
                             ELSE IF verdict = "abusive" THEN Peer("Banned")
                             ELSE update_state(db, a, "Defunct")[a]]
                 /\ conn' = [c \in Conn |-> IF c \in banned THEN Banned(c) ELSE conn[c]]
                 /\ peers' = [a \in Addr |-> IF peers[a] \in banned THEN None ELSE peers[a]]
          /\ seed' = [SeedAt("remove") EXCEPT
                        !.conns = bad \union over_out \union over_in
                           \union {c \in Conn : /\ \E a \in Addr : peers[a] = c
                                                /\ conn[c].state # "Connected"}]
    /\ UNCHANGED <<queue, dial, inbound, banner, gossip>>

\* Its second half stops and removes, under the lock, whatever the map holds
\* at those addresses
remove_peers ==
    /\ seed.pc = "remove"
    /\ LET addrs == {conn[c].addr : c \in seed.conns}
       IN  /\ conn' = stop({peers[a] : a \in addrs} \ {None})
           /\ peers' = [a \in Addr |-> IF a \in addrs THEN None ELSE peers[a]]
    /\ seed' = SeedAt("monitor")
    /\ UNCHANGED <<db, queue, dial, inbound, banner, gossip, faults>>

\* monitor_peers reads all the records ...
monitor_peers ==
    /\ seed.pc = "monitor"
    /\ seed' = [SeedAt("act") EXCEPT !.read = db]
    /\ UNCHANGED <<db, peers, conn, queue, dial, inbound, banner, gossip, faults>>

\* ... unbans those whose ban window is over (Peers::unban_peer looks again
\* whether the peer is banned; a private peer is deleted) ...
unban_peer(a) ==
    IF seed.read[a].flags = "Banned" /\ seed.read[a].served /\ is_banned(a)
    THEN (IF a \in Private THEN NoPeer ELSE Peer("Healthy"))
    ELSE db[a]

\* ... and chooses addresses: the allow list alone when there is one, the seeds
\* when the database was empty, else the preferred peers and, of the records
\* read, the healthy ones we are not connected to, the unknown and the defunct
\* ones, with the seeds while there are too few outbound peers.  When there
\* are enough, healthy and defunct peers are tried at most once an hour.
Candidates(rested) ==
    LET enough == enough_outbound_peers
        of(flags) == {a \in Addr \ Deny : seed.read[a].flags = flags}
        due == IF enough THEN rested ELSE Addr
        missing == {a \in Addr : get_connected_peer(a) = None}
        new == (of("Healthy") \intersect due \intersect missing) \union of("Unknown")
                 \union (of("Defunct") \intersect due)
                 \union (IF enough THEN {} ELSE Seeds \ Deny)
    IN  IF Allow # {} THEN {a \in Allow \ Deny : ~is_known(a)}
        ELSE IF \A a \in Addr : seed.read[a] = NoPeer THEN (Preferred \union Seeds) \ Deny
        ELSE ((Preferred \ Deny) \intersect missing) \union {a \in new : ~is_known(a)}

connect_more ==
    /\ seed.pc = "act"
    /\ \E rested \in SUBSET Addr :
          /\ enough_outbound_peers \/ rested = {}
          /\ queue' = queue \union Candidates(rested)
    /\ db' = [a \in Addr |-> unban_peer(a)]
    /\ seed' = [SeedAt("ping") EXCEPT !.conns = connected]
    /\ UNCHANGED <<peers, conn, dial, inbound, banner, gossip, faults>>

\* A slip: the dead peer is stopped and stays in the map
MutCheckPeer(c) ==
    /\ seed.pc = "ping" /\ c \in seed.conns
    /\ IF CanSend(c)
       THEN conn' = [conn EXCEPT ![c] = Sent(c)] /\ UNCHANGED db
       ELSE /\ db' = update_state(db, conn[c].addr, "Defunct")
            /\ conn' = stop({c})
    /\ seed' = [seed EXCEPT !.conns = @ \ {c}]
    /\ UNCHANGED <<peers, queue, dial, inbound, banner, gossip, faults>>

\* Peers::check_all, one connection of its snapshot: a peer that cannot be
\* pinged is marked defunct, stopped, and the map loses the entry of its address
check_peer(c) ==
    /\ seed.pc = "ping" /\ c \in seed.conns
    /\ IF CanSend(c)
       THEN conn' = [conn EXCEPT ![c] = Sent(c)] /\ UNCHANGED <<db, peers>>
       ELSE /\ db' = update_state(db, conn[c].addr, "Defunct")
            /\ conn' = stop({c})
            /\ peers' = [peers EXCEPT ![conn[c].addr] = None]
    /\ seed' = [seed EXCEPT !.conns = @ \ {c}]
    /\ UNCHANGED <<queue, dial, inbound, banner, gossip, faults>>

SeedStep == \/ listen_for_addrs \/ clean_peers \/ remove_peers
            \/ monitor_peers \/ connect_more
            \/ \E c \in Conn : check_peer(c)

-----------------------------------------------------------------------------
(* A peer_connect thread: Server::connect(a) and what follows it *)

DialTo(a, pc, c) == dial' = [dial EXCEPT ![a] = [Idle EXCEPT !.pc = pc, !.conn = c]]

\* Denied, or already connected, or go on to the TCP connection
connect(a) ==
    /\ dial[a].pc = "start"
    /\ DialTo(a, IF is_denied(a) THEN "failed"
                 ELSE IF get_connected_peer(a) # None THEN "idle" ELSE "handshake", None)
    /\ UNCHANGED <<db, peers, conn, queue, seed, inbound, banner, gossip, faults>>

\* TcpStream::connect_timeout and Peer::connect, whose Peer::new starts the
\* two threads of the connection
handshake(a) ==
    /\ dial[a].pc = "handshake"
    /\ \/ /\ a \in Reachable
          /\ \E c \in Free : /\ conn' = [conn EXCEPT ![c] = Opened(a, "Outbound")]
                             /\ DialTo(a, "add", c)
          /\ faults' = faults
       \/ /\ \/ a \notin Reachable /\ faults' = faults
             \/ a \in Reachable /\ faults < MaxFaults /\ faults' = faults + 1
          /\ DialTo(a, "failed", None)
          /\ UNCHANGED conn
    /\ UNCHANGED <<db, peers, queue, seed, inbound, banner, gossip>>

\* With enough outbound peers a peer that is not preferred is stopped and only
\* recorded; otherwise it is inserted in the map
add_connected(a) ==
    /\ dial[a].pc = "add"
    /\ IF enough_outbound_peers /\ a \notin Preferred
       THEN conn' = stop({dial[a].conn}) /\ UNCHANGED peers
       ELSE peers' = [peers EXCEPT ![a] = dial[a].conn] /\ UNCHANGED conn
    /\ DialTo(a, "save", dial[a].conn)
    /\ UNCHANGED <<db, queue, seed, inbound, banner, gossip, faults>>

\* ... and saved; unless there are enough outbound peers now, it is asked for
\* more peers
save_outbound(a) ==
    /\ dial[a].pc = "save"
    /\ db' = save_connected_peer(a)
    /\ conn' = IF enough_outbound_peers \/ ~CanSend(dial[a].conn) THEN conn
               ELSE [conn EXCEPT ![dial[a].conn] = Sent(dial[a].conn)]
    /\ dial' = [dial EXCEPT ![a] = Idle]
    /\ UNCHANGED <<peers, queue, seed, inbound, banner, gossip, faults>>

\* A failed attempt: PeerStore::update_state reads the record ...
connect_failed(a) ==
    /\ dial[a].pc = "failed"
    /\ DialTo(a, IF db[a] = NoPeer THEN "idle" ELSE "defunct", None)
    /\ UNCHANGED <<db, peers, conn, queue, seed, inbound, banner, gossip, faults>>

\* ... and writes it back in a transaction of its own
mark_defunct(a) ==
    /\ dial[a].pc = "defunct"
    /\ db' = [db EXCEPT ![a] = Peer("Defunct")]
    /\ dial' = [dial EXCEPT ![a] = Idle]
    /\ UNCHANGED <<peers, conn, queue, seed, inbound, banner, gossip, faults>>

DialStep(a) == \/ connect(a) \/ handshake(a) \/ add_connected(a) \/ save_outbound(a)
               \/ connect_failed(a) \/ mark_defunct(a)

-----------------------------------------------------------------------------
(* The listener thread: Server::listen, one connection at a time *)

\* A slip: one connection too many is let in
MutUndesirable(a) ==
    \/ Cardinality(with_direction("Inbound")) > MaxInbound + ListenerBuffer
    \/ is_banned(a)
    \/ is_known(a)

\* Server::check_undesirable refuses a connection over the limit, of a banned
\* or of a known peer
check_undesirable(a) ==
    \/ Cardinality(with_direction("Inbound")) >= MaxInbound + ListenerBuffer
    \/ is_banned(a)
    \/ is_known(a)

listen(a) ==
    /\ inbound.pc = "idle" /\ faults < MaxFaults
    /\ ~check_undesirable(a)
    /\ inbound' = [pc |-> "hand", addr |-> a, conn |-> None]
    /\ faults' = faults + 1
    /\ UNCHANGED <<db, peers, conn, queue, seed, dial, banner, gossip>>

\* Handshake::accept: a bad Hand message bans the address, and so does the
\* Banned error itself (add_banned, which spares private addresses); a denied
\* peer is closed
accept ==
    /\ inbound.pc = "hand"
    /\ \/ /\ ~is_banned(inbound.addr) /\ ~is_denied(inbound.addr)
          /\ \E c \in Free : /\ conn' = [conn EXCEPT ![c] = Opened(inbound.addr, "Inbound")]
                             /\ inbound' = [inbound EXCEPT !.pc = "add", !.conn = c]
          /\ UNCHANGED <<db, faults>>
       \/ /\ is_denied(inbound.addr) /\ ~is_banned(inbound.addr)
          /\ inbound' = Idle
          /\ UNCHANGED <<db, conn, faults>>
       \/ /\ IF is_banned(inbound.addr) THEN faults' = faults
             ELSE faults < MaxFaults /\ faults' = faults + 1
          /\ db' = IF inbound.addr \in Private THEN db
                   ELSE [db EXCEPT ![inbound.addr] = Peer("Banned")]
          /\ inbound' = Idle
          /\ UNCHANGED conn
    /\ UNCHANGED <<peers, queue, seed, dial, banner, gossip>>

add_inbound ==
    /\ inbound.pc = "add"
    /\ peers' = [peers EXCEPT ![inbound.addr] = inbound.conn]
    /\ inbound' = [inbound EXCEPT !.pc = "save"]
    /\ UNCHANGED <<db, conn, queue, seed, dial, banner, gossip, faults>>

save_inbound ==
    /\ inbound.pc = "save"
    /\ db' = save_connected_peer(inbound.addr)
    /\ inbound' = Idle
    /\ UNCHANGED <<peers, conn, queue, seed, dial, banner, gossip, faults>>

ListenStep == accept \/ add_inbound \/ save_inbound

-----------------------------------------------------------------------------
(* Peers::ban_peer, from the API or after a bad block; and its end *)

ban_peer(a) ==
    /\ banner.pc = "idle" /\ faults < MaxFaults
    /\ faults' = faults + 1
    /\ db' = [db EXCEPT ![a] = Peer("Banned")]
    /\ banner' = [pc |-> "stop", addr |-> a, conn |-> None]
    /\ UNCHANGED <<peers, conn, queue, seed, dial, inbound, gossip>>

\* The connected peer, if any, is told why, marked and stopped; a reason that
\* cannot be sent ends the call
ban_stop ==
    /\ banner.pc = "stop"
    /\ LET c == get_connected_peer(banner.addr)
       IN  IF c = None \/ ~CanSend(c)
           THEN banner' = Idle /\ UNCHANGED conn
           ELSE /\ conn' = [conn EXCEPT ![c] = Banned(c)]
                /\ banner' = [banner EXCEPT !.pc = "remove", !.conn = c]
    /\ UNCHANGED <<db, peers, queue, seed, dial, inbound, gossip, faults>>

ban_remove ==
    /\ banner.pc = "remove"
    /\ peers' = [peers EXCEPT ![banner.addr] = None]
    /\ banner' = Idle
    /\ UNCHANGED <<db, conn, queue, seed, dial, inbound, gossip, faults>>

BanStep == ban_stop \/ ban_remove

\* The ban window of a banned peer is over
WindowOver(a) ==
    /\ is_banned(a) /\ ~db[a].served
    /\ db' = [db EXCEPT ![a].served = TRUE]
    /\ UNCHANGED <<peers, conn, queue, seed, dial, inbound, banner, gossip, faults>>

\* An API call that disconnects a peer without banning it
disconnect_peer(a) ==
    /\ peers[a] # None /\ faults < MaxFaults
    /\ faults' = faults + 1
    /\ conn' = stop({peers[a]})
    /\ peers' = [peers EXCEPT ![a] = None]
    /\ UNCHANGED <<db, queue, seed, dial, inbound, banner, gossip>>

-----------------------------------------------------------------------------
(* peer_addrs_received: an address list from a peer *)

peer_addrs_received(a) ==
    /\ gossip.pc = "idle" /\ faults < MaxFaults
    /\ faults' = faults + 1
    /\ db[a].flags \in {None, "Defunct"}
    /\ gossip' = [pc |-> "save", addr |-> a]
    /\ UNCHANGED <<db, peers, conn, queue, seed, dial, inbound, banner>>

\* A slip: the records are written as they were found to be
MutSavePeers ==
    /\ gossip.pc = "save"
    /\ db' = IF gossip.addr \notin Private
             THEN [db EXCEPT ![gossip.addr] = Peer("Unknown")] ELSE db
    /\ gossip' = [pc |-> "idle", addr |-> None]
    /\ UNCHANGED <<peers, conn, queue, seed, dial, inbound, banner, faults>>

\* PeerStore::save_peers looks again: only a defunct or absent record is
\* overwritten; private addresses are filtered out by Peers::save_peers
save_peers ==
    /\ gossip.pc = "save"
    /\ db' = IF gossip.addr \notin Private /\ db[gossip.addr].flags \in {None, "Defunct"}
             THEN [db EXCEPT ![gossip.addr] = Peer("Unknown")] ELSE db
    /\ gossip' = [pc |-> "idle", addr |-> None]
    /\ UNCHANGED <<peers, conn, queue, seed, dial, inbound, banner, faults>>

Next == \/ SeedStep
        \/ \E a \in Addr : DialStep(a)
        \/ \E a \in Addr : listen(a)
        \/ ListenStep
        \/ \E a \in Addr : ban_peer(a)
        \/ BanStep
        \/ \E a \in Addr : WindowOver(a) \/ disconnect_peer(a) \/ peer_addrs_received(a)
        \/ save_peers
        \/ \E c \in Conn : ReaderExits(c) \/ WriterStep(c) \/ Dropped(c)

\* What the threads of a connection do of their own accord
ConnStep(c) == (conn[c].stop /\ ReaderExits(c)) \/ WriterStep(c) \/ Dropped(c)

\* Threads that can go on do, and ban windows end; the events that cost a fault
\* need never happen.  Weaker than fairness to each thread: the listener, the
\* banning and gossip threads and the clock share a condition, and so do the
\* dialling threads, and the two threads of a connection.
Fairness ==
    /\ WF_vars(SeedStep)
    /\ WF_vars(\E a \in Addr : DialStep(a))
    /\ WF_vars(ListenStep \/ BanStep \/ save_peers \/ \E a \in Addr : WindowOver(a))
    /\ \A c \in Conn : WF_vars(ConnStep(c))

Spec == Init /\ [][Next]_vars

FairSpec == Spec /\ Fairness

-----------------------------------------------------------------------------
\* The number of connected inbound peers never exceeds peer_max_inbound_count
\* plus the listener's buffer (check_undesirable): nothing happens between the
\* listener's count and its insertion that could add another inbound peer.
InboundBounded ==
    Cardinality(with_direction("Inbound")) <= MaxInbound + ListenerBuffer

\* An address list from a peer never changes what we know of a peer that is
\* healthy or banned, whatever happened to its record between the read of
\* peer_addrs_received and the write of save_peers.
GossipKeepsVerdict ==
    [][gossip.pc = "save" /\ gossip'.pc = "idle" =>
         \A a \in Addr : db[a].flags \in {"Healthy", "Banned"} => db'[a] = db[a]]_vars

\* The seed thread keeps the peers in order: again and again
\*   - there are enough outbound peers, or every seed that can be reached is
\*     connected, to or from;
\*   - the outbound peers that are not preferred are within their limit;
\*   - no connection of the map has lost its socket (the next ping dies in the
\*     writer, the one after it finds the channel closed, see check_all).
PeersRecover ==
    []<>(/\ \/ enough_outbound_peers
            \/ \A a \in Seeds \intersect Reachable : is_denied(a) \/ get_connected_peer(a) # None
         /\ Excess("Outbound", MaxOutbound) = 0
         /\ \A a \in Addr : peers[a] # None => conn[peers[a]].reader)

\* A ban lasts for its window: no step but the API's replaces a banned record
\* whose window is not over.
BanStands ==
    [][\A a \in Addr : is_banned(a) /\ ~db[a].served => is_banned(a)']_vars
=============================================================================
