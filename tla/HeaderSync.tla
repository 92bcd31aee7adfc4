------------------------------ MODULE HeaderSync -----------------------------
(***************************************************************************)
(* Header synchronisation: the header part of the sync loop                *)
(* (servers/src/grin/sync/header_sync.rs, syncer.rs), the bookkeeping of   *)
(* requested header segments in SyncState (chain/src/types.rs), and the    *)
(* peer threads that receive headers and header segments                   *)
(* (NetToChainAdapter in servers/src/common/adapters.rs).                  *)
(*                                                                         *)
(* Headers of the peers' chain are heights.  The node may be on a fork of  *)
(* its own above ForkPoint: a tip is a height and whether it is on the     *)
(* chain of the peers.  The bodies stay behind, so that the node needs to  *)
(* sync while it has peers.  Every step holds at most one lock of the code *)
(* or reads what no other thread writes in between.                        *)
(***************************************************************************)
EXTENDS Integers, FiniteSets, FiniteSetsExt

CONSTANTS
    Peer,
    PeerHeight(_),
    PihdPeer,           \* the peers with the PIHD_HIST capability
    Outbound,           \* the peers we connected to
    Capacity,           \* headers per segment, and MAX_BLOCK_HEADERS
    Slack,              \* the 4 headers header_sync_due does not wait for
    MaxInFlight,        \* MAX_IN_FLIGHT_SEGMENTS, also the lookahead of the cache
    MaxTimedOut,        \* MAX_TIMED_OUT_SEGMENTS
    MaxPeerFailures,    \* MAX_PEER_FAILURES_BEFORE_BLOCK
    ForkPoint, OwnHeight,
    MaxFaults           \* bound of the runs on timeouts, refusals and lost peers

VARIABLES
    status, sync_head,  \* SyncStatus, with the sync_head of HeaderSync
    header_head, known, \* the chain: its header head, the headers of the peers it has
    requests,           \* requested_pihd_header_segments
    rejected,           \* rejected_pihd_peers
    cache, anchor,      \* pihd_header_cache and pihd_header_cache_anchor
    loop,               \* the sync thread: where it is, and what it has read
    due,                \* prev_header_sync, with whether its time is over, and stalling_ts
    syncing_peer,
    pihd,               \* pihd_failure_count, pihd_stalling_ts, pihd_disabled_until
    peer_failures,      \* pihd_peer_failures
    blocked,            \* peers.block_peer
    pending_legacy,
    connected, banned,
    net,                \* requests that peers have not answered
    thread,             \* per peer, the thread that handles its messages
    faults

chain == <<header_head, known>>
state == <<status, sync_head>>
local == <<due, syncing_peer, pihd, peer_failures, blocked, pending_legacy>>
vars == <<state, chain, requests, rejected, cache, anchor, loop, local, connected, banned, net, thread, faults>>
-----------------------------------------------------------------------------
None == [none |-> TRUE]
Tip == [height : 0..Max({OwnHeight} \cup {PeerHeight(p) : p \in Peer}), main : BOOLEAN]
Work(tip) == 2 * tip.height - (IF tip.main THEN 0 ELSE 1)
PeerWork(p) == 2 * PeerHeight(p)
OnMain(tip) == tip.main \/ tip.height <= ForkPoint

\* pihd_header_segment_start_height, _end_height and next_pihd_header_segment_idx
StartHeight(idx) == idx * Capacity + 1
EndHeight(idx) == (idx + 1) * Capacity
NextIdx(height) == height \div Capacity
Segments == 0..NextIdx(Max({PeerHeight(p) : p \in Peer}))

\* get_locator_heights, and the header of the peer's chain it leads to
LocatorHeights(h) == {0} \cup ({h - (2^k - 2) : k \in 1..h + 1} \cap 0..h)
CommonHeight(tip) ==
    IF OnMain(tip) THEN tip.height ELSE Max({h \in LocatorHeights(tip.height) : h <= ForkPoint})

InHeaderSync == status \in {"Legacy", "Pihd"}
Idle == [pc |-> "idle"]
\* thread.pc is "idle", then "cache", "process" and "apply" with what it has read.

Init ==
    /\ status = "NoSync" /\ sync_head = None
    /\ header_head = [height |-> OwnHeight, main |-> OwnHeight = ForkPoint]
    /\ known = ForkPoint
    /\ requests = {} /\ rejected = {}
    /\ cache = {} /\ anchor = None
    /\ loop = [pc |-> "start"]
    /\ due = [over |-> FALSE, latest |-> 0, prev |-> 0, stalling |-> FALSE]
    /\ syncing_peer = None
    /\ pihd = [failures |-> 0, stalled |-> FALSE, disabled |-> FALSE]
    /\ peer_failures = [p \in Peer |-> 0]
    /\ blocked = {}
    /\ pending_legacy = None
    /\ connected = Peer /\ banned = {}
    /\ net = {}
    /\ thread = [p \in Peer |-> Idle]
    /\ faults = 0
-----------------------------------------------------------------------------
\* The sync thread.

\* sync_loop up to check_run: without peers there is nothing to sync.
start ==
    /\ loop.pc = "start"
    /\ IF connected = {}
       THEN /\ status' = "NoSync" /\ sync_head' = None
            /\ UNCHANGED loop
       ELSE /\ loop' = [pc |-> "check",
                        head |-> IF InHeaderSync THEN sync_head ELSE header_head,
                        highest |-> Max({PeerHeight(p) : p \in connected})]
            /\ UNCHANGED state
    /\ UNCHANGED <<chain, requests, rejected, cache, anchor, local, connected, banned, net, thread, faults>>

\* SyncState::clear_pihd_header_segments: a new generation makes the anchor stale.
Stale(a) == IF a = None THEN None ELSE [a EXCEPT !.stale = TRUE]

\* header_sync_due; fraud: the peer has been stalling for two minutes.
AllReceived(h) == h >= due.prev + Capacity - Slack
Stalling(h) == h <= due.latest /\ due.over
Due(h) == status = "NoSync" \/ AllReceived(h) \/ Stalling(h)
Fraud(tip) ==
    /\ due.stalling /\ Stalling(tip.height) /\ ~AllReceived(tip.height)
    /\ syncing_peer # None
    /\ status # "NoSync"
    /\ Work(tip) < PeerWork(syncing_peer)
NextDue(h) ==
    IF Due(h) THEN [over |-> FALSE, latest |-> h, prev |-> h, stalling |-> Stalling(h) /\ ~AllReceived(h)]
    ELSE IF h > due.latest THEN [due EXCEPT !.over = FALSE, !.latest = h]
    ELSE due

Complete(r, h) == h >= Min({EndHeight(r.idx), r.target})

\* The requests whose answer is still on its way; one that times out is a fault.
Underway(r) ==
    \/ [peer |-> r.peer, idx |-> r.idx] \in net
    \/ thread[r.peer].pc = "cache" /\ thread[r.peer].idx = r.idx
LegacyUnderway == \E m \in net : m.peer = pending_legacy.peer /\ "from" \in DOMAIN m
Faults(late, legacy_late, fraud) ==
    faults + Cardinality({r \in late : Underway(r)}) + (IF legacy_late /\ LegacyUnderway THEN 1 ELSE 0)
           + (IF fraud THEN 1 ELSE 0)

Failed(lost, h) == {r.peer : r \in {s \in lost : ~Complete(s, h) /\ ~s.responded}} \cup rejected

\* cleanup_pending_requests and header_sync_due; late are requests without an answer
\* in time, legacy_late says so of the request for headers.
cleanup_pending_requests(late, legacy_late, fraud) ==
    LET h == loop.head.height
        lost == {r \in requests : r.peer \notin connected \/ r \in late}
        failed == Failed(lost, h)
        failures == Min({MaxTimedOut, (IF h > due.latest THEN 0 ELSE pihd.failures) + Cardinality(failed)})
        stalled == pihd.stalled /\ h <= due.latest
        disable == failures >= MaxTimedOut /\ stalled
        block == {p \in failed \ blocked : peer_failures[p] + 1 >= MaxPeerFailures}
    IN  /\ loop.pc = "check"
        /\ late \subseteq {r \in requests : ~r.responded}
        /\ legacy_late => pending_legacy # None
        /\ fraud => Fraud(loop.head)
        /\ Faults(late, legacy_late, fraud) <= MaxFaults
        /\ faults' = Faults(late, legacy_late, fraud)
        /\ requests' = IF disable THEN {}
                       ELSE {r \in requests : ~Complete(r, h) /\ (r.responded \/ r \notin lost)}
        /\ rejected' = {}
        /\ anchor' = IF disable THEN Stale(anchor) ELSE anchor
        /\ pihd' = IF disable THEN [failures |-> 0, stalled |-> FALSE, disabled |-> TRUE]
                   ELSE [pihd EXCEPT !.failures = failures, !.stalled = stalled]
        /\ peer_failures' = [p \in Peer |-> IF p \in failed THEN Min({MaxPeerFailures, peer_failures[p] + 1})
                                            ELSE peer_failures[p]]
        /\ blocked' = blocked \cup block
        /\ pending_legacy' =
              IF \/ pending_legacy = None \/ h > pending_legacy.height \/ legacy_late
                 \/ pending_legacy.peer \notin connected \ (block \cap Outbound)
              THEN None ELSE pending_legacy
        /\ due' = NextDue(h)
        /\ banned' = IF fraud THEN banned \cup {syncing_peer} ELSE banned
        /\ connected' = connected \ ((block \cap Outbound) \cup banned')
        /\ syncing_peer' = IF Due(h) THEN None ELSE syncing_peer
        /\ loop' = [loop EXCEPT !.pc = IF Due(h) THEN "update" ELSE "body"]
        /\ UNCHANGED <<state, chain, cache, net, thread>>

\* choose_pihd_peers, with pihd_enabled
PihdPeers(tip) ==
    {p \in connected \cap PihdPeer : PeerWork(p) > Work(tip) /\ PeerHeight(p) > tip.height}
SyncPeers ==
    IF pending_legacy # None /\ pending_legacy.peer \in connected /\ PeerWork(pending_legacy.peer) > Work(loop.head)
    THEN {pending_legacy.peer}
    ELSE {p \in connected : \A q \in connected : PeerWork(q) <= PeerWork(p)}

pihd_active == status = "Pihd" /\ ~pihd.disabled
clear_pihd_header_segments ==
    /\ requests' = IF pihd_active THEN {} ELSE requests
    /\ anchor' = IF pihd_active THEN Stale(anchor) ELSE anchor

\* check_run after header_sync_due, with PIHD: the status gets the sync_head that was
\* read when the loop began.
CheckRunPihd ==
    /\ loop.pc = "update"
    /\ ~pihd.disabled
    /\ PihdPeers(loop.head) # {}
    /\ status' = "Pihd" /\ sync_head' = loop.head
    /\ loop' = [loop EXCEPT !.pc = "request"]
    /\ UNCHANGED <<chain, requests, rejected, cache, anchor, local, connected, banned, net, thread, faults>>

\* pihd_header_sync: the first segments that are not requested, each from a peer that
\* has its first header.
MutOpen == {i \in Segments : i >= NextIdx(loop.head.height)}
Open == {i \in Segments : i >= NextIdx(loop.head.height) /\ \A r \in requests : r.idx # i}
pihd_header_sync ==
    LET Able(i) == {p \in PihdPeers(loop.head) : PeerHeight(p) >= StartHeight(i)}
        count == MaxInFlight - Cardinality(requests)
        Chosen == {i \in Open : Able(i) # {} /\ Cardinality({j \in Open : j <= i}) <= count}
    IN  /\ loop.pc = "request"
        /\ \E from \in [Chosen -> connected] :
              /\ \A i \in Chosen : from[i] \in Able(i)
              /\ requests' = requests \cup
                    {[idx |-> i, peer |-> from[i], responded |-> FALSE, target |-> PeerHeight(from[i])] : i \in Chosen}
              /\ net' = net \cup {[peer |-> from[i], idx |-> i] : i \in Chosen}
        /\ loop' = [loop EXCEPT !.pc = "body"]
        /\ UNCHANGED <<state, chain, rejected, cache, anchor, local, connected, banned, thread, faults>>

\* check_run without PIHD, and request_headers
CheckRunLegacy ==
    /\ loop.pc = "update"
    /\ pihd.disabled \/ PihdPeers(loop.head) = {}
    /\ clear_pihd_header_segments
    /\ \/ /\ connected = {} \/ \E p \in SyncPeers : PeerWork(p) <= Work(loop.head)
          /\ UNCHANGED <<state, pending_legacy, syncing_peer, net>>
       \/ \E p \in SyncPeers :
             /\ PeerWork(p) > Work(loop.head)
             /\ status' = "Legacy" /\ sync_head' = loop.head
             /\ IF pending_legacy # None /\ pending_legacy.peer \in connected
                THEN /\ syncing_peer' = IF pending_legacy.peer = p THEN p ELSE syncing_peer
                     /\ UNCHANGED <<pending_legacy, net>>
                ELSE /\ pending_legacy' = [peer |-> p, height |-> loop.head.height]
                     /\ syncing_peer' = p
                     /\ net' = net \cup {[peer |-> p, from |-> CommonHeight(loop.head)]}
    /\ loop' = [loop EXCEPT !.pc = "body"]
    /\ UNCHANGED <<chain, rejected, cache, due, pihd, peer_failures, blocked, connected, banned, thread, faults>>

\* The rest of sync_loop: once the headers are there the bodies are next.
body ==
    /\ loop.pc = "body"
    /\ loop' = [pc |-> "start"]
    /\ IF loop.head.height < loop.highest THEN UNCHANGED state
       ELSE status' = "BodySync" /\ sync_head' = None
    /\ UNCHANGED <<chain, requests, rejected, cache, anchor, local, connected, banned, net, thread, faults>>
-----------------------------------------------------------------------------
\* The threads of the peers.

\* prune_pihd_header_cache
Forget(R, C) == {r \in R : ~\E e \in C : e.idx = r.idx /\ e.peer = r.peer}
Kept(tip) ==
    IF anchor # None /\ (anchor.stale \/ tip.height < anchor.tip.height
                           \/ (tip.height = anchor.tip.height /\ tip # anchor.tip))
    THEN {}
    ELSE {e \in cache : e.idx \in NextIdx(tip.height)..NextIdx(tip.height) + MaxInFlight}
NewAnchor(tip) == [tip |-> tip, stale |-> FALSE]

\* receive_header_segment up to the cache
ReceiveSegment(p, m) ==
    LET mine == {r \in requests : r.idx = m.idx /\ r.peer = p}
    IN  /\ thread[p].pc = "idle"
        /\ m \in net /\ m.peer = p /\ "idx" \in DOMAIN m
        /\ p \in connected
        /\ net' = net \ {m}
        /\ \/ \* not requested, or no longer
              /\ mine = {}
              /\ IF anchor # None /\ anchor.stale
                 THEN cache' = {} /\ anchor' = None
                 ELSE UNCHANGED <<cache, anchor>>
              /\ UNCHANGED <<requests, rejected, thread, faults, connected, banned>>
           \/ \* empty, or shorter than the peer said
              /\ mine # {}
              /\ faults < MaxFaults
              /\ faults' = faults + 1
              /\ requests' = requests \ mine
              /\ rejected' = rejected \cup {p}
              /\ UNCHANGED <<cache, anchor, thread, connected, banned>>
           \/ \* not a chain of headers: the peer is banned
              /\ mine # {}
              /\ faults < MaxFaults
              /\ faults' = faults + 1
              /\ connected' = connected \ {p} /\ banned' = banned \cup {p}
              /\ UNCHANGED <<requests, rejected, cache, anchor, thread>>
           \/ /\ mine # {}
              /\ thread' = IF ~InHeaderSync THEN thread
                           ELSE [thread EXCEPT ![p] = [pc |-> "cache", idx |-> m.idx, head |-> sync_head]]
              /\ UNCHANGED <<requests, rejected, cache, anchor, faults, connected, banned>>
        /\ UNCHANGED <<state, chain, loop, local>>

\* cache_pihd_header_segment; the cache never reaches its limit because it is pruned
\* to the lookahead first.
cache_pihd_header_segment(p) ==
    LET t == thread[p]
        kept == Kept(t.head)
        pruned == Forget(requests, cache \ kept)
        next == NextIdx(t.head.height)
        entry == [idx |-> t.idx, peer |-> p, last |-> Min({EndHeight(t.idx), PeerHeight(p)})]
    IN  /\ t.pc = "cache"
        /\ anchor' = NewAnchor(t.head)
        /\ IF t.idx \notin next..next + MaxInFlight
           THEN /\ cache' = kept
                /\ requests' = Forget(pruned, {entry})
           ELSE /\ cache' = IF \E e \in kept : e.idx = t.idx THEN kept ELSE kept \cup {entry}
                /\ requests' = {IF r.idx = t.idx /\ r.peer = p THEN [r EXCEPT !.responded = TRUE] ELSE r : r \in pruned}
        /\ thread' = [thread EXCEPT ![p] = [pc |-> "process"]]
        /\ UNCHANGED <<state, chain, rejected, loop, local, connected, banned, net, faults>>

\* process_ready_pihd_header_segments, up to process_header_batch
process_ready_pihd_header_segments(p) ==
    LET kept == Kept(sync_head)
        ready == {e \in kept : e.idx = NextIdx(sync_head.height)}
    IN  /\ thread[p].pc = "process"
        /\ IF status # "Pihd"
           THEN /\ cache' = {} /\ anchor' = None
                /\ thread' = [thread EXCEPT ![p] = Idle]
                /\ UNCHANGED requests
           ELSE /\ anchor' = NewAnchor(sync_head)
                /\ requests' = Forget(requests, cache \ kept)
                /\ cache' = kept \ ready
                /\ thread' = [thread EXCEPT ![p] =
                      IF ready = {} THEN Idle
                      ELSE [pc |-> "apply", entry |-> CHOOSE e \in ready : TRUE, head |-> sync_head]]
        /\ UNCHANGED <<state, chain, rejected, loop, local, connected, banned, net, faults>>

\* sync_block_headers of from + 1 .. last with the sync_head that was read, and
\* update_header_sync
process_header_batch(last, head) ==
    LET tip == [height |-> last, main |-> TRUE]
        OnCurrentChain == OnMain(head) /\ head.height <= last
    IN  /\ known' = Max({known, last})
        /\ header_head' = IF Work(tip) > Work(header_head) THEN tip ELSE header_head
        /\ sync_head' = IF InHeaderSync /\ (~OnCurrentChain \/ Work(tip) > Work(head)) THEN tip ELSE sync_head
        /\ UNCHANGED status

After == [pc |-> "process"]

\* The rest of process_ready_pihd_header_segments: headers whose predecessor is not
\* known are an error that is nobody's fault.
ApplySegment(p) ==
    LET t == thread[p]
        mine == {r \in requests : r.idx = t.entry.idx /\ r.peer = t.entry.peer}
    IN  /\ t.pc = "apply"
        /\ requests' = requests \ mine
        /\ IF StartHeight(t.entry.idx) - 1 > known
           THEN /\ rejected' = rejected \cup {t.entry.peer}
                /\ thread' = [thread EXCEPT ![p] = Idle]
                /\ UNCHANGED <<chain, state>>
           ELSE /\ process_header_batch(t.entry.last, t.head)
                /\ thread' = [thread EXCEPT ![p] = After]
                /\ UNCHANGED rejected
        /\ UNCHANGED <<cache, anchor, loop, local, connected, banned, net, faults>>

\* headers_received, the answer of locate_headers
headers_received(p, m) ==
    /\ thread[p].pc = "idle"
    /\ m \in net /\ m.peer = p /\ "from" \in DOMAIN m
    /\ p \in connected
    /\ net' = net \ {m}
    /\ IF InHeaderSync
       THEN process_header_batch(Min({m.from + Capacity, PeerHeight(p)}), sync_head)
       ELSE UNCHANGED <<chain, state>>
    /\ UNCHANGED <<requests, rejected, cache, anchor, loop, local, connected, banned, thread, faults>>
-----------------------------------------------------------------------------
\* Time passes, peers come and go.
DueTimeout == ~due.over /\ due' = [due EXCEPT !.over = TRUE]
                /\ UNCHANGED <<state, chain, requests, rejected, cache, anchor, loop, syncing_peer, pihd, peer_failures, blocked,
                               pending_legacy, connected, banned, net, thread, faults>>
StallTimeout == /\ pihd.failures > 0 /\ ~pihd.stalled
                /\ pihd' = [pihd EXCEPT !.stalled = TRUE]
                /\ UNCHANGED <<state, chain, requests, rejected, cache, anchor, loop, due, syncing_peer, peer_failures, blocked,
                               pending_legacy, connected, banned, net, thread, faults>>
DisableTimeout == /\ pihd.disabled
                  /\ faults < MaxFaults
                  /\ faults' = faults + 1
                  /\ pihd' = [pihd EXCEPT !.disabled = FALSE]
                  /\ UNCHANGED <<state, chain, requests, rejected, cache, anchor, loop, due, syncing_peer, peer_failures, blocked,
                                 pending_legacy, connected, banned, net, thread>>
Disconnect(p) ==
    /\ p \in connected
    /\ faults < MaxFaults
    /\ faults' = faults + 1
    /\ connected' = connected \ {p}
    /\ UNCHANGED <<state, chain, requests, rejected, cache, anchor, loop, local, banned, net, thread>>
MayConnect(p) == p \notin connected \cup banned
Connect(p) ==
    /\ MayConnect(p)
    /\ thread[p].pc = "idle"
    /\ connected' = connected \cup {p}
    /\ net' = {m \in net : m.peer # p}
    /\ blocked' = blocked \ {p}
    /\ UNCHANGED <<state, chain, requests, rejected, cache, anchor, loop, due, syncing_peer, pihd, peer_failures, pending_legacy,
                   banned, thread, faults>>

SyncThread ==
    \/ start
    \/ \E late \in SUBSET requests, legacy_late, fraud \in BOOLEAN :
          cleanup_pending_requests(late, legacy_late, fraud)
    \/ CheckRunPihd
    \/ pihd_header_sync
    \/ CheckRunLegacy
    \/ body
PeerThread(p) ==
    \/ \E m \in net : ReceiveSegment(p, m)
    \/ cache_pihd_header_segment(p)
    \/ process_ready_pihd_header_segments(p)
    \/ ApplySegment(p)
    \/ \E m \in net : headers_received(p, m)

Next ==
    \/ SyncThread
    \/ \E p \in Peer : PeerThread(p)
    \/ DueTimeout \/ StallTimeout \/ DisableTimeout
    \/ \E p \in Peer : Disconnect(p) \/ Connect(p)

\* The sync loop and the threads of the peers run, peers answer and come back, and time
\* passes, for the requests that nobody will answer too.
Expire ==
    cleanup_pending_requests({r \in requests : ~r.responded /\ ~Underway(r)},
                             pending_legacy # None /\ ~LegacyUnderway, FALSE)
Fairness ==
    /\ WF_vars(SyncThread) /\ SF_vars(Expire)
    /\ \A p \in Peer : WF_vars(PeerThread(p)) /\ WF_vars(Connect(p))
    /\ WF_vars(DueTimeout) /\ WF_vars(StallTimeout)

Spec == Init /\ [][Next]_vars /\ Fairness

\* The same without the race of the sync loop: nobody changes the sync_head between its
\* read in the loop and its write in check_run.
Undisturbed == loop.pc \in {"check", "update"} /\ loop' = loop => UNCHANGED sync_head
UndisturbedSpec == Init /\ [][Next /\ Undisturbed]_vars /\ Fairness
-----------------------------------------------------------------------------
TypeOK ==
    /\ status \in {"NoSync", "BodySync", "Legacy", "Pihd"}
    /\ InHeaderSync <=> sync_head # None
    /\ header_head \in Tip
    /\ known \in Nat
    /\ requests \subseteq [idx : Segments, peer : Peer, responded : BOOLEAN, target : Nat]
    /\ rejected \subseteq Peer
    /\ connected \subseteq Peer \ banned
    /\ faults \in 0..MaxFaults

\* PIHDHeaderSegmentContainer::responded, "Whether a response for this request has been
\* received and cached": the segment is in the cache, or a thread applies it, or the
\* chain has its headers already.
RespondedIsCached ==
    \A r \in requests : r.responded =>
        \/ \E e \in cache : e.idx = r.idx
        \/ \E p \in Peer : thread[p].pc = "apply" /\ thread[p].entry.idx = r.idx
        \/ Complete(r, known)

\* There are never more requests than MAX_IN_FLIGHT_SEGMENTS, one for each segment.
OneRequestEach ==
    /\ Cardinality(requests) <= MaxInFlight
    /\ \A r, s \in requests : r.idx = s.idx => r = s

\* "no headers processed, and we're past timeout, need to ask for more": the headers
\* of the best peer arrive in the end.
HeadersArrive == <>(known = Max({PeerHeight(p) : p \in Peer}))
=============================================================================
