------------------------------- MODULE MCSync -------------------------------
(***************************************************************************)
(* The sync of a node, on small instances: the state sync, and the header  *)
(* sync with two peers on one head, from a fork of its own, or with one     *)
(* peer ahead of the other, from genesis.  A behaviour is one of the three, *)
(* `part' says which.                                                      *)
(*                                                                         *)
(* The chain's header at height h commits to h + 1 outputs and kernels;    *)
(* the output tree comes in two segments, the others in one.               *)
(***************************************************************************)
EXTENDS StateSync

CONSTANTS p1, p2        \* peers of the header sync

VARIABLES part,
          hstatus, sync_head, header_head, known, requests, hrejected, cache, anchor, loop, due,
          syncing_peer, pihd, peer_failures, hblocked, pending_legacy, hconnected, banned, hnet,
          thread, hfaults

headerVars == <<hstatus, sync_head, header_head, known, requests, hrejected, cache, anchor, loop, due,
                syncing_peer, pihd, peer_failures, hblocked, pending_legacy, hconnected, banned, hnet,
                thread, hfaults>>

MCLeaves(kind, h) == h + 1
MCSegmentLeaves(kind) == IF kind \in {"Output", "Bitmap"} THEN 4 ELSE 8

SameHeight(x) == 4
OneAhead(x) == IF x = p1 THEN 5 ELSE 4

\* Both peers on one head, one of them with segments; a fork of three headers is ours
E == INSTANCE HeaderSync WITH status <- hstatus, rejected <- hrejected, blocked <- hblocked,
        connected <- hconnected, net <- hnet, faults <- hfaults, Peer <- {p1, p2}, PeerHeight <- SameHeight,
        PihdPeer <- {p1}, Outbound <- {p1, p2}, Capacity <- 2, Slack <- 0, MaxInFlight <- 2,
        MaxTimedOut <- 2, MaxPeerFailures <- 2, ForkPoint <- 1, OwnHeight <- 3, MaxFaults <- 1

\* One peer ahead of the other, both with segments
A == INSTANCE HeaderSync WITH status <- hstatus, rejected <- hrejected, blocked <- hblocked,
        connected <- hconnected, net <- hnet, faults <- hfaults, Peer <- {p1, p2}, PeerHeight <- OneAhead,
        PihdPeer <- {p1, p2}, Outbound <- {p1, p2}, Capacity <- 2, Slack <- 0, MaxInFlight <- 2,
        MaxTimedOut <- 2, MaxPeerFailures <- 2, ForkPoint <- 0, OwnHeight <- 0, MaxFaults <- 0

MCInit == /\ part \in {"state", "even", "ahead"}
          /\ Init
          /\ part # "ahead" => E!Init
          /\ part = "ahead" => A!Init

MCNext == /\ part' = part
          /\ \/ part = "state" /\ Next /\ UNCHANGED headerVars
             \/ part = "even" /\ E!Next /\ E!Undisturbed /\ UNCHANGED vars
             \/ part = "ahead" /\ A!Next /\ A!Undisturbed /\ UNCHANGED vars

\* The sync loop and the threads of the peers run, peers answer and come back, and
\* time passes (StateSync!Fairness, HeaderSync!Fairness)
StateFairness ==
    /\ WF_vars(part = "state" /\ disk.up /\ SyncThread) /\ []<>(sync.pc # "request")
    /\ WF_vars(part = "state" /\ disk.up /\ process_queued_pibd_segment)
    /\ WF_vars(part = "state" /\ disk.up /\ Answers)
    /\ WF_vars(part = "state" /\ disk.up /\ prune_rejected_pibd_segments)
    /\ WF_vars(part = "state" /\ disk.up /\ \E r \in requested : RequestLate(r))
    /\ WF_vars(part = "state" /\ disk.up /\ NoPeersForLong)
    /\ WF_vars(part = "state" /\ disk.up /\ DownloadLate)
    /\ WF_vars(part = "state" /\ disk.up /\ BlocksLate)
    /\ \A x \in Peer : /\ WF_vars(part = "state" /\ disk.up /\ PeerThread(x))
                       /\ WF_vars(part = "state" /\ disk.up /\ Connect(x))
HeaderFairness ==
    /\ WF_headerVars(IF part = "even" THEN E!SyncThread ELSE part = "ahead" /\ A!SyncThread)
    /\ SF_headerVars(IF part = "even" THEN E!Expire ELSE part = "ahead" /\ A!Expire)
    /\ WF_headerVars(IF part = "even" THEN E!DueTimeout ELSE part = "ahead" /\ A!DueTimeout)
    /\ WF_headerVars(IF part = "even" THEN E!StallTimeout ELSE part = "ahead" /\ A!StallTimeout)
    /\ \A x \in {p1, p2} :
        /\ WF_headerVars(IF part = "even" THEN E!PeerThread(x) ELSE part = "ahead" /\ A!PeerThread(x))
        /\ WF_headerVars(IF part = "even" THEN E!Connect(x) ELSE part = "ahead" /\ A!Connect(x))

MCSpec == MCInit /\ [][MCNext]_<<part, vars, headerVars>> /\ StateFairness /\ HeaderFairness

-----------------------------------------------------------------------------
\* Segments of the state wait only for the archive they were requested for
\* (StateSync!CacheIsOfArchive).  Each segment of headers is requested once, at most MAX_IN_FLIGHT_SEGMENTS at a
\* time, and one that counts as answered is in the cache, being applied or in the
\* chain (HeaderSync!OneRequestEach, HeaderSync!RespondedIsCached).
SegmentsAsRequested ==
    /\ CacheIsOfArchive
    /\ part = "even" => E!TypeOK /\ E!OneRequestEach
    /\ part = "ahead" => A!OneRequestEach /\ A!RespondedIsCached

=============================================================================
