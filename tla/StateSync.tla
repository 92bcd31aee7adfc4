------------------------------ MODULE StateSync ------------------------------
(***************************************************************************)
(* State and body synchronisation: the sync thread (syncer.rs,             *)
(* state_sync.rs, body_sync.rs in servers/src/grin/sync), the requests for *)
(* segments kept in SyncState (chain/src/types.rs), the queue and thread   *)
(* that validate received segments (servers/src/common/adapters.rs), the   *)
(* download of a txhashset archive (chain/src/chain.rs) and the start of   *)
(* the chain after a crash in the middle of it.                            *)
(*                                                                         *)
(* The peers have a chain of height top without forks; blocks are heights, *)
(* and mmr counts the leaves of the three trees.  Headers come from        *)
(* HeaderSync, here one step.  A segment is good if it is the one its      *)
(* archive header commits to.                                              *)
(***************************************************************************)
EXTENDS Desegmenter, FiniteSetsExt

CONSTANTS
    Peer, Outbound,
    PibdPeer,               \* the peers with the capability PIBD_HIST
    Tops,                   \* the heights the chain of the peers may have
    Threshold, Interval,    \* state_sync_threshold, txhashset_archive_interval
    Horizon,                \* cut_through_horizon
    SyncSlack,              \* how far behind a node that is not syncing has to be
    RequestCount,           \* SEGMENT_REQUEST_COUNT
    QueueSize,              \* WORKER_CHANNEL_BUFFER_SIZE
    RejectThreshold,        \* REJECTED_PIBD_PEER_THRESHOLD
    MaxFaults,              \* bound of the runs on faults of every kind
    Rare                    \* the events of RareEvents that may happen

VARIABLES
    status, error,          \* SyncState: the status, and whether sync_error is set
    requested,              \* requested_pibd_segments
    rejected, rejects,      \* rejected_pibd_segments, rejected_pibd_peers
    queue,                  \* the channel to the pibd_receive thread
    de,                     \* pibd_desegmenter
    sync,                   \* the sync thread and the fields of StateSync
    body,                   \* the fields of BodySync
    connected, blocked,
    asked,                  \* per peer, the requests it has not answered: segments and blocks
    zip,                    \* per peer, its thread's work on a txhashset archive
    sandbox,                \* the archive in the sandbox folder: its writer, height, is it good
    disk,                   \* what outlives a crash: head, pibd_head, mmr, the leaf sets
    headers, top, orphans,
    faults

RareEvents == {"all peers lost", "archive late", "crash while replacing", "header missed"}
ASSUME RareAssumption == Rare \subseteq RareEvents

net == <<connected, blocked, asked>>
state == <<requested, rejected, rejects>>
zips == <<zip, sandbox>>
vars == <<status, error, state, queue, de, sync, body, net, zips, disk, headers, top, orphans, faults>>
-----------------------------------------------------------------------------
None == [none |-> TRUE]
At(h) == [Output |-> Leaves("Output", h), RangeProof |-> Leaves("RangeProof", h), Kernel |-> Leaves("Kernel", h)]
Genesis == At(0)
Pibd == {"Pibd", "PibdErrored", "PibdAborted"}
InStateSync == Pibd \cup {"Download", "Setup", "Save", "Done"}

\* txhashset_archive_header_header_only
Archive(h) == LET n == IF h > Threshold THEN h - Threshold ELSE 0 IN n - (n % Interval)
\* check_txhashset_needed, for a body head on the header chain
Needed(head) == headers > Horizon /\ head < headers - Horizon

\* Chain::desegmenter: a desegmenter of another archive header is replaced.
CurrentDesegmenter(archive) == IF de # None /\ de.archive = archive THEN de ELSE NewDesegmenter(archive)

NewSync == [pc |-> "loop", prev |-> "none", peer |-> None, aborted |-> FALSE, zero |-> "off"]
Init ==
    /\ status = "Initial" /\ error = FALSE
    /\ requested = {} /\ rejected = {} /\ rejects = [p \in Peer |-> 0]
    /\ queue = <<>> /\ de = None
    /\ sync = NewSync
    /\ body = [requested |-> 0, prev |-> 0, over |-> FALSE]
    /\ connected = Peer /\ blocked = {} /\ asked = [p \in Peer |-> <<>>]
    /\ zip = [p \in Peer |-> "idle"] /\ sandbox = None
    /\ disk = [head |-> 0, pibd |-> 0, mmr |-> Genesis, view |-> 0, up |-> TRUE]
    /\ headers = 0 /\ top = Min(Tops) /\ orphans = {}
    /\ faults = 0
-----------------------------------------------------------------------------
\* SyncState.

\* remove_pibd_segment_from and remove_pibd_segment_for_archive
RemoveFrom(id, p) == {r \in requested : ~(r.id = id /\ r.peer = p)}
RemoveForArchive(id, p, a) == {r \in requested : ~(r.id = id /\ r.peer = p /\ r.archive = a)}
contains_pibd_segment(reqs, id) == \E r \in reqs : r.id = id
rejected_pibd_segment_from_peer(id, p) == [id |-> id, peer |-> p] \in rejected \/ rejects[p] >= RejectThreshold
reject_pibd_segment_from(id, p) ==
    /\ requested' = RemoveFrom(id, p)
    /\ rejected' = rejected \cup {[id |-> id, peer |-> p]}
    /\ rejects' = [rejects EXCEPT ![p] = IF @ < RejectThreshold THEN @ + 1 ELSE @]
\* update_pibd_leaf_progress: the flags of a PIBD status stay, any other status is replaced.
LeafProgress(s) == IF s \in Pibd THEN s ELSE "Pibd"

\* rejected_pibd_segments and rejected_pibd_peers are forgotten after
\* REJECTED_SEGMENT_RETRY_SECS.
prune_rejected_pibd_segments ==
    /\ \/ \E r \in rejected : rejected' = rejected \ {r} /\ UNCHANGED rejects
       \/ \E p \in Peer : rejects[p] > 0 /\ rejects' = [rejects EXCEPT ![p] = 0] /\ UNCHANGED rejected
    /\ UNCHANGED <<status, error, requested, queue, de, sync, body, net, zips, disk, headers, top, orphans, faults>>
-----------------------------------------------------------------------------
\* Received segments: a peer's thread queues them, the pibd_receive thread validates them.

\* queue_pibd_segment: the request is forgotten whether or not the queue has room.
queue_pibd_segment(p, m, good) ==
    LET of == {r \in requested : r.id = m.id /\ r.peer = p} IN
    IF rejected_pibd_segment_from_peer(m.id, p) \/ of = {}
    THEN UNCHANGED <<queue, requested>>
    ELSE LET archive == (CHOOSE r \in of : TRUE).archive IN
         /\ requested' = RemoveForArchive(m.id, p, archive)
         /\ queue' = IF Len(queue) < QueueSize
                     THEN Append(queue, [id |-> m.id, peer |-> p, archive |-> archive,
                                         good |-> good /\ m.archive = archive])
                     ELSE queue
\* A peer answers in the order of the requests.
Answering(p) == p \in connected /\ asked[p] # <<>>
IsSegment(m) == "id" \in DOMAIN m
ReceiveSegment(p, good) ==
    /\ Answering(p) /\ IsSegment(Head(asked[p]))
    /\ good \/ faults < MaxFaults
    /\ faults' = IF good THEN faults ELSE faults + 1
    /\ asked' = [asked EXCEPT ![p] = Tail(@)]
    /\ queue_pibd_segment(p, Head(asked[p]), good)
    /\ UNCHANGED <<status, error, rejected, rejects, de, sync, body, connected, blocked, zips, disk, headers, top, orphans>>

\* add_bitmap_segment, add_output_segment, add_rangeproof_segment and add_kernel_segment:
\* outputs and rangeproofs only check out against the final bitmap.
Validates(d, m) == m.good /\ (d.bitmap \/ m.id.kind \in {"Bitmap", "Kernel"})
IsStale(m) == m.archive # Archive(headers)
process_queued_pibd_segment ==
    /\ queue # <<>>
    /\ queue' = Tail(queue)
    /\ LET m == Head(queue)
           d == CurrentDesegmenter(Archive(headers))
       IN  \/ /\ IsStale(m)
              /\ requested' = RemoveForArchive(m.id, m.peer, m.archive)
              /\ UNCHANGED <<de, rejected, rejects>>
           \/ /\ ~IsStale(m) /\ Validates(d, m)
              /\ de' = Cached(d, [id |-> m.id, archive |-> m.archive])
              /\ requested' = RemoveForArchive(m.id, m.peer, m.archive)
              /\ UNCHANGED <<rejected, rejects>>
           \/ /\ ~IsStale(m) /\ ~Validates(d, m)
              /\ de' = d
              /\ reject_pibd_segment_from(m.id, m.peer)
    /\ UNCHANGED <<status, error, sync, body, net, zips, disk, headers, top, orphans, faults>>
-----------------------------------------------------------------------------
\* The sync thread: sync_loop.

\* needs_syncing
NeedsSync == connected # {} /\ IF status = "NoSync" THEN top > disk.head + SyncSlack ELSE top > disk.head

\* Nothing to sync, or nobody to sync from: the status is dropped, whatever it was.
StopSyncing ==
    /\ sync.pc = "loop" /\ ~NeedsSync /\ status # "NoSync"
    /\ status' = "NoSync"
    /\ UNCHANGED <<error, state, queue, de, sync, body, net, zips, disk, headers, top, orphans, faults>>

\* header_sync.check_run, which runs in the other stages only
RunHeaderSync ==
    /\ sync.pc = "loop" /\ NeedsSync
    /\ status \in {"BodySync", "HeaderSync", "Done", "NoSync", "Initial"} /\ headers < top
    /\ status' = "HeaderSync" /\ headers' = top
    /\ UNCHANGED <<error, state, queue, de, sync, body, net, zips, disk, top, orphans, faults>>

\* body_sync_due: whether to ask, and the fields it leaves
Received == disk.head + Cardinality(orphans)
Stalled == body.requested > 0 /\ body.over /\ Received <= body.prev
Counted ==
    IF Stalled \/ Received <= body.prev THEN body
    ELSE [requested |-> Max({0, body.requested - (Received - body.prev)}), prev |-> Received, over |-> FALSE]
BodySyncDue == Stalled \/ Counted.requested < 2

\* block_hashes_to_sync
BlocksToSync == (disk.head + 1..headers) \ orphans

\* body_sync.check_run when full blocks do: ask for them all.
RunBodySync ==
    /\ sync.pc = "loop" /\ NeedsSync /\ status \notin InStateSync /\ headers >= top
    /\ IF BodySyncDue
       THEN /\ ~Needed(disk.head)
            /\ status' = "BodySync"
            /\ body' = IF BlocksToSync = {} THEN Counted
                       ELSE [Counted EXCEPT !.requested = Cardinality(BlocksToSync), !.over = FALSE]
            /\ \E to \in [BlocksToSync -> IF connected \cap Outbound # {} THEN connected \cap Outbound ELSE connected] :
                 asked' = [p \in Peer |-> asked[p] \o
                     SelectSeq([i \in 1..headers |-> [height |-> i]],
                               LAMBDA m : m.height \in BlocksToSync /\ to[m.height] = p /\ ~Contains(asked[p], m))]
       ELSE body' = Counted /\ UNCHANGED <<status, asked>>
    /\ UNCHANGED <<error, state, queue, de, sync, connected, blocked, zips, disk, headers, top, orphans, faults>>

\* On to state_sync.check_run, from a status of its own or because full blocks do not do.
GoToStateSync ==
    /\ sync.pc = "loop" /\ NeedsSync
    /\ \/ status \in InStateSync /\ (status = "Done" => headers = top) /\ UNCHANGED body
       \/ /\ status \notin InStateSync /\ headers >= top
          /\ BodySyncDue /\ Needed(disk.head) /\ body' = Counted
    /\ sync' = [sync EXCEPT !.pc = "check"]
    /\ UNCHANGED <<status, error, state, queue, de, net, zips, disk, headers, top, orphans, faults>>
-----------------------------------------------------------------------------
\* StateSync::check_run up to the work on segments.

UsingPibd == status # "PibdAborted" /\ ~sync.aborted
Errored == UsingPibd /\ status = "PibdErrored"
PeerLost == ~UsingPibd /\ status = "Download" /\ sync.peer # None /\ sync.peer \notin connected
NeedRestart == error \/ Errored \/ PeerLost

\* state_sync_reset
ResetSync == [sync EXCEPT !.pc = "loop", !.prev = "none", !.peer = None]

\* The reset after a failure.  reset_pibd_head does not commit its batch, so that
\* pibd_head stays; reset_chain_head_to_genesis and reset_prune_lists do what they say.
ResetChain == [disk EXCEPT !.head = 0, !.mmr = Genesis, !.view = 0]

\* In PIBD a restart ends this round of the loop.
RestartPibd ==
    /\ sync.pc = "check" /\ UsingPibd /\ NeedRestart
    /\ IF Errored
       THEN /\ de' = reset(CurrentDesegmenter(Archive(headers)))
            /\ disk' = ResetChain
            /\ status' = "Pibd"
       ELSE /\ status' = IF status = "Done" THEN "BodySync" ELSE status
            /\ UNCHANGED <<de, disk>>
    /\ sync' = ResetSync /\ blocked' = {} /\ error' = FALSE
    /\ UNCHANGED <<state, queue, body, connected, asked, zips, headers, top, orphans, faults>>

\* The state is there: on to full blocks.
LeaveStateSync ==
    /\ sync.pc = "check" /\ ~(UsingPibd /\ NeedRestart) /\ status = "Done"
    /\ status' = "BodySync"
    /\ sync' = ResetSync /\ blocked' = {} /\ error' = FALSE
    /\ UNCHANGED <<state, queue, de, body, connected, asked, zips, disk, headers, top, orphans, faults>>

\* Another round of PIBD, the first one when state_sync_due says so.
GoToPibd ==
    /\ sync.pc = "check" /\ UsingPibd /\ ~NeedRestart /\ status # "Done"
    /\ IF headers = top
       THEN /\ sync' = [sync EXCEPT !.pc = "request", !.prev = IF @ = "none" THEN "recent" ELSE @]
            /\ status' = IF sync.prev = "none" THEN "Pibd" ELSE status
       ELSE sync' = [sync EXCEPT !.pc = "loop"] /\ UNCHANGED status
    /\ UNCHANGED <<error, state, queue, de, body, net, zips, disk, headers, top, orphans, faults>>

\* The download of an archive: request_state if state_sync_due says so, or a timeout.
Download ==
    /\ sync.pc = "check" /\ ~UsingPibd /\ status # "Done"
    /\ LET s == IF NeedRestart THEN ResetSync ELSE [sync EXCEPT !.pc = "loop"]
           go == s.prev = "none"
           to == IF connected \cap Outbound # {} THEN connected \cap Outbound ELSE connected
       IN  /\ blocked' = IF NeedRestart THEN {} ELSE blocked
           /\ IF ~NeedRestart /\ headers # top
              THEN sync' = s /\ UNCHANGED <<status, error, zip>>
              ELSE IF ~go
              THEN /\ error' = (s.prev = "old" /\ status = "Download")
                   /\ sync' = s /\ UNCHANGED <<status, zip>>
              ELSE /\ status' = "Download"
                   /\ IF to = {}
                      THEN error' = TRUE /\ sync' = [s EXCEPT !.prev = "recent"] /\ UNCHANGED zip
                      ELSE \E p \in to :
                             /\ error' = FALSE
                             /\ sync' = [s EXCEPT !.prev = "recent", !.peer = p]
                             /\ zip' = [zip EXCEPT ![p] = IF @ = "idle" THEN "asked" ELSE @]
    /\ UNCHANGED <<state, queue, de, body, connected, asked, sandbox, disk, headers, top, orphans, faults>>
-----------------------------------------------------------------------------
\* StateSync::continue_pibd.

\* Requests without an answer in time; their peers are blocked, the outbound ones dropped.
StaleRequests == {r \in requested : r.late}
Fresh == requested \ StaleRequests
Late == {r.peer : r \in StaleRequests}
NowConnected == connected \ ((Late \ blocked) \cap Outbound)
NowBlocked == blocked \cup Late

peer_usable(id, p) == p \notin NowBlocked /\ ~rejected_pibd_segment_from_peer(id, p)
UsablePeers(id) == {p \in NowConnected \cap PibdPeer : peer_usable(id, p)}
\* The peers a segment may be asked from: not the one that was late with it.
Candidates(id) ==
    LET some == UsablePeers(id) \ {r.peer : r \in {s \in StaleRequests : s.id = id}} IN
    IF some \cap Outbound # {} THEN some \cap Outbound ELSE some

\* The order of requests: one of each kind in turn.
KindRank(kind) == CASE kind = "Bitmap" -> 0 [] kind = "Kernel" -> 1 [] kind = "Output" -> 2 [] OTHER -> 3
Interleaved(ids) ==
    LET turn(i) == 4 * Cardinality({j \in 1..i : ids[j].kind = ids[i].kind}) + KindRank(ids[i].kind)
        before(i) == {j \in DOMAIN ids : turn(j) < turn(i)}
    IN  [n \in DOMAIN ids |-> ids[CHOOSE i \in DOMAIN ids : Cardinality(before(i)) = n - 1]]

\* The loop over them: which are sent, and the timer of earliest_zero_pibd_peer_time.
Consider(acc, id) ==
    IF acc.aborted \/ Len(acc.sent) >= RequestCount - Cardinality(Fresh) \/ contains_pibd_segment(Fresh, id)
    THEN acc
    ELSE IF UsablePeers(id) = {}
    THEN [acc EXCEPT !.aborted = acc.zero = "over", !.zero = IF @ = "off" THEN "on" ELSE @]
    ELSE [acc EXCEPT !.zero = "off", !.sent = IF Candidates(id) = {} THEN @ ELSE Append(@, id)]
Schedule(d, mmr) ==
    LET ids == IF Cardinality(Fresh) >= RequestCount THEN <<>>
               ELSE next_desired_segments(d, mmr, RequestCount + Cardinality(Fresh))
        seq == Interleaved(ids)
        upto[i \in 0..Len(seq)] ==
            IF i = 0 THEN [sent |-> <<>>, zero |-> sync.zero, aborted |-> FALSE] ELSE Consider(upto[i - 1], seq[i])
    IN  upto[Len(seq)]

View(mmr, archive) ==
    IF mmr = disk.mmr \/ disk.view = archive THEN disk.view
    ELSE IF disk.mmr = Genesis THEN archive ELSE -1

\* One round: apply what is cached, look at the progress, send requests.  check: whether
\* the progress is looked at, which it is every PIBD_PROGRESS_CHECK_SECS.
SendRequests(archive, plan) ==
    \E to \in [DOMAIN plan.sent -> Peer] :
        /\ \A i \in DOMAIN to : to[i] \in Candidates(plan.sent[i])
        /\ requested' = Fresh \cup {[id |-> plan.sent[i], peer |-> to[i], archive |-> archive, late |-> FALSE] : i \in DOMAIN to}
        /\ asked' = [p \in Peer |-> asked[p] \o
               SelectSeq([i \in DOMAIN to |-> [id |-> plan.sent[i], archive |-> archive]],
                         LAMBDA m : \E i \in DOMAIN to : plan.sent[i] = m.id /\ to[i] = p)]
continue_pibd(check) ==
    /\ sync.pc = "request"
    /\ connected' = NowConnected /\ blocked' = NowBlocked
    /\ \E applied \in {apply_next_segments(CurrentDesegmenter(Archive(headers)), disk.mmr)} :
       \E heights \in {IF check THEN PibdHeights(applied.mmr, headers) ELSE {}} :
        /\ check \/ ~AllApplied(applied.d, applied.mmr)
        /\ disk' = [disk EXCEPT !.mmr = applied.mmr, !.view = View(applied.mmr, Archive(headers)),
                                !.pibd = IF heights = {} THEN @ ELSE Max(heights)]
        /\ \/ /\ heights # {} /\ AllApplied(applied.d, applied.mmr)
              /\ sync' = [sync EXCEPT !.pc = "finish"]
              /\ de' = applied.d
              /\ status' = "Pibd" /\ requested' = Fresh
              /\ UNCHANGED <<error, asked>>
           \/ /\ ~(heights # {} /\ AllApplied(applied.d, applied.mmr))
              /\ \E plan \in {Schedule(applied.d, applied.mmr)} :
                   /\ sync' = [sync EXCEPT !.pc = "loop", !.zero = plan.zero, !.aborted = plan.aborted]
                   /\ de' = applied.d
                   /\ status' = IF plan.aborted THEN "PibdAborted"
                                ELSE IF heights # {} THEN "Pibd" ELSE LeafProgress(status)
                   /\ error' = (error \/ plan.aborted)
                   /\ SendRequests(Archive(headers), plan)
    /\ UNCHANGED <<rejected, rejects, queue, body, zips, headers, top, orphans, faults>>

\* A segment that cannot be applied: the batch is lost from the cache, the trees are as before.
ApplyFails ==
    LET d == CurrentDesegmenter(Archive(headers)) IN
    /\ sync.pc = "request" /\ faults < MaxFaults
    /\ apply_next_segments(d, disk.mmr).mmr # disk.mmr
    /\ de' = apply_next_segments(d, disk.mmr).d
    /\ requested' = Fresh /\ connected' = NowConnected /\ blocked' = NowBlocked
    /\ status' = "PibdErrored"
    /\ sync' = [sync EXCEPT !.pc = "loop"]
    /\ faults' = faults + 1
    /\ UNCHANGED <<error, rejected, rejects, queue, body, asked, zips, disk, headers, top, orphans>>

\* check_update_leaf_set_state and validate_complete_state; bad: it finds a fault.
UpdateLeafSets(d) == [disk EXCEPT !.view = d.archive]
RootsMatch(d, after) == after.mmr = At(d.archive) /\ after.view = d.archive
validate_complete_state(bad) ==
    LET after == UpdateLeafSets(de) IN
    /\ sync.pc = "finish"
    /\ bad => faults < MaxFaults
    /\ faults' = IF bad THEN faults + 1 ELSE faults
    /\ sync' = [sync EXCEPT !.pc = "loop"]
    /\ IF bad \/ ~RootsMatch(de, after)
       THEN disk' = after /\ status' = "PibdErrored"
       ELSE disk' = [after EXCEPT !.head = de.archive] /\ status' = "Done"
    /\ UNCHANGED <<error, state, queue, de, body, net, zips, headers, top, orphans>>
-----------------------------------------------------------------------------
\* The thread of a peer that sends a txhashset archive.

\* The archive is announced and its attachment read while the status is TxHashsetDownload.
ReceiveArchive(p) ==
    /\ zip[p] = "asked"
    /\ IF status = "Download"
       THEN zip' = [zip EXCEPT ![p] = "received"] /\ UNCHANGED connected
       ELSE zip' = [zip EXCEPT ![p] = "idle"] /\ connected' = connected \ {p}
    /\ UNCHANGED <<status, error, state, queue, de, sync, body, blocked, asked, sandbox, disk, headers, top, orphans, faults>>

\* txhashset_write of the adapter: only if the status is still TxHashsetDownload, which
\* on_setup then changes; the two statements are one step here.
BeginWrite(p) ==
    /\ zip[p] = "received"
    /\ zip' = [zip EXCEPT ![p] = IF status = "Download" THEN "begun" ELSE "idle"]
    /\ status' = IF status = "Download" THEN "Setup" ELSE status
    /\ UNCHANGED <<error, state, queue, de, sync, body, net, sandbox, disk, headers, top, orphans, faults>>

\* txhashset_write of the chain: its first check, and the sandbox filled.
UnpackArchive(p, good) ==
    /\ zip[p] = "begun"
    /\ good \/ faults < MaxFaults
    /\ faults' = IF good THEN faults ELSE faults + 1
    /\ IF Needed(disk.head)
       THEN sandbox' = [of |-> p, height |-> Archive(headers), good |-> good] /\ zip' = [zip EXCEPT ![p] = "unpacked"] /\ UNCHANGED error
       ELSE error' = TRUE /\ zip' = [zip EXCEPT ![p] = "idle"] /\ sandbox' = None
    /\ UNCHANGED <<status, state, queue, de, sync, body, net, disk, headers, top, orphans>>

ArchiveValid(p) == sandbox # None /\ sandbox.of = p /\ sandbox.good
CommitArchive(p) ==
    /\ zip[p] = "unpacked"
    /\ IF ArchiveValid(p)
       THEN /\ disk' = [disk EXCEPT !.head = sandbox.height]
            /\ status' = "Save"
            /\ zip' = [zip EXCEPT ![p] = "committed"]
            /\ UNCHANGED <<error, sandbox>>
       ELSE /\ error' = TRUE /\ sandbox' = None
            /\ zip' = [zip EXCEPT ![p] = "idle"]
            /\ UNCHANGED <<disk, status>>
    /\ UNCHANGED <<state, queue, de, sync, body, net, headers, top, orphans, faults>>

\* txhashset_replace: the files of the sandbox become those of the chain.
ReplaceFiles(p) ==
    /\ zip[p] = "committed"
    /\ zip' = [zip EXCEPT ![p] = "idle"] /\ sandbox' = None
    /\ IF sandbox # None
       THEN /\ disk' = [disk EXCEPT !.view = IF sandbox.good THEN sandbox.height ELSE -1, !.mmr = At(sandbox.height)]
            /\ status' = "Done" /\ UNCHANGED error
       ELSE error' = TRUE /\ UNCHANGED <<disk, status>>
    /\ UNCHANGED <<state, queue, de, sync, body, net, headers, top, orphans, faults>>
-----------------------------------------------------------------------------
\* Blocks, time, connections and crashes.

\* A block that was asked for: applied with the orphans that follow, or an orphan itself.
ReceiveBlock(p) ==
    LET height == Head(asked[p]).height IN
    /\ Answering(p) /\ ~IsSegment(Head(asked[p]))
    /\ asked' = [asked EXCEPT ![p] = Tail(@)]
    /\ IF height = disk.head + 1
       THEN LET last == Max({h \in height..headers : \A g \in height + 1..h : g \in orphans}) IN
            /\ disk' = [disk EXCEPT !.head = last, !.mmr = At(last), !.view = last]
            /\ orphans' = {h \in orphans : h > last}
       ELSE /\ orphans' = IF height > disk.head THEN orphans \cup {height} ELSE orphans
            /\ UNCHANGED disk
    /\ UNCHANGED <<status, error, state, queue, de, sync, body, connected, blocked, zips, headers, top, faults>>

\* The times that run out.  One that does so before its answer was lost is a fault.
RequestLate(r) ==
    LET pending == r.peer \in connected /\ Contains(asked[r.peer], [id |-> r.id, archive |-> r.archive]) IN
    /\ r \in requested /\ ~r.late /\ (pending => faults < MaxFaults)
    /\ faults' = IF pending THEN faults + 1 ELSE faults
    /\ requested' = (requested \ {r}) \cup {[r EXCEPT !.late = TRUE]}
    /\ UNCHANGED <<status, error, rejected, rejects, queue, de, sync, body, net, zips, disk, headers, top, orphans>>
NoPeersForLong ==
    /\ sync.zero = "on"
    /\ sync' = [sync EXCEPT !.zero = "over"]
    /\ UNCHANGED <<status, error, state, queue, de, body, net, zips, disk, headers, top, orphans, faults>>
DownloadLate ==
    LET pending == \E p \in Peer : zip[p] # "idle" IN
    /\ sync.aborted /\ sync.prev = "recent"
    /\ pending => "archive late" \in Rare /\ faults < MaxFaults
    /\ faults' = IF pending THEN faults + 1 ELSE faults
    /\ sync' = [sync EXCEPT !.prev = "old"]
    /\ UNCHANGED <<status, error, state, queue, de, body, net, zips, disk, headers, top, orphans>>
BlocksLate ==
    /\ body.requested > 0 /\ ~body.over
    /\ \A p \in connected : \A i \in DOMAIN asked[p] : IsSegment(asked[p][i])
    /\ body' = [body EXCEPT !.over = TRUE]
    /\ UNCHANGED <<status, error, state, queue, de, sync, net, zips, disk, headers, top, orphans, faults>>

\* A connection is lost with the answers on it; a txhashset_write that has begun goes on.
Disconnect(p) ==
    /\ p \in connected /\ faults < MaxFaults
    /\ "all peers lost" \in Rare \/ connected # {p} \/ ~(sync.aborted /\ sync.prev # "none")
    /\ connected' = connected \ {p} /\ faults' = faults + 1
    /\ asked' = [asked EXCEPT ![p] = <<>>]
    /\ zip' = [zip EXCEPT ![p] = IF @ \in {"asked", "received"} THEN "idle" ELSE @]
    /\ UNCHANGED <<status, error, state, queue, de, sync, body, blocked, sandbox, disk, headers, top, orphans>>
Connect(p) ==
    /\ p \notin connected
    /\ connected' = connected \cup {p}
    /\ asked' = [asked EXCEPT ![p] = <<>>]
    /\ UNCHANGED <<status, error, state, queue, de, sync, body, blocked, zips, disk, headers, top, orphans, faults>>
\* The chain of the peers grows.  The headers they announce are taken in any status, if the
\* ones before are known (process_block_header).
header_received(heard) ==
    /\ heard \/ "header missed" \in Rare \/ status \notin InStateSync
    /\ faults < MaxFaults /\ faults' = faults + 1
    /\ \E h \in Tops : h > top /\ top' = h /\ headers' = IF heard /\ headers = top THEN h ELSE headers
    /\ UNCHANGED <<status, error, state, queue, de, sync, body, net, zips, disk, orphans>>

\* setup_head: a PIBD that is under way is not rewound; otherwise the trees are rewound to
\* the head, which fails if they are shorter and there are no blocks to go back by.
PibdInProgress ==
    \/ disk.pibd > disk.head
    \/ disk.pibd >= disk.head /\ \E k \in Kinds : disk.mmr[k] > Leaves(k, disk.head)
SetupHead ==
    IF PibdInProgress THEN disk
    ELSE IF \A k \in Kinds : disk.mmr[k] >= Leaves(k, disk.head)
    THEN [disk EXCEPT !.mmr = At(disk.head)]
    ELSE [disk EXCEPT !.up = FALSE]

\* The node stops at any time and is started again.
Crash ==
    /\ faults < MaxFaults /\ faults' = faults + 1
    /\ "crash while replacing" \in Rare \/ \A p \in Peer : zip[p] # "committed"
    /\ disk' = SetupHead
    /\ status' = "Initial" /\ error' = FALSE
    /\ requested' = {} /\ rejected' = {} /\ rejects' = [p \in Peer |-> 0]
    /\ queue' = <<>> /\ de' = None /\ sync' = NewSync
    /\ body' = [requested |-> 0, prev |-> 0, over |-> FALSE]
    /\ blocked' = {} /\ asked' = [p \in Peer |-> <<>>]
    /\ zip' = [p \in Peer |-> "idle"] /\ sandbox' = None /\ orphans' = {}
    /\ UNCHANGED <<connected, headers, top>>
-----------------------------------------------------------------------------
SyncThread ==
    \/ StopSyncing \/ RunHeaderSync \/ RunBodySync \/ GoToStateSync
    \/ RestartPibd \/ LeaveStateSync \/ GoToPibd \/ Download
    \/ validate_complete_state(FALSE)
PeerThread(p) == ReceiveArchive(p) \/ BeginWrite(p) \/ UnpackArchive(p, TRUE) \/ CommitArchive(p) \/ ReplaceFiles(p)
Answers == \E p \in Peer : ReceiveSegment(p, TRUE) \/ ReceiveBlock(p)
Times == prune_rejected_pibd_segments \/ (\E r \in requested : RequestLate(r)) \/ NoPeersForLong \/ DownloadLate \/ BlocksLate
Fault ==
    \/ ApplyFails \/ validate_complete_state(TRUE)
    \/ \E p \in Peer : ReceiveSegment(p, FALSE) \/ UnpackArchive(p, FALSE) \/ Disconnect(p)
    \/ header_received(TRUE) \/ header_received(FALSE) \/ Crash
Next ==
    /\ disk.up
    /\ \/ SyncThread \/ continue_pibd(TRUE) \/ continue_pibd(FALSE) \/ process_queued_pibd_segment \/ Answers \/ Times \/ Fault
       \/ \E p \in Peer : PeerThread(p) \/ Connect(p)

\* The sync thread and the threads of the peers run, peers answer and connect again, time
\* passes.  continue_pibd is enabled as long as the sync thread is at its step, and leaves it.
Fairness ==
    /\ WF_vars(disk.up /\ SyncThread) /\ []<>(sync.pc # "request")
    /\ WF_vars(disk.up /\ process_queued_pibd_segment)
    /\ WF_vars(disk.up /\ Answers)
    /\ WF_vars(disk.up /\ prune_rejected_pibd_segments)
    /\ WF_vars(disk.up /\ \E r \in requested : RequestLate(r))
    /\ WF_vars(disk.up /\ NoPeersForLong) /\ WF_vars(disk.up /\ DownloadLate) /\ WF_vars(disk.up /\ BlocksLate)
    /\ \A p \in Peer : WF_vars(disk.up /\ PeerThread(p)) /\ WF_vars(disk.up /\ Connect(p))
Spec == Init /\ [][Next]_vars
FairSpec == Spec /\ Fairness
-----------------------------------------------------------------------------

\* Segments wait only for the archive header they were requested for: the cache of the
\* desegmenter never mixes archives, whatever arrives late (process_queued_pibd_segment).
CacheIsOfArchive == de = None \/ \A s \in de.cache : s.archive = de.archive

\* After finitely many faults, lost or bad segments, lost peers, failed validations and
\* restarts, the node has all blocks but the few it waits to be sent, and stops syncing
\* (sync_loop, needs_syncing).
SyncCompletes == <>[](disk.head + SyncSlack >= top /\ status = "NoSync")
=============================================================================
