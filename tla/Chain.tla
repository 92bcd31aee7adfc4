------------------------------- MODULE Chain -------------------------------
(***************************************************************************)
(* The block pipeline of one node: chain/src/chain.rs on top of            *)
(* chain/src/pipe.rs.                                                      *)
(*                                                                         *)
(* A block is a model value.  Path[b] is the sequence of headers from the  *)
(* genesis header to b that the prev_hash links of b commit to, so the     *)
(* height of b is Len(Path[b]) - 1.  An MMR is the sequence of the leaves  *)
(* that were pushed to it, and the root a header commits to (prev_root,    *)
(* output_root, ...) is the leaf sequence it stands for: roots are equal   *)
(* exactly when the sequences are.                                         *)
(*                                                                         *)
(* Each thread of a peer or of the miner runs Chain::process_block.  A     *)
(* step of a thread is the code between two places where another thread    *)
(* can be seen: the sections under the header_pmmr and txhashset write     *)
(* locks are one step, the reads of the database outside them are others.  *)
(***************************************************************************)
EXTENDS Integers, Sequences, FiniteSets

CONSTANTS
    Block,            \* every block of the runs, Genesis included
    Genesis,
    Path,             \* Path[b]: the headers from Genesis to b
    Work,             \* Work[b]: total_difficulty of header b
    ValidHeader,      \* headers that pass validate_header (denylist apart)
    ValidBody,        \* blocks whose body is valid on top of Path[b]
    Thread,
    MaxOrphans,       \* MAX_ORPHAN_SIZE
    Horizon,          \* cut_through_horizon
    CompactSlack,     \* the 60 blocks of Chain::compact
    ArchiveLag,       \* state_sync_threshold
    ArchiveInterval,  \* txhashset_archive_interval
    NoBlock,
    Deliver,          \* blocks that arrive as full blocks
    Deniable,         \* headers the operator may put on the denylist
    Ops               \* operations other than process_block that may run

Height(b) == Len(Path[b]) - 1
Prev(b) == Path[b][Len(Path[b]) - 1]

\* Every path starts at Genesis, ends with its own block, and the first k of
\* its headers are the path of the k-th: what hash links guarantee.
ASSUME PathAssumption ==
    /\ Genesis \in Block
    /\ NoBlock \notin Block
    /\ Path \in [Block -> Seq(Block)]
    /\ Path[Genesis] = <<Genesis>>
    /\ \A b \in Block :
        /\ Len(Path[b]) >= 1
        /\ b # Genesis => Len(Path[b]) >= 2
        /\ Path[b][1] = Genesis
        /\ Path[b][Len(Path[b])] = b
        /\ \A k \in 1..Len(Path[b]) :
            /\ Len(Path[Path[b][k]]) = k
            /\ \A i \in 1..k : Path[Path[b][k]][i] = Path[b][i]

\* validate_header makes total_difficulty grow strictly along a path.
ASSUME WorkAssumption ==
    /\ Work \in [Block -> Nat]
    /\ ValidHeader \subseteq Block
    /\ ValidBody \subseteq Block
    /\ Genesis \in ValidHeader \cap ValidBody
    /\ \A b \in ValidHeader \ {Genesis} : Work[Prev(b)] < Work[b]

ASSUME BoundAssumption ==
    /\ MaxOrphans \in Nat \ {0}
    /\ Horizon \in Nat /\ CompactSlack \in Nat /\ ArchiveLag \in Nat
    /\ ArchiveInterval \in Nat \ {0}
    /\ ArchiveLag + ArchiveInterval <= Horizon
    /\ Deliver \subseteq Block \ {Genesis}
    /\ Deniable \subseteq Block \ {Genesis}

VARIABLES
    headers,      \* block headers in the database
    blocks,       \* full blocks in the database
    sums,         \* blocks whose block_sums are in the database
    head,         \* body head
    header_head,
    tail,         \* body tail, NoBlock until the first block is saved
    header_pmmr,  \* leaves of the header MMR
    txhashset,    \* blocks applied to the output, rangeproof and kernel MMRs
    denylist,
    orphans,      \* OrphanBlockPool
    pc, blk,      \* what each thread does, and the block it does it to
    level,        \* height check_orphans works at, 0 outside check_orphans
    todo,         \* orphans taken from the pool and not yet processed
    accepted,     \* orphan_accepted
    result        \* what the locked section returned to process_block_single

db == <<headers, blocks, sums, head, header_head, tail>>
mmrs == <<header_pmmr, txhashset>>
threads == <<pc, blk, level, todo, accepted, result>>
vars == <<db, mmrs, denylist, orphans, threads>>

NoResult == [updated |-> FALSE, prev_head |-> Genesis, fork_point |-> Genesis]

Init ==
    /\ headers = {Genesis} /\ blocks = {Genesis} /\ sums = {Genesis}
    /\ head = Genesis /\ header_head = Genesis /\ tail = NoBlock
    /\ header_pmmr = <<Genesis>> /\ txhashset = <<Genesis>>
    /\ denylist = {} /\ orphans = {}
    /\ pc = [t \in Thread |-> "idle"]
    /\ blk = [t \in Thread |-> Genesis]
    /\ level = [t \in Thread |-> 0]
    /\ todo = [t \in Thread |-> {}]
    /\ accepted = [t \in Thread |-> FALSE]
    /\ result = [t \in Thread |-> NoResult]

-----------------------------------------------------------------------------
(* Rewinding and re-applying the header MMR. *)

HasMoreWork(b, tip) == Work[b] > Work[tip]

\* HeaderExtension::is_on_current_chain for header MMR m, with the head of
\* the extension at height h.
OnCurrentChain(b, m, h) ==
    Height(b) <= h /\ Height(b) < Len(m) /\ m[Height(b) + 1] = b

\* The walk back along Path[b] stops at its k-th header: the highest one that
\* is on the current chain, or genesis.
ForkPoint(b, m, h, k) ==
    /\ k # 1 => OnCurrentChain(Path[b][k], m, h)
    /\ \A i \in (k + 1)..Len(Path[b]) : ~OnCurrentChain(Path[b][i], m, h)

\* The walk reads the MMR at the height of every header that is not above the
\* head of the extension, and fails where the MMR is too short.
Readable(b, m, h) == Height(b) >= Len(m) => h < Len(m)

\* Leaves of m after rewinding to the k-th header of Path[b] and pushing the
\* remaining ones.
Reapplied(m, b, k) ==
    [i \in 1..Len(Path[b]) |-> IF i <= k THEN m[i] ELSE Path[b][i]]

\* validate_root: a header is only pushed on the MMR it commits to.
RootsMatch(m, b, k) ==
    k < Len(Path[b]) => \A i \in 1..k : m[i] = Path[b][i]

\* Mutant: re-applied headers are not validated again.
MutHeaderForkApplies(b, m, h, k, hs) ==
    /\ \A i \in k..Len(Path[b]) : Path[b][i] \in hs
    /\ Readable(b, m, h)
    /\ ForkPoint(b, m, h, k)
    /\ RootsMatch(m, b, k)

\* rewind_and_apply_header_fork(b) succeeds with fork point k, when hs are the
\* headers in the database.
HeaderForkApplies(b, m, h, k, hs) ==
    /\ \A i \in k..Len(Path[b]) : Path[b][i] \in hs
    /\ Readable(b, m, h)
    /\ ForkPoint(b, m, h, k)
    /\ \A i \in (k + 1)..Len(Path[b]) : Path[b][i] \notin denylist
    /\ RootsMatch(m, b, k)

-----------------------------------------------------------------------------
(* pipe::process_block_header.  k = 0 stands for its early returns, k > 0   *)
(* for the fork point its header extension was rewound to.                  *)

CheckKnown(b) ==
    /\ Work[b] <= Work[head]
    /\ b = head \/ (head # Genesis /\ b = Prev(head)) \/ b \in blocks

HeaderKnown(b) ==
    \/ CheckKnown(b)
    \/ Prev(b) \in headers /\ b \in headers /\ ~HasMoreWork(b, header_head)

HeaderOk(b, k) ==
    IF k = 0 THEN HeaderKnown(b)
    ELSE /\ ~HeaderKnown(b)
         /\ Prev(b) \in headers
         /\ b \in ValidHeader \ denylist
         /\ HeaderForkApplies(Prev(b), header_pmmr, Len(header_pmmr) - 1, k, headers)
         /\ Reapplied(header_pmmr, Prev(b), k) = Path[Prev(b)]

HeaderForks(b) == 0..Len(Path[Prev(b)])

NewHeaders(b, k) == IF k = 0 THEN headers ELSE headers \cup {b}

\* Mutant: header_head is left where it was.
MutNewHeaderHead(b, k) == header_head

NewHeaderHead(b, k) ==
    IF k > 0 /\ HasMoreWork(b, header_head) THEN b ELSE header_head

\* Mutants: no rollback of a header that does not win, no rewind.
MutNewHeaderPmmrKept(b, k) ==
    IF k > 0 THEN Append(Reapplied(header_pmmr, Prev(b), k), b) ELSE header_pmmr

MutNewHeaderPmmrNoRewind(b, k) ==
    IF k > 0 /\ HasMoreWork(b, header_head) THEN Append(header_pmmr, b) ELSE header_pmmr

NewHeaderPmmr(b, k) ==
    IF k > 0 /\ HasMoreWork(b, header_head)
    THEN Append(Reapplied(header_pmmr, Prev(b), k), b)
    ELSE header_pmmr

\* Chain::process_block_header: one locked section, committed.
ProcessBlockHeader(b, k) ==
    /\ HeaderOk(b, k)
    /\ headers' = NewHeaders(b, k)
    /\ header_head' = NewHeaderHead(b, k)
    /\ header_pmmr' = NewHeaderPmmr(b, k)
    /\ UNCHANGED <<blocks, sums, head, tail, txhashset, denylist>>

HeaderRejected(b) == \A k \in HeaderForks(b) : ~HeaderOk(b, k)

-----------------------------------------------------------------------------
(* pipe::rewind_and_apply_fork and pipe::process_block.                     *)

\* rewind_and_apply_fork(p) succeeds on header MMR m and header head hh: the
\* header extension forks at k, the body at the j-th block of Path[head].
\* Rewinding reads the block and its spent index, re-applying reads the block
\* and needs the block sums of its parent.
ForkApplies(p, m, hh, k, j) ==
    /\ HeaderForkApplies(p, m, Height(hh), k, headers)
    /\ ForkPoint(head, Reapplied(m, p, k), Height(p), j)
    /\ \A i \in (j + 1)..Len(Path[head]) : Path[head][i] \in blocks \cap sums
    /\ \A i \in (j + 1)..Len(Path[p]) : Path[p][i] \in blocks \cap ValidBody
    /\ j < Len(Path[p]) => Path[p][j] \in sums
    /\ RootsMatch(txhashset, p, j)

\* apply_block_to_txhashset(b), after rewind_and_apply_fork(Prev(b)).
BlockApplies(b, j) ==
    /\ b \in ValidBody
    /\ j >= Len(Path[Prev(b)]) => Prev(b) \in sums
    /\ Reapplied(txhashset, Prev(b), j) = Path[Prev(b)]

BodyOk(b, h, k, j) ==
    /\ ForkApplies(Prev(b), NewHeaderPmmr(b, h), NewHeaderHead(b, h), k, j)
    /\ BlockApplies(b, j)

BodyForks(b) == 1..Len(Path[Prev(b)])
HeadForks == 1..Len(Path[head])

AppliedFrom(b, j) == {Path[b][i] : i \in (j + 1)..Len(Path[b])}

\* The batch of pipe::process_block is committed, together with the child
\* batch of the extension when b is the new head.
CommitBlock(b, h, j) ==
    /\ headers' = NewHeaders(b, h)
    /\ header_head' = NewHeaderHead(b, h)
    /\ header_pmmr' = NewHeaderPmmr(b, h)
    /\ blocks' = blocks \cup {b}
    /\ tail' = IF tail = NoBlock THEN b ELSE tail
    /\ IF HasMoreWork(b, head)
       THEN /\ head' = b
            /\ sums' = sums \cup AppliedFrom(b, j)
            /\ txhashset' = Append(Reapplied(txhashset, Prev(b), j), b)
       ELSE UNCHANGED <<head, sums, txhashset>>

-----------------------------------------------------------------------------
(* OrphanBlockPool, as the set of the orphans in it: AddOrphan, AtHeight.    *)

INSTANCE OrphanSet WITH pool <- orphans, Size <- Cardinality

-----------------------------------------------------------------------------
(* Chain::process_block, one thread.                                        *)
(*   process_block_header -> is_known -> check_orphan -> locked section ->   *)
(*   determine_status and block_accepted -> check_orphans                    *)

Goto(t, label) == pc' = [pc EXCEPT ![t] = label]

\* process_block_single returned an error: the loop of check_orphans goes on
\* with the next orphan, process_block returns.
SingleFailed(t) ==
    /\ Goto(t, IF level[t] = 0 THEN "idle" ELSE "next")
    /\ blk' = [blk EXCEPT ![t] = Genesis]

StartBlock(t, b) ==
    /\ pc[t] = "idle"
    /\ b \in Deliver
    /\ \E k \in HeaderForks(b) : ProcessBlockHeader(b, k)
    /\ Goto(t, "is_known")
    /\ blk' = [blk EXCEPT ![t] = b]
    /\ UNCHANGED <<orphans, level, todo, accepted, result>>

IsKnown(t) ==
    /\ pc[t] = "is_known"
    /\ IF blk[t] = head \/ (Work[blk[t]] <= Work[head] /\ blk[t] \in blocks)
       THEN SingleFailed(t)
       ELSE Goto(t, "check_orphan") /\ UNCHANGED blk
    /\ UNCHANGED <<db, mmrs, denylist, orphans, level, todo, accepted, result>>

\* The parent is looked up without a lock, the orphan is added in a later step.
CheckOrphan(t) ==
    /\ pc[t] = "check_orphan"
    /\ Goto(t, IF Prev(blk[t]) = head \/ Prev(blk[t]) \in blocks
               THEN "body" ELSE "add_orphan")
    /\ UNCHANGED <<db, mmrs, denylist, orphans, blk, level, todo, accepted, result>>

DeferOrphan(t) ==
    /\ pc[t] = "add_orphan"
    /\ AddOrphan(blk[t])
    /\ SingleFailed(t)
    /\ UNCHANGED <<db, mmrs, denylist, level, todo, accepted, result>>

ProcessBody(t) ==
    LET b == blk[t]
    IN  /\ pc[t] = "body"
        /\ ~CheckKnown(b) /\ Prev(b) \in headers
        /\ \E h \in HeaderForks(b), k \in BodyForks(b), j \in HeadForks :
            /\ HeaderOk(b, h)
            /\ BodyOk(b, h, k, j)
            /\ CommitBlock(b, h, j)
            /\ result' = [result EXCEPT ![t] =
                   [updated |-> HasMoreWork(b, head), prev_head |-> head,
                    fork_point |-> Path[head][j]]]
        /\ Goto(t, "notify")
        /\ UNCHANGED <<denylist, orphans, blk, level, todo, accepted>>

\* The batch is dropped.  What header_extending flushed to the header MMR
\* before the body was found to be bad stays in it.
RejectBody(t) ==
    LET b == blk[t]
    IN  /\ pc[t] = "body"
        /\ \/ (CheckKnown(b) \/ HeaderRejected(b)) /\ UNCHANGED header_pmmr
           \/ \E h \in HeaderForks(b) :
                /\ ~CheckKnown(b) /\ HeaderOk(b, h)
                /\ \A k \in BodyForks(b), j \in HeadForks : ~BodyOk(b, h, k, j)
                /\ header_pmmr' = NewHeaderPmmr(b, h)
        /\ SingleFailed(t)
        /\ UNCHANGED <<db, txhashset, denylist, orphans, level, todo, accepted, result>>

\* Mutant: orphans are looked for at the height of the accepted block.
MutNotify(t) ==
    /\ pc[t] = "notify"
    /\ result' = [result EXCEPT ![t] = NoResult]
    /\ IF level[t] = 0
       THEN /\ level' = [level EXCEPT ![t] = Height(blk[t])]
            /\ Goto(t, "check_orphans")
            /\ UNCHANGED accepted
       ELSE /\ accepted' = [accepted EXCEPT ![t] = TRUE]
            /\ Goto(t, "next")
            /\ UNCHANGED level
    /\ blk' = [blk EXCEPT ![t] = Genesis]
    /\ UNCHANGED <<db, mmrs, denylist, orphans, todo>>

\* block_accepted is called, and process_block_single returns Ok.
Notify(t) ==
    /\ pc[t] = "notify"
    /\ result' = [result EXCEPT ![t] = NoResult]
    /\ IF level[t] = 0
       THEN /\ level' = [level EXCEPT ![t] = Height(blk[t]) + 1]
            /\ Goto(t, "check_orphans")
            /\ UNCHANGED accepted
       ELSE /\ accepted' = [accepted EXCEPT ![t] = TRUE]
            /\ Goto(t, "next")
            /\ UNCHANGED level
    /\ blk' = [blk EXCEPT ![t] = Genesis]
    /\ UNCHANGED <<db, mmrs, denylist, orphans, todo>>

\* remove_by_height at the top of the loop of check_orphans.
TakeOrphans(t) ==
    /\ pc[t] = "check_orphans"
    /\ todo' = [todo EXCEPT ![t] = AtHeight(level[t])]
    /\ TakeHeight(level[t])
    /\ Goto(t, "next")
    /\ UNCHANGED <<db, mmrs, denylist, blk, level, accepted, result>>

NextOrphan(t, b) ==
    /\ pc[t] = "next"
    /\ b \in todo[t]
    /\ todo' = [todo EXCEPT ![t] = @ \ {b}]
    /\ \/ /\ \E k \in HeaderForks(b) : ProcessBlockHeader(b, k)
          /\ Goto(t, "is_known")
          /\ blk' = [blk EXCEPT ![t] = b]
       \/ HeaderRejected(b) /\ UNCHANGED <<db, mmrs, denylist, pc, blk>>
    /\ UNCHANGED <<orphans, level, accepted, result>>

\* Mutant: the loop goes on at the same height when nothing was accepted.
MutEndOfHeight(t) ==
    /\ pc[t] = "next"
    /\ todo[t] = {}
    /\ IF accepted[t] THEN level' = [level EXCEPT ![t] = @ + 1] ELSE UNCHANGED level
    /\ Goto(t, "check_orphans")
    /\ accepted' = [accepted EXCEPT ![t] = FALSE]
    /\ UNCHANGED <<db, mmrs, denylist, orphans, blk, todo, result>>

\* All orphans of a height are done: the next height if one was accepted.
EndOfHeight(t) ==
    /\ pc[t] = "next"
    /\ todo[t] = {}
    /\ IF accepted[t]
       THEN level' = [level EXCEPT ![t] = @ + 1] /\ Goto(t, "check_orphans")
       ELSE level' = [level EXCEPT ![t] = 0] /\ Goto(t, "idle")
    /\ accepted' = [accepted EXCEPT ![t] = FALSE]
    /\ UNCHANGED <<db, mmrs, denylist, orphans, blk, todo, result>>

-----------------------------------------------------------------------------
(* The other entry points of Chain that change its state.                   *)

\* process_block_header on its own: "header first" propagation.
ProcessHeader(b) ==
    /\ "header" \in Ops
    /\ \E k \in HeaderForks(b) \ {0} : ProcessBlockHeader(b, k)
    /\ UNCHANGED <<orphans, threads>>

\* sync_block_headers for the chunk from the i-th header of Path[b] to b.  The
\* headers are saved even if they do not beat header_head.
SyncBlockHeaders(b, i) ==
    LET chunk == {Path[b][n] : n \in i..Len(Path[b])}
    IN  /\ "sync" \in Ops
        /\ Path[b][i - 1] \in headers
        /\ chunk \subseteq ValidHeader \ denylist
        /\ headers' = headers \cup chunk
        /\ \E k \in 1..Len(Path[b]) :
            /\ HeaderForkApplies(b, header_pmmr, Len(header_pmmr) - 1, k, headers')
            /\ IF HasMoreWork(b, header_head)
               THEN header_head' = b /\ header_pmmr' = Reapplied(header_pmmr, b, k)
               ELSE UNCHANGED <<header_head, header_pmmr>>
        /\ UNCHANGED <<blocks, sums, head, tail, txhashset, denylist, orphans, threads>>

InvalidateHeader(b) ==
    /\ b \in Deniable
    /\ denylist' = denylist \cup {b}
    /\ UNCHANGED <<db, mmrs, orphans, threads>>

\* Mutants: the fork is rewound but not re-applied, its block sums are dropped.
MutResetRewindOnly(b) ==
    /\ "reset" \in Ops
    /\ b \in headers
    /\ \E k, n \in 1..Len(Path[b]), j \in HeadForks :
        /\ ForkApplies(b, header_pmmr, header_head, k, j)
        /\ HeaderForkApplies(b, header_pmmr, Len(header_pmmr) - 1, n, headers)
        /\ txhashset' = SubSeq(txhashset, 1, j)
        /\ sums' = sums \cup AppliedFrom(b, j)
        /\ header_pmmr' = Reapplied(header_pmmr, b, n)
    /\ head' = b
    /\ header_head' = b
    /\ UNCHANGED <<headers, blocks, tail, denylist, orphans, threads>>

MutResetNoSums(b) ==
    /\ "reset" \in Ops
    /\ b \in headers
    /\ \E k, n \in 1..Len(Path[b]), j \in HeadForks :
        /\ ForkApplies(b, header_pmmr, header_head, k, j)
        /\ HeaderForkApplies(b, header_pmmr, Len(header_pmmr) - 1, n, headers)
        /\ txhashset' = Reapplied(txhashset, b, j)
        /\ header_pmmr' = Reapplied(header_pmmr, b, n)
    /\ head' = b
    /\ header_head' = b
    /\ UNCHANGED <<headers, blocks, sums, tail, denylist, orphans, threads>>

\* reset_chain_head with rewind_headers set, as the owner API calls it.
ResetChainHead(b) ==
    /\ "reset" \in Ops
    /\ b \in headers
    /\ \E k, n \in 1..Len(Path[b]), j \in HeadForks :
        /\ ForkApplies(b, header_pmmr, header_head, k, j)
        /\ HeaderForkApplies(b, header_pmmr, Len(header_pmmr) - 1, n, headers)
        /\ txhashset' = Reapplied(txhashset, b, j)
        /\ sums' = sums \cup AppliedFrom(b, j)
        /\ header_pmmr' = Reapplied(header_pmmr, b, n)
    /\ head' = b
    /\ header_head' = b
    /\ UNCHANGED <<headers, blocks, tail, denylist, orphans, threads>>

SatSub(x, y) == IF x > y THEN x - y ELSE 0

ArchiveHeight ==
    LET h == SatSub(Height(head), ArchiveLag) IN h - (h % ArchiveInterval)

Cutoff ==
    LET h == SatSub(Height(head), Horizon)
    IN  IF ArchiveHeight < h THEN ArchiveHeight ELSE h

\* Mutant: the block at the new tail is deleted too.
MutCompactTail ==
    LET old == {b \in blocks : Height(b) <= Cutoff}
    IN  /\ "compact" \in Ops
        /\ tail # NoBlock => Height(tail) + Horizon + CompactSlack <= Height(head)
        /\ SatSub(Height(head), Horizon) < Len(header_pmmr)
        /\ ArchiveHeight < Len(header_pmmr)
        /\ Cutoff > 0
        /\ tail' = header_pmmr[Cutoff + 1]
        /\ blocks' = blocks \ old
        /\ sums' = sums \ old
        /\ UNCHANGED <<headers, head, header_head, mmrs, denylist, orphans, threads>>

\* compact: remove_historical_blocks takes the new tail from the header MMR and
\* deletes every block below its height, with its sums and its spent index.
Compact ==
    LET old == {b \in blocks : Height(b) < Cutoff}
    IN  /\ "compact" \in Ops
        /\ tail # NoBlock => Height(tail) + Horizon + CompactSlack <= Height(head)
        /\ SatSub(Height(head), Horizon) < Len(header_pmmr)
        /\ ArchiveHeight < Len(header_pmmr)
        /\ Cutoff > 0
        /\ tail' = header_pmmr[Cutoff + 1]
        /\ blocks' = blocks \ old
        /\ sums' = sums \ old
        /\ UNCHANGED <<headers, head, header_head, mmrs, denylist, orphans, threads>>

ThreadStep(t) ==
    \/ \E b \in Block \ {Genesis} : StartBlock(t, b) \/ NextOrphan(t, b)
    \/ IsKnown(t) \/ CheckOrphan(t) \/ DeferOrphan(t)
    \/ ProcessBody(t) \/ RejectBody(t) \/ Notify(t)
    \/ TakeOrphans(t) \/ EndOfHeight(t)

Next ==
    \/ \E t \in Thread : ThreadStep(t)
    \/ \E b \in Block \ {Genesis} : ProcessHeader(b)
    \/ \E b \in Block \ {Genesis} : \E i \in 2..Len(Path[b]) : SyncBlockHeaders(b, i)
    \/ \E b \in Block \ {Genesis} : InvalidateHeader(b)
    \/ \E b \in Block : ResetChainHead(b)
    \/ Compact

Spec == Init /\ [][Next]_vars

-----------------------------------------------------------------------------
(* Properties. *)

Leaves(m) == {m[i] : i \in 1..Len(m)}

DbTypeOK ==
    /\ headers \subseteq Block /\ blocks \subseteq Block /\ sums \subseteq Block
    /\ head \in Block /\ header_head \in Block /\ tail \in Block \cup {NoBlock}
    /\ header_pmmr \in Seq(Block) /\ txhashset \in Seq(Block)

ThreadTypeOK ==
    /\ denylist \subseteq Block /\ orphans \subseteq Block
    /\ pc \in [Thread -> {"idle", "is_known", "check_orphan", "add_orphan",
                          "body", "notify", "check_orphans", "next"}]
    /\ blk \in [Thread -> Block]
    /\ level \in [Thread -> Nat]
    /\ todo \in [Thread -> SUBSET Block]
    /\ accepted \in [Thread -> BOOLEAN]
    /\ result \in [Thread -> [updated : BOOLEAN, prev_head : Block, fork_point : Block]]

\* Types of the database, the MMRs, the pool and the threads.
TypeOK == DbTypeOK /\ ThreadTypeOK

\* The header MMR is always the complete path of one header, and the database
\* knows every header on it: no interleaving of reorgs, resets and rejected
\* blocks leaves it with leaves of two forks or with a leaf that
\* get_header_by_height cannot resolve.
HeaderMmrIsPath ==
    \E b \in headers : header_pmmr = Path[b] /\ Leaves(header_pmmr) \subseteq headers

\* The header MMR is the path of header_head whenever the locks are free
\* (PMMRHandle::init_head relies on it).  reset_chain_head racing a rejected
\* block breaks it, so it is checked where no reset runs.
HeaderMmrAtHeaderHead == header_pmmr = Path[header_head]

\* The output, rangeproof and kernel MMRs hold exactly the blocks up to head,
\* whatever was rewound, re-applied, rolled back or reset.
BodyMmrAtHead == txhashset = Path[head]

\* The body never overtakes the header chain, and both heads have a header.
HeadsInOrder ==
    /\ Work[head] <= Work[header_head]
    /\ Leaves(Path[head]) \cup Leaves(Path[header_head]) \subseteq headers

\* Every block of the body chain from the tail up is stored with its sums and its
\* spent index: it can be rewound (Extension::rewind reads both), and the head can
\* be extended (verify_block_sums), unless reset_chain_head took it below the tail.
RewindReady ==
    \A i \in 1..Len(Path[head]) :
        \/ Path[head][i] \in blocks \cap sums
        \/ tail # NoBlock /\ i - 1 < Height(tail)

\* A header on the denylist never enters the header MMR (one that was in it
\* before it was denied may stay).
DeniedNeverJoinsHeaderChain ==
    [][Leaves(header_pmmr') \cap denylist \subseteq Leaves(header_pmmr)]_vars

\* The blocks the fork of b from the body chain runs through.
CommonPrefix(b, c) ==
    {i \in 1..Len(Path[b]) : i <= Len(Path[c]) /\ Path[b][i] = Path[c][i]}

\* The fork point handed to block_accepted is the last common ancestor of the
\* new block and the head it was compared with.
ForkPointIsLastCommon ==
    \A t \in Thread : pc[t] = "notify" =>
        LET r == result[t]
            common == CommonPrefix(Prev(blk[t]), r.prev_head)
        IN  \E i \in common : r.fork_point = Path[blk[t]][i] /\ \A n \in common : n <= i

\* block_accepted is given the last common block of the fork and the old head and,
\* unless there are resets, the header MMR is the chain of header_head between two
\* locked sections.
ForksConsistent ==
    /\ ForkPointIsLastCommon
    /\ "reset" \notin Ops => HeaderMmrAtHeaderHead

\* The locked section never rejects a valid block with its parent block stored
\* that forks off the body chain at a stored block: whatever forks were won, lost
\* and rewound before, the blocks, sums and MMRs it needs are there.
ValidBlockAccepted ==
    \A t \in Thread :
        LET b == blk[t]
            common == CommonPrefix(Prev(b), head)
        IN  /\ pc[t] = "body"
            /\ b \in ValidBody /\ Leaves(Path[b]) \cap denylist = {}
            /\ Prev(b) \in blocks /\ ~CheckKnown(b)
            /\ \A i \in common : (\A n \in common : n <= i) => Path[b][i] \in blocks
            => \E h \in HeaderForks(b), k \in BodyForks(b), j \in HeadForks :
                    HeaderOk(b, h) /\ BodyOk(b, h, k, j)

\* Compaction keeps every block above the tail, and after it a valid block that
\* forks off at or above the tail is still accepted.  reset_chain_head racing a
\* rejected block can leave a header MMR too short to look the fork up in.
CompactionKeepsBlocks ==
    /\ RewindReady
    /\ "reset" \notin Ops => ValidBlockAccepted

\* Once no block is being processed, no orphan in the pool has its parent in
\* the database: check_orphans has picked it up.
NoStuckOrphan ==
    (\A t \in Thread : pc[t] = "idle") => \A o \in orphans : Prev(o) \notin blocks

\* Two threads can miss each other's blocks (see the run chain_stuck_orphan); a single
\* thread leaves no orphan behind whose parent is stored.
OneThread == \E t \in Thread : Thread = {t}
NoOrphanLeft == OneThread => NoStuckOrphan

\* A call of process_block returns: check_orphans does not loop for ever.
ProcessBlockReturns == \A t \in Thread : pc[t] # "idle" ~> pc[t] = "idle"

FairSpec ==
    /\ Spec
    /\ \A t \in Thread : WF_vars(pc[t] # "idle" /\ ThreadStep(t))
=============================================================================
