------------------------------ MODULE TxHashSet ------------------------------
(***************************************************************************)
(* The unspent outputs of the chain and how they survive a crash: the      *)
(* output, rangeproof and kernel MMRs with their files and leaf sets, the  *)
(* bitmap accumulator, the output_pos and spent indices of the database    *)
(* (chain/src/txhashset/txhashset.rs), the order in which an extension is  *)
(* written (store/src/pmmr.rs, one file after the other, then the database *)
(* batch) and the repair at the next start (setup_head and                 *)
(* init_output_pos_index, chain/src/chain.rs).                             *)
(*                                                                         *)
(* A leaf of an MMR is a commitment or a kernel and has its number, from   *)
(* 1, as position.  The hash file of an MMR is the sequence of its leaves, *)
(* its root that sequence.  A block has one kernel, named after the block. *)
(* No compaction: every file holds all leaves.                             *)
(***************************************************************************)
EXTENDS Integers, Sequences, FiniteSets, FiniteSetsExt

CONSTANTS
    Block, Genesis, Prev(_), Height(_), Work(_),
    Commit,
    Outs(_),        \* the outputs a block creates, in order
    Ins(_),         \* the outputs it spends
    NBITS,          \* the bits of a chunk of the bitmap
    Zero,           \* what set_len leaves in a file it makes longer
    MaxCrashes      \* bound of the runs on the number of crashes

NBITSAssumption == NBITS \in Nat \ {0}

-----------------------------------------------------------------------------
\* BitmapAccumulator (chain/src/txhashset/bitmap_accumulator.rs): the output bitmap cut
\* into chunks of NBITS bits, the leaves of an MMR whose root every block header
\* commits to.  A chunk is the set of its bits.  Two nodes agree on a root only if
\* they hold the same sequence of chunks, so the incremental updates of apply must
\* not depend on the blocks that were applied and rewound on the way.

chunk_idx(idx) == idx \div NBITS
chunk_start_idx(idx) == chunk_idx(idx) * NBITS

Chunk(idx, k) == {x % NBITS : x \in {y \in idx : chunk_idx(y) = k}}

\* apply_from: chunks from that of from_idx to that of the last idx set; a last
\* chunk without a bit is not appended.
apply_from(chunks, idx, from_idx, size) ==
    LET live == {x \in idx : x < size /\ x >= chunk_start_idx(from_idx)}
    IN  IF live = {}
        THEN chunks
        ELSE chunks \o [j \in 1..(chunk_idx(Max(live)) - chunk_idx(from_idx) + 1) |->
                            Chunk(live, chunk_idx(from_idx) + j - 1)]

init(idx, size) == apply_from(<<>>, idx, 0, size)

rewind_prior(chunks, from_idx) == SubSeq(chunks, 1, Min({Len(chunks), chunk_idx(from_idx)}))

pad_left(chunks, from_idx) ==
    chunks \o [j \in 1..(chunk_idx(from_idx) - Len(chunks)) |-> {}]

apply(chunks, invalidated_idx, idx, size) ==
    IF invalidated_idx = {}
    THEN chunks
    ELSE LET from_idx == Min(invalidated_idx)
         IN  apply_from(pad_left(rewind_prior(chunks, from_idx), from_idx), idx, from_idx, size)

-----------------------------------------------------------------------------
Elems(s) == {s[i] : i \in 1..Len(s)}

Ancestors[b \in Block] == IF b = Genesis THEN {b} ELSE Ancestors[Prev(b)] \cup {b}

\* What the header of a valid block commits to: its output and rangeproof leaves,
\* its kernels and its unspent outputs, computed along its own path.
Created[b \in Block] == IF b = Genesis THEN Outs(b) ELSE Created[Prev(b)] \o Outs(b)

Kernels[b \in Block] == IF b = Genesis THEN <<b>> ELSE Append(Kernels[Prev(b)], b)

Utxo[b \in Block] ==
    LET old == IF b = Genesis THEN [c \in Commit |-> 0] ELSE Utxo[Prev(b)]
        n == Len(Created[b]) - Len(Outs(b))
    IN  [c \in Commit |->
            IF c \in Elems(Outs(b)) THEN CHOOSE p \in n + 1..Len(Created[b]) : Created[b][p] = c
            ELSE IF c \in Ins(b) THEN 0 ELSE old[c]]

Unspent(b) == {Utxo[b][c] : c \in Commit} \ {0}

Valid[b \in Block] ==
    \/ b = Genesis
    \/ /\ Valid[Prev(b)]
       /\ \A c \in Ins(b) : Utxo[Prev(b)][c] # 0
       /\ \A c \in Elems(Outs(b)) : Utxo[Prev(b)][c] = 0

output_mmr_size(b) == Len(Created[b])
kernel_mmr_size(b) == Len(Kernels[b])

Bits(unspent, n) == init({p - 1 : p \in unspent}, n)
-----------------------------------------------------------------------------
VARIABLES
    disk,       \* the files: hash and data files oh od rh rd kh kd, leaf sets ol rl
    bits,       \* the bitmap accumulator of the open TxHashSet
    db,         \* what is committed: head, blocks, output_pos, spent
    batch,      \* the same with the uncommitted writes of the batch
    ext,        \* the extension: the MMRs as it sees them, its bitmap and its head
    phase,      \* what the node does next
    mode,       \* what the extension being written is for
    goal,       \* the block being processed
    step,       \* the next file to write
    low,        \* the sizes the extension was rewound to
    out,        \* how the last call ended
    floor,      \* history: a block the repair need not go below
    crashes

vars == <<disk, bits, db, batch, ext, phase, mode, goal, step, low, out, floor, crashes>>

\* The order in which extending writes: the output, the rangeproof and the kernel
\* backend, each its hash file, its data file and its leaf set.
Files == <<"oh", "od", "ol", "rh", "rd", "rl", "kh", "kd">>
LeafSets == {"ol", "rl"}
KernelFiles == {"kh", "kd"}

Init ==
    /\ disk = [oh |-> Outs(Genesis), od |-> Outs(Genesis), ol |-> Unspent(Genesis),
               rh |-> Outs(Genesis), rd |-> Outs(Genesis), rl |-> Unspent(Genesis),
               kh |-> <<Genesis>>, kd |-> <<Genesis>>]
    /\ bits = Bits(Unspent(Genesis), output_mmr_size(Genesis))
    /\ db = [head |-> Genesis, blocks |-> {Genesis}, output_pos |-> Utxo[Genesis],
             spent |-> [b \in Block |-> {}]]
    /\ batch = db
    /\ ext = [m |-> disk, bits |-> bits, head |-> Genesis, affected |-> {}]
    /\ phase = "idle"
    /\ mode = "block"
    /\ goal = Genesis
    /\ step = 1
    /\ low = Genesis
    /\ out = "none"
    /\ floor = Genesis
    /\ crashes = 0
-----------------------------------------------------------------------------
\* PMMRBackend::get_data: the leaf must be in the leaf set and in the data file.
HasData(m, p, c) == p \in m.ol /\ p <= Len(m.od) /\ m.od[p] = c

\* AppendOnlyFile::rewind, seen through the next flush: set_len cuts the file or
\* fills it up with zeros.
Resize(f, n) == [i \in 1..n |-> IF i <= Len(f) THEN f[i] ELSE Zero]

\* The same for the kernel data file, whose elements have no fixed size: the new
\* length comes from the size file, and where that had to be filled up with zeros
\* the length is 0 and all data is gone.
ResizeBySizeFile(f, n) == IF n <= Len(f) THEN SubSeq(f, 1, n) ELSE [i \in 1..n |-> Zero]

\* LeafSet::rewind
RewindLeafSet(set, n, rm_pos) == {p \in set : p <= n} \cup rm_pos

rewind_mmrs_to_pos(m, b, spent_pos) ==
    LET n == output_mmr_size(b)
        k == kernel_mmr_size(b)
    IN  [oh |-> Resize(m.oh, n), od |-> Resize(m.od, n), ol |-> RewindLeafSet(m.ol, n, spent_pos),
         rh |-> Resize(m.rh, n), rd |-> Resize(m.rd, n), rl |-> RewindLeafSet(m.rl, n, spent_pos),
         kh |-> Resize(m.kh, k), kd |-> ResizeBySizeFile(m.kd, k)]

apply_to_bitmap_accumulator(x, affected, m) ==
    apply(x, {p - 1 : p \in affected}, {p - 1 : p \in m.ol}, Len(m.oh))

\* The part of rewind_single_block on the output_pos index: entries of the block's
\* outputs go, those of the outputs it spent come back.
RewindOutputPos(pos, m, b, spent_pos) ==
    [c \in Commit |->
        IF \E p \in spent_pos : HasData(m, p, c)
        THEN CHOOSE p \in spent_pos : HasData(m, p, c)
        ELSE IF c \in Elems(Outs(b)) THEN 0 ELSE pos[c]]

\* rewind_single_block on the extension x and the output_pos index of the batch
RewoundBlock(x) ==
    LET b == x.head
        m == rewind_mmrs_to_pos(x.m, Prev(b), batch.spent[b])
    IN  [x EXCEPT !.m = m, !.head = Prev(b),
                  !.affected = @ \cup batch.spent[b] \cup {output_mmr_size(Prev(b))}]

\* The end of Extension::rewind: nothing was rewound and the MMRs are only cut to
\* the head, or the accumulator is updated for all rewound blocks.
RewindEnded(x) ==
    IF x.affected = {}
    THEN LET m == rewind_mmrs_to_pos(x.m, x.head, {})
         IN  [x EXCEPT !.m = m,
                       !.bits = apply_to_bitmap_accumulator(@, {output_mmr_size(x.head)}, m)]
    ELSE [x EXCEPT !.bits = apply_to_bitmap_accumulator(@, x.affected, x.m), !.affected = {}]

\* Extension::apply_block
CanApply(x, pos, b) ==
    /\ \A c \in Elems(Outs(b)) : ~(pos[c] # 0 /\ HasData(x.m, pos[c], c))
    /\ Len(x.m.oh) = Len(x.m.rh)
    /\ \A c \in Ins(b) : pos[c] # 0 /\ HasData(x.m, pos[c], c)

SpentPos(pos, b) == {pos[c] : c \in Ins(b)}

AppliedBlock(x, pos, b) ==
    LET n == Len(x.m.oh)
        new == n + 1..n + Len(Outs(b))
        spent == SpentPos(pos, b)
        m == [oh |-> x.m.oh \o Outs(b), od |-> x.m.od \o Outs(b), ol |-> (x.m.ol \cup new) \ spent,
              rh |-> x.m.rh \o Outs(b), rd |-> x.m.rd \o Outs(b), rl |-> (x.m.rl \cup new) \ spent,
              kh |-> Append(x.m.kh, b), kd |-> Append(x.m.kd, b)]
    IN  [x EXCEPT !.m = m, !.head = b,
                  !.bits = apply_to_bitmap_accumulator(@, new \cup spent, m)]


AppliedOutputPos(x, pos, b) ==
    LET n == Len(x.m.oh)
    IN  [c \in Commit |->
            IF c \in Elems(Outs(b)) THEN n + CHOOSE i \in 1..Len(Outs(b)) : Outs(b)[i] = c
            ELSE IF c \in Ins(b) THEN 0 ELSE pos[c]]

\* Extension::validate_roots; the roots of the genesis block are not looked at.
validate_roots(x, b) ==
    \/ b = Genesis
    \/ /\ x.m.oh = Created[b]
       /\ x.bits = Bits(Unspent(b), output_mmr_size(b))
       /\ x.m.rh = Created[b]
       /\ x.m.kh = Kernels[b]
-----------------------------------------------------------------------------
Extend(head) == [m |-> disk, bits |-> bits, head |-> head, affected |-> {}]

Fork(a, b) == CHOOSE f \in Ancestors[a] \cap Ancestors[b] :
                  \A g \in Ancestors[a] \cap Ancestors[b] : Height(g) <= Height(f)

\* The outputs at f that the branch from f to b spends, and the highest ancestor of
\* f that has none of them: what a repair must go back to if all their spends were
\* written.
SpentSince(f, b) == {Utxo[f][c] : c \in UNION {Ins(x) : x \in Ancestors[b] \ Ancestors[f]}} \ {0}

Floor(f, b) ==
    LET clear == {a \in Ancestors[f] : \A p \in SpentSince(f, b) : p > output_mmr_size(a)} \cup {Genesis}
    IN  CHOOSE a \in clear : \A g \in clear : Height(g) <= Height(a)

\* pipe::process_block up to its extension: a block that is not known, whose parent is.
process_block(b) ==
    /\ phase = "idle"
    /\ b \notin db.blocks
    /\ Prev(b) \in db.blocks
    /\ phase' = "rewind"
    /\ mode' = "block"
    /\ goal' = b
    /\ batch' = db
    /\ ext' = Extend(db.head)
    /\ out' = "none"
    /\ floor' = Floor(Fork(db.head, b), b)
    /\ UNCHANGED <<disk, bits, db, step, low, crashes>>

\* One round of the loop in Extension::rewind.
rewind_single_block ==
    /\ phase = "rewind"
    /\ ext.head \notin Ancestors[Prev(goal)]
    /\ ext' = RewoundBlock(ext)
    /\ batch' = [batch EXCEPT !.output_pos =
                    RewindOutputPos(@, ext'.m, ext.head, batch.spent[ext.head])]
    /\ UNCHANGED <<disk, bits, db, phase, mode, goal, step, low, out, floor, crashes>>

RewindEnd ==
    /\ phase = "rewind"
    /\ ext.head \in Ancestors[Prev(goal)]
    /\ ext' = RewindEnded(ext)
    /\ low' = ext.head
    /\ phase' = "apply"
    /\ UNCHANGED <<disk, bits, db, batch, mode, goal, step, out, floor, crashes>>

\* The next block of the fork, the block being processed last.
NextBlock(x) == CHOOSE b \in Ancestors[goal] : b # Genesis /\ Prev(b) = x.head

\* apply_block_to_txhashset: apply_block and validate_roots.
apply_block ==
    /\ phase = "apply"
    /\ ext.head # goal
    /\ \E b \in {NextBlock(ext)} : \E x \in {AppliedBlock(ext, batch.output_pos, b)} :
        /\ CanApply(ext, batch.output_pos, b)
        /\ validate_roots(x, b)
        /\ ext' = x
        /\ batch' = [batch EXCEPT !.output_pos = AppliedOutputPos(ext, @, b),
                                  !.spent[b] = SpentPos(batch.output_pos, b)]
        /\ UNCHANGED <<disk, bits, db, phase, mode, goal, step, low, out, floor, crashes>>

Idle(result) ==
    /\ phase' = "idle"
    /\ out' = result
    /\ UNCHANGED <<mode, goal, step, low, crashes>>

RejectBlock ==
    /\ phase = "apply"
    /\ ext.head # goal
    /\ \E b \in {NextBlock(ext)} : \E x \in {AppliedBlock(ext, batch.output_pos, b)} :
        ~(CanApply(ext, batch.output_pos, b) /\ validate_roots(x, b))
    /\ Idle("rejected")
    /\ batch' = db
    /\ ext' = Extend(db.head)
    /\ floor' = db.head
    /\ UNCHANGED <<disk, bits, db>>

\* Without more work than the head the extension is rolled back; the block is kept.
ForkBlock ==
    /\ phase = "apply"
    /\ ext.head = goal
    /\ Work(goal) <= Work(db.head)
    /\ Idle("fork")
    /\ db' = [db EXCEPT !.blocks = @ \cup {goal}]
    /\ batch' = db'
    /\ ext' = Extend(db.head)
    /\ floor' = db.head
    /\ UNCHANGED <<disk, bits>>

HeadBlock ==
    /\ phase = "apply"
    /\ ext.head = goal
    /\ Work(goal) > Work(db.head)
    /\ phase' = "sync"
    /\ step' = 1
    /\ batch' = [batch EXCEPT !.head = goal, !.blocks = @ \cup {goal}]
    /\ UNCHANGED <<disk, bits, db, ext, mode, goal, low, out, floor, crashes>>
-----------------------------------------------------------------------------

\* extending after its closure: PMMRBackend::sync of the three backends, one file at
\* a time, then the accumulator.
sync ==
    /\ phase = "sync"
    /\ disk' = [disk EXCEPT ![Files[step]] = ext.m[Files[step]]]
    /\ IF step < Len(Files)
       THEN step' = step + 1 /\ UNCHANGED <<bits, phase>>
       ELSE /\ step' = 1
            /\ bits' = ext.bits
            /\ phase' = IF mode = "undo" THEN "check" ELSE "commit"
    /\ UNCHANGED <<db, batch, ext, mode, goal, low, out, floor, crashes>>

\* ctx.batch.commit() of process_block, and of setup_head.
commit ==
    /\ phase = "commit"
    /\ db' = batch
    /\ IF mode = "block"
       THEN Idle("head") /\ floor' = batch.head
       ELSE phase' = "reindex" /\ UNCHANGED <<mode, goal, step, low, out, floor, crashes>>
    /\ UNCHANGED <<disk, bits, batch, ext>>

\* The process stops: everything that is not in a file or in the database is lost.
\* A file being written has been cut and some of its new leaves may be there; a leaf
\* set is replaced in one piece (save_via_temp_file).
Partial(f) ==
    IF f \in LeafSets
    THEN {disk[f]}
    ELSE {SubSeq(ext.m[f], 1, n) :
            n \in (IF f \in KernelFiles THEN kernel_mmr_size(low) ELSE output_mmr_size(low))
                  ..Len(ext.m[f])}

Crash ==
    /\ phase \notin {"down", "failed"}
    /\ crashes < MaxCrashes
    /\ \/ UNCHANGED disk
       \/ /\ phase = "sync"
          /\ \E f \in Partial(Files[step]) : disk' = [disk EXCEPT ![Files[step]] = f]
    /\ crashes' = crashes + 1
    /\ phase' = "down"
    /\ bits' = <<>>
    /\ batch' = db
    /\ ext' = [m |-> disk', bits |-> <<>>, head |-> db.head, affected |-> {}]
    /\ step' = 1
    /\ out' = "none"
    /\ UNCHANGED <<db, mode, goal, low, floor>>

\* Chain::init: TxHashSet::open verifies the first kernel and builds the accumulator
\* from the leaf set.
FirstKernelOk == Len(disk.kd) > 0 /\ disk.kd[1] = Genesis

OpenFails ==
    /\ phase = "down"
    /\ ~FirstKernelOk
    /\ phase' = "failed"
    /\ UNCHANGED <<disk, bits, db, batch, ext, mode, goal, step, low, out, floor, crashes>>

open ==
    /\ phase = "down"
    /\ FirstKernelOk
    /\ bits' = Bits(disk.ol, Len(disk.oh))
    /\ batch' = db
    /\ phase' = "check"
    /\ UNCHANGED <<disk, db, ext, mode, goal, step, low, out, floor, crashes>>

\* setup_head: with the PIBD head at genesis and the MMRs longer than the genesis
\* block, PIBD is taken to be in progress and nothing is rewound or validated.
PibdInProgress(h) ==
    /\ h = Genesis
    /\ \/ Len(disk.oh) > output_mmr_size(h)
       \/ Len(disk.rh) > output_mmr_size(h)
       \/ Len(disk.kh) > kernel_mmr_size(h)

PibdSkipsCheck ==
    /\ phase = "check"
    /\ PibdInProgress(batch.head)
    /\ phase' = "commit"
    /\ mode' = "check"
    /\ UNCHANGED <<disk, bits, db, batch, ext, goal, step, low, out, floor, crashes>>

\* Otherwise the MMRs are cut to the head and its roots validated,
HeadOk(h) == \E x \in {RewindEnded(Extend(h))} : validate_roots(x, h)

HeadValidated ==
    LET x == RewindEnded(Extend(batch.head))
    IN  /\ phase = "check"
        /\ ~PibdInProgress(batch.head)
        /\ HeadOk(batch.head)
        /\ phase' = "sync"
        /\ mode' = "check"
        /\ ext' = x
        /\ low' = batch.head
        /\ UNCHANGED <<disk, bits, db, batch, goal, step, out, floor, crashes>>

\* and a head that fails is undone: rewound, written, deleted.
HeadUndone ==
    LET h == batch.head
    IN  /\ phase = "check"
        /\ ~PibdInProgress(h)
        /\ ~HeadOk(h)
        /\ h \in batch.blocks
        /\ phase' = "sync"
        /\ mode' = "undo"
        /\ low' = Prev(h)
        /\ \E x \in {RewoundBlock(Extend(h))} :
            /\ ext' = RewindEnded(x)
            /\ batch' = [head |-> Prev(h),
                         blocks |-> batch.blocks \ {h},
                         output_pos |-> RewindOutputPos(batch.output_pos, x.m, h, batch.spent[h]),
                         spent |-> [batch.spent EXCEPT ![h] = {}]]
        /\ UNCHANGED <<disk, bits, db, goal, step, out, floor, crashes>>

\* TxHashSet::init_output_pos_index: entries that do not lead to their output are
\* removed, outputs without an entry get one, up to the size at the head.
Reindexed(pos) ==
    LET kept == {c \in Commit : pos[c] # 0 /\ HasData(disk, pos[c], c)}
        missing(c) == {p \in disk.ol : HasData(disk, p, c) /\ p <= output_mmr_size(db.head)}
    IN  [c \in Commit |->
            IF c \in kept THEN pos[c]
            ELSE IF missing(c) # {} /\ db.head # Genesis THEN Max(missing(c)) ELSE 0]

init_output_pos_index ==
    /\ phase = "reindex"
    /\ db' = [db EXCEPT !.output_pos = Reindexed(@)]
    /\ batch' = db'
    /\ Idle("started")
    /\ floor' = db.head
    /\ ext' = Extend(db.head)
    /\ UNCHANGED <<disk, bits>>

Step ==
    \/ rewind_single_block
    \/ RewindEnd
    \/ apply_block
    \/ RejectBlock
    \/ ForkBlock
    \/ HeadBlock
    \/ sync
    \/ commit
    \/ open
    \/ OpenFails
    \/ PibdSkipsCheck
    \/ HeadValidated
    \/ HeadUndone
    \/ init_output_pos_index

Next ==
    \/ \E b \in Block : process_block(b)
    \/ Step
    \/ Crash

\* The node keeps running or is started again; blocks need not come.
Spec == Init /\ [][Next]_vars /\ WF_vars(Step)
-----------------------------------------------------------------------------
\* What an extension opened now would start from.
Seen == RewindEnded(Extend(db.head))

\* Between two calls the MMRs, cut to the head as every extension cuts them, hold
\* exactly what a replay of the head's chain from genesis gives, whatever was
\* applied, rolled back, reorganised, interrupted and repaired before: leaves, leaf
\* sets of outputs and of rangeproofs (which no root covers), kernel hashes.
StateIsReplay ==
    phase = "idle" =>
        LET b == db.head
            m == Seen.m
        IN  /\ m.oh = Created[b] /\ m.od = Created[b] /\ m.ol = Unspent(b)
            /\ m.rh = Created[b] /\ m.rd = Created[b] /\ m.rl = Unspent(b)
            /\ m.kh = Kernels[b]

\* The bitmap accumulator, updated block by block over forks and repairs, is the one
\* built from the unspent outputs of the head when the node starts (TxHashSet::open):
\* its root does not depend on the blocks applied and rewound on the way.
BitmapIsReplay ==
    phase = "idle" => Seen.bits = Bits(Unspent(db.head), output_mmr_size(db.head))

\* Between two calls the output_pos index has exactly the unspent outputs, each at
\* its position; a commitment spent and created again has its new position, and its
\* old one after a rewind.
OutputPosExact == phase = "idle" => db.output_pos = Utxo[db.head]

\* A block that is valid on its own chain is never rejected, before or after a
\* crash and its repair.
ValidBlockApplied == out = "rejected" => ~Valid[goal]

\* The repair goes back no further than to the fork point, or to before the first
\* output the interrupted branch spends; the head never moves past it.
RollbackBounded == phase \in {"check", "reindex"} => floor \in Ancestors[batch.head]

\* The accumulator has as many chunks as the desegmenter expects of a peer's bitmap
\* for this number of outputs (Desegmenter::calc_bitmap_mmr_sizes).
ChunkCountIsCeiling ==
    phase = "idle" => Len(Seen.bits) = (output_mmr_size(db.head) + NBITS - 1) \div NBITS

\* A node that stopped at any point gets through setup_head and the reindexing, if it
\* is not stopped for ever: the blocks it undoes one by one come to an end.  Only the
\* loss of the first kernel (a repair that grows the size file with zeros empties the
\* kernel file) keeps it from starting.
StartSucceeds == []<>(phase = "idle" \/ ~FirstKernelOk)
=============================================================================
