----------------------------- MODULE Desegmenter -----------------------------
(***************************************************************************)
(* The desegmenter of PIBD (chain/src/txhashset/desegmenter.rs): which     *)
(* segments of the bitmap, output, rangeproof and kernel MMRs are wanted,  *)
(* cached and applied.  Sizes of MMRs are counted in leaves; the header of *)
(* height h commits to Leaves(kind, h) leaves.  A desegmenter d is the     *)
(* record of its fields, mmr the leaves of the three trees of the chain.   *)
(***************************************************************************)
EXTENDS Integers, Sequences, FiniteSets, SequencesExt

CONSTANTS
    Leaves(_, _),       \* leaves of a tree at a height: output_mmr_size, kernel_mmr_size
    SegmentLeaves(_),   \* leaves of one segment: *_SEGMENT_HEIGHT
    ChunkLeaves,        \* outputs per leaf of the bitmap MMR: 1024 in the code
    BatchSize,          \* SEGMENT_APPLY_BATCH_SIZE
    MaxCached           \* MAX_CACHED_SEGMENTS

Kinds == {"Output", "RangeProof", "Kernel"}
CeilDiv(n, m) == (n + m - 1) \div m

\* SegmentIdentifier::count_segments_required
SegmentCount(kind, leaves) == CeilDiv(leaves, SegmentLeaves(kind))

\* calc_bitmap_mmr_sizes: the leaves of the bitmap MMR of an archive header
bitmap_mmr_leaf_count(archive) == CeilDiv(Leaves("Output", archive), ChunkLeaves)

\* Desegmenter::new, and reset, which keeps the archive header
NewDesegmenter(archive) == [archive |-> archive, chunks |-> 0, bitmap |-> FALSE, cache |-> {}]
reset(d) == NewDesegmenter(d.archive)

next_required_bitmap_segment_index(d) == SegmentCount("Bitmap", d.chunks)
BitmapDone(d) == SegmentCount("Bitmap", d.chunks) = SegmentCount("Bitmap", bitmap_mmr_leaf_count(d.archive))

\* local_segment_count: the genesis leaf alone counts as nothing.
local_segment_count(kind, local) == IF local = 1 THEN 0 ELSE SegmentCount(kind, local)

\* next_required_segment_index: a segment that is only there in part is asked for again.
Partial(kind, local, target) ==
    local < target /\ local < local_segment_count(kind, local) * SegmentLeaves(kind)
NextRequired(d, mmr, kind) ==
    local_segment_count(kind, mmr[kind]) - (IF Partial(kind, mmr[kind], Leaves(kind, d.archive)) THEN 1 ELSE 0)
Total(d, kind) == SegmentCount(kind, Leaves(kind, d.archive))
Required(d, mmr, kind) == NextRequired(d, mmr, kind) # Total(d, kind)

Id(kind, idx) == [kind |-> kind, idx |-> idx]
SegmentIds(archive) ==
    {Id("Bitmap", i) : i \in 0..SegmentCount("Bitmap", bitmap_mmr_leaf_count(archive)) - 1}
        \cup UNION {{Id(k, i) : i \in 0..SegmentCount(k, Leaves(k, archive)) - 1} : k \in Kinds}

\* has_bitmap_segment_with_id and its three siblings
Has(d, id) == \E s \in d.cache : s.id = id
\* cache_bitmap_segment and its three siblings: the first of an identifier stays.
Cached(d, segment) == IF Has(d, segment.id) THEN d ELSE [d EXCEPT !.cache = @ \cup {segment}]

\* The leaves of the tree once segment idx is applied
After(d, kind, idx) ==
    LET all == IF kind = "Bitmap" THEN bitmap_mmr_leaf_count(d.archive) ELSE Leaves(kind, d.archive)
        end == (idx + 1) * SegmentLeaves(kind)
    IN  IF end < all THEN end ELSE all

\* next_desired_segments: the indices of one tree that are neither applied nor cached
Wanted(d, mmr, kind) ==
    SelectSeq([i \in 1..(Total(d, kind) - NextRequired(d, mmr, kind)) |-> Id(kind, NextRequired(d, mmr, kind) + i - 1)],
              LAMBDA id : After(d, kind, id.idx) > mmr[kind] /\ ~Has(d, id))
\* The next one required is always among them, and has the place of the last if need be.
Forced(d, mmr, kind, ids, max) ==
    LET next == Id(kind, NextRequired(d, mmr, kind)) IN
    IF Required(d, mmr, kind) /\ ~Has(d, next) /\ ~Contains(ids, next)
    THEN Append(IF Len(ids) >= max THEN Front(ids) ELSE ids, next)
    ELSE ids
FirstOf(ids, n) == SubSeq(ids, 1, IF Len(ids) < n THEN Len(ids) ELSE n)
next_desired_segments(d, mmr, max) ==
    IF ~d.bitmap
    THEN FirstOf(SelectSeq([i \in 1..SegmentCount("Bitmap", bitmap_mmr_leaf_count(d.archive)) |-> Id("Bitmap", i - 1)],
                           LAMBDA id : After(d, "Bitmap", id.idx) > d.chunks /\ ~Has(d, id)), max)
    ELSE LET wanted == FirstOf(Wanted(d, mmr, "Output"), max \div 3)
                       \o FirstOf(Wanted(d, mmr, "RangeProof"), max \div 3)
                       \o FirstOf(Wanted(d, mmr, "Kernel"), max \div 3)
             forced == Forced(d, mmr, "RangeProof", Forced(d, mmr, "Output", wanted, max), max)
         IN  Forced(d, mmr, "Kernel", forced, max)

\* take_segment_batch: the run of consecutive cached segments from the one required
BatchEnd(d, mmr, kind) ==
    LET from == NextRequired(d, mmr, kind)
        ends == {n \in 0..BatchSize : \A i \in from..from + n - 1 : Has(d, Id(kind, i))}
    IN  from + CHOOSE n \in ends : \A m \in ends : m <= n
take_segment_batch(d, mmr, kind) ==
    {s \in d.cache : s.id.kind = kind /\ s.id.idx \in NextRequired(d, mmr, kind)..BatchEnd(d, mmr, kind) - 1}
OfKind(d, kind) == {s \in d.cache : s.id.kind = kind}

\* apply_next_segments: one bitmap segment, or else a batch of each tree; a cache that is
\* not needed and full is dropped.  Applying the batch is apply_output_segments and its siblings.
ApplyKind(d, mmr, kind) ==
    LET batch == take_segment_batch(d, mmr, kind) IN
    IF Required(d, mmr, kind)
    THEN [cache |-> OfKind(d, kind) \ batch,
          leaves |-> IF batch = {} THEN mmr[kind] ELSE After(d, kind, BatchEnd(d, mmr, kind) - 1)]
    ELSE [cache |-> IF Cardinality(OfKind(d, kind)) >= MaxCached THEN {} ELSE OfKind(d, kind), leaves |-> mmr[kind]]
ApplyBitmap(d) ==
    LET id == Id("Bitmap", next_required_bitmap_segment_index(d)) IN
    IF Has(d, id)
    THEN [d EXCEPT !.chunks = After(d, "Bitmap", id.idx), !.cache = {s \in @ : s.id # id}]
    ELSE d
apply_next_segments(d, mmr) ==
    IF ~BitmapDone(d)
    THEN [d |-> ApplyBitmap(d), mmr |-> mmr]
    ELSE LET f == [d EXCEPT !.bitmap = TRUE] IN       \* finalize_bitmap
         LET out == ApplyKind(f, mmr, "Output")
             proof == ApplyKind(f, mmr, "RangeProof")
             kernel == ApplyKind(f, mmr, "Kernel")
         IN  [d |-> [f EXCEPT !.cache = OfKind(f, "Bitmap") \cup out.cache \cup proof.cache \cup kernel.cache],
              mmr |-> [Output |-> out.leaves, RangeProof |-> proof.leaves, Kernel |-> kernel.leaves]]

\* check_progress: all the leaves of the archive header, and its bitmap
AllApplied(d, mmr) == d.bitmap /\ \A k \in Kinds : mmr[k] = Leaves(k, d.archive)

\* get_first_header_with: the last header whose trees are all there, if another follows
PibdHeights(mmr, header_head) ==
    {h \in 0..header_head - 1 :
        (\A k \in Kinds : Leaves(k, h) <= mmr[k]) /\ \E k \in Kinds : Leaves(k, h + 1) > mmr[k]}
=============================================================================
