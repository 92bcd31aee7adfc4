------------------------------ MODULE Segment -------------------------------
(***************************************************************************)
(* Segments of a mountain range (core/src/core/pmmr/segment.rs): how one   *)
(* is taken from a PMMR with a proof, how the receiver computes its root    *)
(* and checks the proof against the root of the whole range, and how        *)
(* received segments build the PMMR again (txhashset.rs).                  *)
(***************************************************************************)
EXTENDS PmmrBackend

\* What no hash is equal to
Error == <<-1>>

segment_capacity(id) == 2 ^ id.height
leaf_offset(id) == id.idx * segment_capacity(id)
count_segments_required(size, height) == (n_leaves(size) + 2 ^ height - 1) \div 2 ^ height
segment_unpruned_size(id, size) ==
    LET left == n_leaves(size) - leaf_offset(id)
    IN  Upto(segment_capacity(id), IF left < 0 THEN 0 ELSE left)
full_segment(id, size) == segment_unpruned_size(id, size) = segment_capacity(id)
segment_pos_range(id, size) ==
    <<insertion_to_pmmr_index(leaf_offset(id)),
      IF full_segment(id, size)
      THEN insertion_to_pmmr_index(leaf_offset(id) + segment_unpruned_size(id, size) - 1) + id.height
      ELSE size - 1>>

\* The view of the PMMR that segments are taken from has the size of the archive
ViewHash(b, size, pos0) == IF pos0 >= size THEN None ELSE get_hash(b, pos0)
ViewFile(b, size, pos0) == IF pos0 >= size THEN None ELSE get_from_file(b, pos0)
ViewData(b, size, pos0) == IF pos0 >= size THEN None ELSE get_data_from_file(b, pos0)

\* Siblings up to the peak from the first parent that is stored, the peaks to the
\* right bagged, the peaks to the left one by one
generate(b, size, first, last, start_pos) ==
    LET branch == family_branch(last, size)
        above == SelectSeq(branch, LAMBDA f : f[1] >= start_pos)
        sibs == [i \in DOMAIN above |-> ViewHash(b, size, above[i][2])]
        peak_pos == IF branch = <<>> THEN last ELSE Last(branch)[1]
        rhs == bag_the_rhs(b, size, peak_pos)
        lefts == Reverse(SelectSeq(peaks(size), LAMBDA p : p < first))
        lhs == [i \in DOMAIN lefts |-> ViewHash(b, size, lefts[i])]
        proof == sibs \o (IF rhs = None THEN <<>> ELSE <<rhs>>) \o lhs
    IN  IF None \in Range(sibs) \union Range(lhs) THEN <<Error>> ELSE proof

exists(seg) == Error \notin Range(seg.proof)
from_pmmr(id, b, size) ==
    LET range == segment_pos_range(id, size)
        Leaves == {p \in range[1]..range[2] : is_leaf(p) /\ ViewData(b, size, p) # None}
        Inner == {p \in (range[1]..range[2]) \ Leaves : ViewFile(b, size, p) # None}
        above == SelectSeq(family_branch(range[2], size), LAMBDA f : ViewFile(b, size, f[1]) # None)
        first_parent == IF Leaves = {} /\ Inner = {} /\ above # <<>> THEN {above[1][1]} ELSE {}
        proof == generate(b, size, range[1], range[2],
                          IF first_parent = {} THEN 0 ELSE 1 + above[1][1])
    IN  [id |-> id, proof |-> IF segment_unpruned_size(id, size) = 0 THEN <<Error>> ELSE proof,
         leaves |-> [p \in Leaves |-> ViewData(b, size, p)],
         hashes |-> [p \in Inner \union first_parent |-> ViewFile(b, size, p)]]

SegmentHash(seg, pos0) == IF pos0 \in DOMAIN seg.hashes THEN seg.hashes[pos0] ELSE Error

\* A leaf is needed when it or its sibling is unspent, and when it is the last node
LeafNeeded(bitmap, pos0, size) ==
    LET idx == n_leaves(pos0 + 1) - 1
    IN  {idx, IF is_left_sibling(pos0) THEN idx + 1 ELSE idx - 1} \intersect bitmap # {} \/ pos0 = size - 1

RECURSIVE SubRoot(_, _, _, _)
SubRoot(seg, size, bitmap, pos0) ==
    LET h == bintree_postorder_height(pos0)
        l == SubRoot(seg, size, bitmap, pos0 - 2 ^ h)
        r == SubRoot(seg, size, bitmap, pos0 - 1)
        l1 == IF l = None THEN SegmentHash(seg, pos0 - 2 ^ h) ELSE l
        r1 == IF r = None THEN SegmentHash(seg, pos0 - 1) ELSE r
    IN  CASE h = 0 /\ ~ LeafNeeded(bitmap, pos0, size) -> None
          [] h = 0 /\ LeafNeeded(bitmap, pos0, size) ->
                IF pos0 \in DOMAIN seg.leaves THEN LeafHash(pos0, seg.leaves[pos0]) ELSE Error
          [] h > 0 -> IF Error \in {l, r} THEN Error
                      ELSE IF l = None /\ r = None THEN None
                      ELSE IF Error \in {l1, r1} THEN Error ELSE NodeHash(pos0, l1, r1)

\* None when the segment is full and everything in it is pruned
SegmentRoot(seg, size, bitmap) ==
    LET range == segment_pos_range(seg.id, size)
        inside == SelectSeq(peaks(size), LAMBDA p : p \in range[1]..range[2])
        Peak(p) == LET h == SubRoot(seg, size, bitmap, p) IN IF h = None THEN SegmentHash(seg, p) ELSE h
        hs == [i \in DOMAIN inside |-> Peak(inside[i])]
    IN  IF full_segment(seg.id, size) THEN SubRoot(seg, size, bitmap, range[2])
        ELSE IF Error \in Range(hs) THEN Error ELSE Bag(hs, size)

UnspentUnder(bitmap, pos0, size) ==
    {i \in bitmap : /\ i >= n_leaves(1 + bintree_leftmost(pos0)) - 1
                    /\ i < Upto(n_leaves(1 + bintree_rightmost(pos0)), n_leaves(size))}
RECURSIVE ClimbTo(_, _, _, _, _)
ClimbTo(seg, size, bitmap, pos0, branch) ==
    CASE SegmentHash(seg, pos0) # Error -> <<SegmentHash(seg, pos0), 1 + pos0>>
      [] SegmentHash(seg, pos0) = Error /\ branch = <<>> -> Error
      [] SegmentHash(seg, pos0) = Error /\ branch # <<>> ->
            IF UnspentUnder(bitmap, Head(branch)[1], size) # {} THEN Error
            ELSE ClimbTo(seg, size, bitmap, Head(branch)[1], Tail(branch))
\* <<hash, 1-based position>> of the segment's root or of the parent it was pruned into
first_unpruned_parent(seg, size, bitmap) ==
    LET r == SegmentRoot(seg, size, bitmap)
        last == segment_pos_range(seg.id, size)[2]
    IN  CASE r = Error -> Error
          [] r \notin {Error, None} -> <<r, 1 + last>>
          [] r = None -> ClimbTo(seg, size, bitmap, last, family_branch(last, size))

RECURSIVE UpTheBranch(_, _, _)
UpTheBranch(hash, branch, hs) ==
    IF branch = <<>> \/ hs = <<>> THEN <<hash, hs, branch>>
    ELSE LET p == Head(branch)[1]
             s == Head(branch)[2]
         IN  UpTheBranch(IF is_left_sibling(s) THEN NodeHash(p, Head(hs), hash) ELSE NodeHash(p, hash, Head(hs)),
                         Tail(branch), Tail(hs))
RECURSIVE LeftPeaks(_, _, _, _)
LeftPeaks(hash, n, hs, size) ==
    IF n = 0 THEN hash
    ELSE IF hs = <<>> THEN Error
    ELSE LeftPeaks(NodeHash(size, Head(hs), hash), n - 1, Tail(hs), size)
reconstruct_root(proof, size, first, last, segment_root, unpruned_pos) ==
    LET branch == family_branch(last, size)
        up == UpTheBranch(segment_root, SelectSeq(branch, LAMBDA f : f[1] >= unpruned_pos), proof)
        peak_pos == IF branch = <<>> THEN last ELSE Last(branch)[1]
        right == \E p \in Range(peaks(size)) : p > peak_pos
        lefts == Len(SelectSeq(peaks(size), LAMBDA p : p < first))
    IN  IF up[3] # <<>> \/ (right /\ up[2] = <<>>) THEN Error
        ELSE IF right THEN LeftPeaks(NodeHash(size, up[1], Head(up[2])), lefts, Tail(up[2]), size)
        ELSE LeftPeaks(up[1], lefts, up[2], size)

validate(seg, size, bitmap, mmr_root) ==
    LET range == segment_pos_range(seg.id, size)
        parent == first_unpruned_parent(seg, size, bitmap)
    IN  /\ parent # Error
        /\ reconstruct_root(seg.proof, size, range[1], range[2], parent[1], parent[2]) = mmr_root

-----------------------------------------------------------------------------
(* Applying segments, in order, to a PMMR that starts with the genesis leaf *)

\* A hash beyond the end is a pruned subtree, which replaces the part of it there is
ApplyHash(b, pos0, hash) ==
    LET start == bintree_leftmost(pos0)
        b1 == IF start < b.size THEN rewind(b, start, {}) ELSE b
    IN  IF pos0 < b.size THEN b ELSE push_pruned_subtree(b1, hash, pos0)
ApplyLeaf(b, pos0, data, bitmap_cache) ==
    LET b1 == IF pos0 = b.size THEN push(b, data) ELSE b
    IN  IF pmmr_leaf_to_insertion_index(pos0) \in bitmap_cache THEN b1
        ELSE [b1 EXCEPT !.leaf_set = @ \ {pos0}]
\* Leaves and hashes are sorted into insertion order; the genesis leaf is not pushed again
sort_pmmr_hashes_and_leaves(seg) == Ascending((DOMAIN seg.leaves \ {0}) \union DOMAIN seg.hashes)
RECURSIVE Inserts(_, _, _, _)
Inserts(b, seg, todo, bitmap_cache) ==
    IF todo = <<>> THEN b
    ELSE LET p == Head(todo)
         IN  Inserts(IF p \in DOMAIN seg.leaves THEN ApplyLeaf(b, p, seg.leaves[p], bitmap_cache)
                     ELSE ApplyHash(b, p, seg.hashes[p]),
                     seg, Tail(todo), bitmap_cache)
apply_output_segment(b, seg, bitmap_cache) == Inserts(b, seg, sort_pmmr_hashes_and_leaves(seg), bitmap_cache)

\* The leaves before the last unspent one that the bitmap says are spent
update_leaf_sets(b, bitmap) ==
    [b EXCEPT !.leaf_set = @ \ {insertion_to_pmmr_index(i) : i \in (0..Max(bitmap)) \ bitmap}]
=============================================================================
