---------------------------- MODULE PmmrBackend -----------------------------
(***************************************************************************)
(* A prunable Merkle mountain range on disk: the PMMR of core/src/core/    *)
(* pmmr/pmmr.rs over the backend of store/src/pmmr.rs with its prune list   *)
(* and leaf set.  A backend is a record [hash_file, data_file, leaf_set,   *)
(* prune_list, size]; positions count from 0 in every set (the bitmaps of  *)
(* the code count from 1).  A hash is the tuple of what is hashed, so that *)
(* two hashes are equal only when everything below them is.                *)
(***************************************************************************)
EXTENDS PmmrIndex, FiniteSetsExt, TLC

None == <<>>
LeafHash(pos0, data) == <<pos0, data>>
NodeHash(pos0, l, r) == <<pos0, l, r>>

AtPos(file, i) == IF i \in DOMAIN file THEN file[i] ELSE None
RECURSIVE Ascending(_)
Ascending(S) == IF S = {} THEN <<>> ELSE <<Min(S)>> \o Ascending(S \ {Min(S)})
Upto(n, k) == IF n < k THEN n ELSE k

-----------------------------------------------------------------------------
(* PruneList *)

rank(list, pos0) == Cardinality({p \in list.bitmap : p <= pos0})
Maximum1(list) == IF list.bitmap = {} THEN 0 ELSE Max(list.bitmap) + 1

get_shift(list, pos0) ==
    LET idx == rank(list, pos0)
    IN  IF idx = 0 THEN 0 ELSE list.shift_cache[Upto(idx, Len(list.shift_cache))]
get_leaf_shift(list, pos0) ==
    LET idx == rank(list, pos0)
    IN  IF idx = 0 THEN 0 ELSE list.leaf_shift_cache[Upto(idx, Len(list.leaf_shift_cache))]
LastRoot(list) == IF list.bitmap = {} THEN 0 ELSE Max(list.bitmap)
get_total_shift(list) == get_shift(list, LastRoot(list))
get_total_leaf_shift(list) == get_leaf_shift(list, LastRoot(list))

is_pruned_root(list, pos0) == pos0 \in list.bitmap
\* Only the next pruned root can have the position under it
is_pruned(list, pos0) ==
    \/ is_pruned_root(list, pos0)
    \/ LET later == {p \in list.bitmap : p > pos0}
       IN  later # {} /\ pos0 \in bintree_range(Min(later))

calculate_next_shift(list, pos0) ==
    (IF pos0 = 0 THEN 0 ELSE get_shift(list, pos0 - 1))
    + (IF is_pruned_root(list, pos0) THEN 2 * (2 ^ bintree_postorder_height(pos0) - 1) ELSE 0)
calculate_next_leaf_shift(list, pos0) ==
    (IF pos0 = 0 THEN 0 ELSE get_leaf_shift(list, pos0 - 1))
    + (IF is_pruned_root(list, pos0) /\ ~ is_leaf(pos0) THEN 2 ^ bintree_postorder_height(pos0) ELSE 0)

\* What is under the subtree leaves the list, and the caches are cut to match
cleanup_subtree(list, pos0) ==
    LET lc0 == bintree_leftmost(pos0)
        kept == {p \in list.bitmap : p < lc0}
    IN  IF lc0 >= Maximum1(list) THEN list
        ELSE [bitmap |-> kept, shift_cache |-> SubSeq(list.shift_cache, 1, Cardinality(kept)),
              leaf_shift_cache |-> SubSeq(list.leaf_shift_cache, 1, Cardinality(kept))]

append_single(list, pos0) ==
    LET l1 == [list EXCEPT !.bitmap = @ \union {pos0}]
        l2 == [l1 EXCEPT !.shift_cache = Append(@, calculate_next_shift(l1, pos0))]
    IN  IF Assert(pos0 >= Maximum1(list), "prune list append only")
        THEN [l2 EXCEPT !.leaf_shift_cache = Append(@, calculate_next_leaf_shift(l1, pos0))]
        ELSE list

RECURSIVE PruneAppend(_, _)
PruneAppend(list, pos0) ==
    IF is_pruned(list, family(pos0)[2]) THEN PruneAppend(list, family(pos0)[1])
    ELSE append_single(cleanup_subtree(list, pos0), pos0)

EmptyPruneList == [bitmap |-> {}, shift_cache |-> <<>>, leaf_shift_cache |-> <<>>]
RECURSIVE AppendAll(_, _)
AppendAll(list, todo) == IF todo = {} THEN list
                         ELSE AppendAll(PruneAppend(list, Min(todo)), todo \ {Min(todo)})
NewPruneList(bitmap) == AppendAll(EmptyPruneList, bitmap)

\* init_caches: the caches are cleared and built again, entry by entry
RECURSIVE BuildCaches(_, _)
BuildCaches(list, todo) ==
    IF todo = <<>> THEN list
    ELSE BuildCaches([list EXCEPT !.shift_cache = Append(@, calculate_next_shift(list, Head(todo))),
                                  !.leaf_shift_cache = Append(@, calculate_next_leaf_shift(list, Head(todo)))],
                     Tail(todo))
init_caches(list) ==
    BuildCaches([list EXCEPT !.shift_cache = <<>>, !.leaf_shift_cache = <<>>], Ascending(list.bitmap))
OpenPruneList(bitmap) == init_caches(NewPruneList(bitmap))

-----------------------------------------------------------------------------
(* Reading the backend *)

is_compacted(b, pos0) ==
    pos0 \notin b.leaf_set /\ ~ is_pruned_root(b.prune_list, pos0) /\ is_pruned(b.prune_list, pos0)
get_peak_from_file(b, pos0) == AtPos(b.hash_file, 1 + pos0 - get_shift(b.prune_list, pos0))
get_from_file(b, pos0) == IF is_compacted(b, pos0) THEN None ELSE get_peak_from_file(b, pos0)
get_data_from_file(b, pos0) ==
    IF ~ is_leaf(pos0) \/ is_compacted(b, pos0) THEN None
    ELSE AtPos(b.data_file, n_leaves(pos0 + 1) - get_leaf_shift(b.prune_list, 1 + pos0))
get_hash(b, pos0) ==
    IF is_leaf(pos0) /\ pos0 \notin b.leaf_set THEN None ELSE get_from_file(b, pos0)
get_data(b, pos0) ==
    IF ~ is_leaf(pos0) \/ pos0 \notin b.leaf_set THEN None ELSE get_data_from_file(b, pos0)
unpruned_size(b) == Len(b.hash_file) + get_total_shift(b.prune_list)

\* The PMMR's peaks, root and Merkle proof, for a view of the given size
Peaks(b, size) == SelectSeq([i \in DOMAIN peaks(size) |-> get_peak_from_file(b, peaks(size)[i])],
                            LAMBDA h : h # None)
RECURSIVE Bag(_, _)
Bag(hs, size) == CASE hs = <<>> -> None
                   [] Len(hs) = 1 -> hs[1]
                   [] OTHER -> NodeHash(size, hs[1], Bag(Tail(hs), size))
root(b, size) == Bag(Peaks(b, size), size)
bag_the_rhs(b, size, peak_pos0) ==
    LET rhs == SelectSeq(peaks(size), LAMBDA p : p > peak_pos0)
        hs == [i \in DOMAIN rhs |-> get_from_file(b, rhs[i])]
    IN  Bag(SelectSeq(hs, LAMBDA h : h # None), size)
peak_path(b, size, peak_pos0) ==
    LET lhs == SelectSeq(peaks(size), LAMBDA p : p < peak_pos0)
        hs == [i \in DOMAIN lhs |-> get_peak_from_file(b, lhs[i])]
        rhs == bag_the_rhs(b, size, peak_pos0)
    IN  Reverse(hs \o IF rhs = None THEN <<>> ELSE <<rhs>>)

\* The path of hashes that proves the leaf; every sibling must still be stored
merkle_proof(b, size, pos0) ==
    LET branch == family_branch(pos0, size)
        sibs == [i \in DOMAIN branch |-> get_from_file(b, branch[i][2])]
        peak_pos == IF branch = <<>> THEN pos0 ELSE Last(branch)[1]
    IN  SelectSeq(sibs, LAMBDA h : h # None) \o peak_path(b, size, peak_pos)

\* The root that the proof leads to: at a peak, and beyond the range, peaks are bagged
RECURSIVE ProvenRoot(_, _, _, _, _)
ProvenRoot(path, size, hash, pos0, peaks_pos0) ==
    LET index == Upto(family(pos0)[1], size)
        sibling == Head(path)
        left == \/ pos0 \in Range(peaks_pos0) /\ pos0 = Last(peaks_pos0)
                \/ pos0 \notin Range(peaks_pos0)
                   /\ (family(pos0)[1] >= size \/ is_left_sibling(family(pos0)[2]))
    IN  IF path = <<>> THEN hash
        ELSE ProvenRoot(Tail(path), size,
                        IF left THEN NodeHash(index, sibling, hash) ELSE NodeHash(index, hash, sibling),
                        family(pos0)[1], peaks_pos0)
verify(path, size, theRoot, data, pos0) == ProvenRoot(path, size, LeafHash(pos0, data), pos0, peaks(size)) = theRoot

\* Every parent whose children are still stored is their hash
validate_hashes(b) ==
    \A p \in {q \in 0..(b.size - 1) : ~ is_leaf(q)} :
        LET l == get_from_file(b, p - 2 ^ bintree_postorder_height(p))
            r == get_from_file(b, p - 1)
        IN  None \notin {get_hash(b, p), l, r} => get_hash(b, p) = NodeHash(p, l, r)

\* The last n leaves that are unspent, the latest first
RECURSIVE LastInsertions(_, _, _)
LastInsertions(b, n, last_leaf) ==
    LET leaf == bintree_rightmost(last_leaf - 1)
    IN  IF n = 0 \/ last_leaf = 0 THEN <<>>
        ELSE IF get_data(b, leaf) # None THEN <<get_data(b, leaf)>> \o LastInsertions(b, n - 1, leaf)
        ELSE LastInsertions(b, n, leaf)
get_last_n_insertions(b, n) == LastInsertions(b, n, b.size)

\* <<the last index looked at, data>>: at most max_count leaves from the 1-based index on
RECURSIVE ElementsFrom(_, _, _, _)
ElementsFrom(b, index, max_count, found) ==
    IF Len(found) = max_count \/ index >= b.size THEN <<index, found>>
    ELSE ElementsFrom(b, index + 1, max_count,
                      IF get_data(b, index) = None THEN found ELSE Append(found, get_data(b, index)))
elements_from_pmmr_index(b, index1, max_count) ==
    ElementsFrom(b, IF index1 = 0 THEN 0 ELSE index1 - 1, max_count, <<>>)

-----------------------------------------------------------------------------
(* Changing it *)

\* The hashes of a new leaf and of every parent it completes
RECURSIVE NewHashes(_, _, _, _)
NewHashes(b, hs, pos, peak) ==
    IF ~ Bit(peak_map_height(b.size)[1], peak) THEN hs
    ELSE NewHashes(b, Append(hs, NodeHash(pos + 1, get_peak_from_file(b, pos + 1 - 2 ^ (peak + 1)), Last(hs))),
                   pos + 1, peak + 1)

\* The leaf's position is computed from the length of the data file
append(b, data, hs) ==
    LET file == Append(b.data_file, data)
        pos == insertion_to_pmmr_index(Len(file) + get_total_leaf_shift(b.prune_list) - 1)
    IN  [b EXCEPT !.data_file = file, !.hash_file = @ \o hs, !.leaf_set = @ \union {pos}]
push(b, data) ==
    LET hs == NewHashes(b, <<LeafHash(b.size, data)>>, b.size, 0)
    IN  [append(b, data, hs) EXCEPT !.size = b.size + Len(hs)]

\* The rewound positions leave the leaf set, the ones spent since come back
backend_rewind(b, position, rm_pos) ==
    LET shift == IF position = 0 THEN 0 ELSE get_shift(b.prune_list, position - 1)
        leaf_shift == IF position = 0 THEN 0 ELSE get_leaf_shift(b.prune_list, position)
    IN  [b EXCEPT !.leaf_set = {p \in @ : p < position} \union rm_pos,
                  !.hash_file = SubSeq(@, 1, Upto(Len(@), position - shift)),
                  !.data_file = SubSeq(@, 1, Upto(Len(@), n_leaves(position) - leaf_shift))]
rewind(b, position, rm_pos) ==
    LET leaf_pos == round_up_to_leaf_pos(position)
    IN  [backend_rewind(b, leaf_pos, rm_pos) EXCEPT !.size = leaf_pos]

\* Whether the leaf could be pruned, and the backend without it
prune_ok(b, pos0) == is_leaf(pos0) /\ get_hash(b, pos0) # None
prune(b, pos0) == IF prune_ok(b, pos0) THEN [b EXCEPT !.leaf_set = @ \ {pos0}] ELSE b

\* A subtree of which only the root is known, and the parents it completes
RECURSIVE ParentsOfSubtree(_, _, _, _, _)
ParentsOfSubtree(b, map, peak, pos, hash) ==
    LET f == family(pos) IN
    IF ~ Bit(map, peak) THEN [b EXCEPT !.size = round_up_to_leaf_pos(pos)]
    ELSE IF f[2] > pos THEN ParentsOfSubtree(b, map, peak + 1, pos, hash)
    ELSE LET h == NodeHash(f[1], get_hash(b, f[2]), hash)
         IN  ParentsOfSubtree([b EXCEPT !.hash_file = Append(@, h)], map, peak + 1, f[1], h)
push_pruned_subtree(b, hash, pos0) ==
    LET b1 == [b EXCEPT !.hash_file = Append(@, hash), !.prune_list = PruneAppend(@, pos0)]
    IN  ParentsOfSubtree(b1, peak_map_height(pos0)[1], 0, pos0, hash)

-----------------------------------------------------------------------------
(* Compaction *)

unpruned_pre_cutoff(b, cutoff_pos) ==
    {p \in 0..(cutoff_pos - 1) : is_leaf(p) /\ ~ is_pruned(b.prune_list, p)}
\* Mutant: what was spent after the cutoff goes as well.
MutRemovedPreCutoff(b, cutoff_pos, rm_pos) == unpruned_pre_cutoff(b, cutoff_pos) \ b.leaf_set

\* The leaves that were spent as of the cutoff
removed_pre_cutoff(b, cutoff_pos, rm_pos) ==
    unpruned_pre_cutoff(b, cutoff_pos) \ ({p \in b.leaf_set : p < cutoff_pos} \union rm_pos)

\* Upwards from a leaf as long as the sibling is pruned, or goes as well
RECURSIVE ExpandUp(_, _, _)
ExpandUp(b, expanded, pos0) ==
    LET f == family(pos0)
        sibling_pruned == is_pruned_root(b.prune_list, f[2])
        e == expanded \union IF sibling_pruned THEN {f[2]} ELSE {}
    IN  IF f[2] \in e THEN ExpandUp(b, e \union {f[1]}, f[1]) ELSE e
RECURSIVE ExpandAll(_, _, _)
ExpandAll(b, expanded, leaves) ==
    IF leaves = <<>> THEN expanded
    ELSE ExpandAll(b, ExpandUp(b, expanded \union {Head(leaves)}, Head(leaves)), Tail(leaves))
\* The roots of what goes stay, for the proofs of what remains
removed_excl_roots(removed) == {p \in removed : family(p)[1] \in removed}
pos_to_rm(b, leaves_removed) == removed_excl_roots(ExpandAll(b, {}, Ascending(leaves_removed)))

Without(file, indices) == LET kept == Ascending(DOMAIN file \ indices)
                          IN  [i \in DOMAIN kept |-> file[kept[i]]]
check_compact(b, cutoff_pos, rm_pos) ==
    LET leaves_removed == removed_pre_cutoff(b, cutoff_pos, rm_pos)
        to_rm == pos_to_rm(b, leaves_removed)
        hashes == {1 + p - get_shift(b.prune_list, p) : p \in to_rm}
        datas == {n_leaves(1 + p) - get_leaf_shift(b.prune_list, 1 + p) : p \in {q \in to_rm : is_leaf(q)}}
    IN  [b EXCEPT !.hash_file = Without(@, hashes), !.data_file = Without(@, datas),
                  !.prune_list = NewPruneList(@.bitmap \union leaves_removed)]
=============================================================================
