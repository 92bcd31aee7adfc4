----------------------------- MODULE PmmrIndex ------------------------------
(***************************************************************************)
(* Navigation in a Merkle mountain range (core/src/core/pmmr/pmmr.rs): the *)
(* functions that find heights, peaks, families and subtrees from a        *)
(* position alone.  Positions count nodes in postorder from 0; a peak map  *)
(* is the number whose bits are the heights of the peaks.                  *)
(***************************************************************************)
EXTENDS Integers, Sequences, FiniteSets, SequencesExt

Bit(n, h) == (n \div 2 ^ h) % 2 = 1

\* ALL_ONES >> size.leading_zeros(): the least 2^k - 1 not below size
AllOnes(size) == 2 ^ (CHOOSE k \in 0..size : 2 ^ k > size /\ \A j \in 0..(k - 1) : 2 ^ j <= size) - 1

\* <<peak map, height of the next node>> of an MMR of the size
RECURSIVE PeakLoop(_, _, _)
PeakLoop(size, peak_size, map) ==
    CASE peak_size = 0 -> <<map, size>>
      [] peak_size > 0 /\ size >= peak_size -> PeakLoop(size - peak_size, peak_size \div 2, 2 * map + 1)
      [] OTHER -> PeakLoop(size, peak_size \div 2, 2 * map)
peak_map_height(size) == IF size = 0 THEN <<0, 0>> ELSE PeakLoop(size, AllOnes(size), 0)

RECURSIVE SizesLoop(_, _, _)
SizesLoop(size, peak_size, sizes) ==
    CASE peak_size = 0 -> <<sizes, size>>
      [] peak_size > 0 /\ size >= peak_size ->
            SizesLoop(size - peak_size, peak_size \div 2, Append(sizes, peak_size))
      [] OTHER -> SizesLoop(size, peak_size \div 2, sizes)
peak_sizes_height(size) == IF size = 0 THEN <<<<>>, 0>> ELSE SizesLoop(size, AllOnes(size), <<>>)

\* Running sums of the sizes of the peaks; nothing when the next node is no leaf
RECURSIVE Scan(_, _)
Scan(sizes, acc) ==
    IF sizes = <<>> THEN <<>> ELSE <<acc + Head(sizes) - 1>> \o Scan(Tail(sizes), acc + Head(sizes))
peaks(size) == LET p == peak_sizes_height(size) IN IF p[2] = 0 THEN Scan(p[1], 0) ELSE <<>>

n_leaves(size) == LET p == peak_map_height(size) IN IF p[2] = 0 THEN p[1] ELSE p[1] + 1

RECURSIVE CountOnes(_)
CountOnes(n) == IF n = 0 THEN 0 ELSE (n % 2) + CountOnes(n \div 2)
insertion_to_pmmr_index(nleaf0) == 2 * nleaf0 - CountOnes(nleaf0)

round_up_to_leaf_pos(pos0) == insertion_to_pmmr_index(n_leaves(pos0))

bintree_postorder_height(pos0) == peak_map_height(pos0)[2]
is_leaf(pos0) == bintree_postorder_height(pos0) = 0

\* The leaf's number, -1 for a position that is none
pmmr_leaf_to_insertion_index(pos0) ==
    LET p == peak_map_height(pos0) IN IF p[2] = 0 THEN p[1] ELSE -1

\* Right siblings have a peak of their height before them
is_left_sibling(pos0) == LET p == peak_map_height(pos0) IN ~ Bit(p[1], p[2])

\* <<parent, sibling>>
family(pos0) ==
    LET peak == 2 ^ bintree_postorder_height(pos0)
    IN  IF is_left_sibling(pos0) THEN <<pos0 + 2 * peak, pos0 + 2 * peak - 1>>
        ELSE <<pos0 + 1, pos0 + 1 - 2 * peak>>

\* <<parent, sibling>> of every node from pos0 up to the peak
RECURSIVE Branch(_, _, _, _)
Branch(current, map, peak, size) ==
    IF current + 1 >= size THEN <<>>
    ELSE LET right == (map \div peak) % 2 = 1
             parent == IF right THEN current + 1 ELSE current + 2 * peak
             sibling == IF right THEN parent - 2 * peak ELSE parent - 1
         IN  IF parent >= size THEN <<>>
             ELSE <<<<parent, sibling>>>> \o Branch(parent, map, 2 * peak, size)
family_branch(pos0, size) ==
    LET p == peak_map_height(pos0) IN Branch(pos0, p[1], 2 ^ p[2], size)

bintree_rightmost(pos0) == pos0 - bintree_postorder_height(pos0)
bintree_leftmost(pos0) == pos0 + 2 - 2 ^ (bintree_postorder_height(pos0) + 1)
bintree_range(pos0) == bintree_leftmost(pos0)..pos0

bintree_leaf_pos_iter(pos0) ==
    {insertion_to_pmmr_index(i) : i \in pmmr_leaf_to_insertion_index(bintree_leftmost(pos0))..
                                        pmmr_leaf_to_insertion_index(bintree_rightmost(pos0))}
=============================================================================
