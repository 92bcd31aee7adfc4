------------------------------ MODULE PmmrTree ------------------------------
(***************************************************************************)
(* The mountain range as a tree, against which PmmrIndex is checked: leaves *)
(* are added one by one, and two trees of the same height become the       *)
(* children of a new node.  A node is [height, left, leaf]: its height,    *)
(* its left child (the right one precedes it), and the number of the first *)
(* leaf under it.                                                          *)
(***************************************************************************)
EXTENDS PmmrIndex

CONSTANT MaxLeaves
VARIABLES nodes, roots      \* the nodes by position (from 1), the positions of the peaks

TreeInit == nodes = <<>> /\ roots = <<>>

Leaves == Cardinality({i \in DOMAIN nodes : nodes[i].height = 0})

RECURSIVE Joined(_, _)
Joined(ns, rs) ==
    LET k == Len(rs)
        merge == k >= 2 /\ ns[rs[k] + 1].height = ns[rs[k - 1] + 1].height
        parent == [height |-> ns[rs[k] + 1].height + 1, left |-> rs[k - 1],
                   leaf |-> ns[rs[k - 1] + 1].leaf]
    IN  IF merge THEN Joined(Append(ns, parent), Append(SubSeq(rs, 1, k - 2), Len(ns)))
        ELSE <<ns, rs>>

TreeNext ==
    /\ Leaves < MaxLeaves
    /\ \E j \in {Joined(Append(nodes, [height |-> 0, left |-> -1, leaf |-> Leaves]),
                        Append(roots, Len(nodes)))} :
          nodes' = j[1] /\ roots' = j[2]

TreeSpec == TreeInit /\ [][TreeNext]_<<nodes, roots>>

-----------------------------------------------------------------------------
Node(p) == nodes[p + 1]
Under(p) == {q \in 0..p : q >= Node(p).leaf /\ Node(q).leaf >= Node(p).leaf}
Parents(p) == {q \in 0..(Len(nodes) - 1) : Node(q).height > 0 /\ p \in {Node(q).left, q - 1}}
Sibling(p, q) == IF p = q - 1 THEN Node(q).left ELSE q - 1

RECURSIVE PathUp(_)
PathUp(p) == IF Parents(p) = {} THEN <<>>
             ELSE LET q == CHOOSE q \in Parents(p) : TRUE IN <<<<q, Sibling(p, q)>>>> \o PathUp(q)

\* What is computed from positions alone is what the tree says: heights, peaks,
\* numbers of leaves, families, paths and subtrees, for every position of every
\* mountain range, the ones at and around powers of two included.
IndexMatchesTree ==
    LET size == Len(nodes) IN
    /\ peaks(size) = roots
    /\ n_leaves(size) = Leaves
    /\ insertion_to_pmmr_index(Leaves) = size
    /\ \A p \in 0..(size - 1) :
          /\ bintree_postorder_height(p) = Node(p).height
          /\ pmmr_leaf_to_insertion_index(p) = IF Node(p).height = 0 THEN Node(p).leaf ELSE -1
          /\ bintree_range(p) = Under(p)
          /\ bintree_leaf_pos_iter(p) = {q \in Under(p) : Node(q).height = 0}
          /\ family_branch(p, size) = PathUp(p)
          /\ \A q \in Parents(p) : /\ family(p) = <<q, Sibling(p, q)>>
                                   /\ is_left_sibling(p) <=> Node(q).left = p
          /\ round_up_to_leaf_pos(p) = LET later == {q \in p..(size - 1) : Node(q).height = 0}
                                       IN  IF later = {} THEN size
                                           ELSE CHOOSE q \in later : \A r \in later : q <= r
=============================================================================
