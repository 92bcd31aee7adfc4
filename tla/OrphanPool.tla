----------------------------- MODULE OrphanPool -----------------------------
(***************************************************************************)
(* OrphanBlockPool (chain/src/chain.rs): a map of orphans by hash and an   *)
(* index of their hashes by height.  add and remove_by_height hold both    *)
(* write locks throughout, so each is one step.  A block that is delivered *)
(* again while it waits is added again: its hash is then in the index      *)
(* twice.  A hash whose orphan was evicted for its age stays in the index  *)
(* as long as its height has another orphan.                               *)
(***************************************************************************)
EXTENDS Integers, Sequences, FiniteSets

CONSTANTS
    Block,
    Height(_),
    MaxOrphans,
    MaxIndex      \* bound of the runs on the length of an index entry

ASSUME HeightAssumption == \A b \in Block : Height(b) \in Nat
ASSUME SizeAssumption == MaxOrphans \in Nat \ {0} /\ MaxIndex \in Nat

VARIABLES
    orphans,      \* the hashes in the map
    height_idx    \* height_idx[h]: the hashes pushed for h, <<>> if h has no entry

vars == <<orphans, height_idx>>

Heights == {Height(b) : b \in Block}

Init ==
    /\ orphans = {}
    /\ height_idx = [h \in Heights |-> <<>>]

Hashes(idx, h) == {idx[h][i] : i \in 1..Len(idx[h])}
Keys(idx) == {h \in Heights : idx[h] # <<>>}

\* The orphans left when the index entries from height h up are removed from
\* the map m.
LeftBelow(m, idx, h) == m \ UNION {Hashes(idx, n) : n \in {k \in Heights : k >= h}}

\* The loop over the heights, highest first, ends with c.
LoopEndsAt(m, idx, c) ==
    /\ c \in Keys(idx)
    /\ Cardinality(LeftBelow(m, idx, c)) < MaxOrphans
    /\ \A h \in Keys(idx) : h > c => Cardinality(LeftBelow(m, idx, h)) >= MaxOrphans

\* Mutants: the index keeps only the heights that lost no orphan, or every height
\* below c.
MutCleanup(idx, m, c) ==
    [h \in Heights |-> IF h < c /\ Hashes(idx, h) \subseteq m THEN idx[h] ELSE <<>>]

\* height_idx.retain at the end of add: entries with no orphan left are dropped.
Cleanup(idx, m, c) ==
    [h \in Heights |-> IF h < c /\ Hashes(idx, h) \cap m # {} THEN idx[h] ELSE <<>>]

add(b) ==
    LET idx == [height_idx EXCEPT ![Height(b)] = Append(@, b)]
        all == orphans \cup {b}
    IN  /\ Len(height_idx[Height(b)]) < MaxIndex
        /\ IF Cardinality(all) <= MaxOrphans
           THEN orphans' = all /\ height_idx' = idx
           ELSE \E old \in SUBSET (all \ {b}), c \in Keys(idx) :
                    /\ LoopEndsAt(all \ old, idx, c)
                    /\ orphans' = LeftBelow(all \ old, idx, c)
                    /\ height_idx' = Cleanup(idx, orphans', c)

\* Mutant: the entries above h go with that of h.
MutRemoveByHeight(h) ==
    /\ orphans' = LeftBelow(orphans, height_idx, h)
    /\ height_idx' = [n \in Heights |-> IF n < h THEN height_idx[n] ELSE <<>>]

remove_by_height(h) ==
    /\ orphans' = orphans \ Hashes(height_idx, h)
    /\ height_idx' = [height_idx EXCEPT ![h] = <<>>]

Next ==
    \/ \E b \in Block : add(b)
    \/ \E h \in Heights : remove_by_height(h)

Spec == Init /\ [][Next]_vars

-----------------------------------------------------------------------------
(* Properties. *)

\* Types of the map and of its index.
TypeOK ==
    /\ orphans \subseteq Block
    /\ height_idx \in [Heights -> Seq(Block)]

\* A hash is only indexed under its own height, so eviction and
\* remove_by_height never touch an orphan of another height.
IndexByHeight ==
    \A h \in Heights : \A b \in Hashes(height_idx, h) : Height(b) = h

\* Every orphan can be found by its height: an orphan that is in the map and not
\* in the index would never be taken out by check_orphans.
IndexComplete == \A b \in orphans : b \in Hashes(height_idx, Height(b))

\* The index has no entry that leads to no orphan: whatever was evicted for age
\* or for height, dead entries do not pile up.
NoDeadHeight ==
    \A h \in Keys(height_idx) : Hashes(height_idx, h) \cap orphans # {}

\* The height index is complete and has no entry without an orphan.
IndexExact == IndexComplete /\ NoDeadHeight

Abstract == INSTANCE OrphanSet WITH pool <- orphans, Size <- Cardinality

\* The map with its index behaves like the set of orphans Chain relies on.
ImplementsOrphanSet == Abstract!PoolSpec
=============================================================================
