----------------------------- MODULE OrphanSet -----------------------------
(***************************************************************************)
(* What OrphanBlockPool (chain/src/chain.rs) promises to Chain: a bounded  *)
(* set of blocks from which all blocks of a height can be taken.           *)
(***************************************************************************)
EXTENDS Integers

CONSTANTS
    Block,
    Height(_),
    Size(_),     \* number of elements of a finite set
    MaxOrphans   \* MAX_ORPHAN_SIZE

VARIABLE pool

PoolInit == pool = {}

OrphanHeights(S) == {Height(o) : o \in S}

\* Beyond MaxOrphans the orphans in "old" are evicted, then whole heights from
\* the top until fewer than MaxOrphans are left.  c is the lowest height removed.
Evicted(S, old, c) ==
    LET kept(h) == {o \in S \ old : Height(o) < h}
    IN  /\ c \in OrphanHeights(S)
        /\ Size(kept(c)) < MaxOrphans
        /\ \A h \in OrphanHeights(S) : h > c => Size(kept(h)) >= MaxOrphans

AddOrphan(b) ==
    LET S == pool \cup {b}
    IN  IF Size(S) <= MaxOrphans THEN pool' = S
        ELSE \E old \in SUBSET (S \ {b}), c \in OrphanHeights(S) :
                /\ Evicted(S, old, c)
                /\ pool' = {o \in S \ old : Height(o) < c}

AtHeight(h) == {o \in pool : Height(o) = h}

TakeHeight(h) == pool' = pool \ AtHeight(h)

PoolNext ==
    \/ \E b \in Block : AddOrphan(b)
    \/ \E h \in OrphanHeights(Block) : TakeHeight(h)

PoolSpec == PoolInit /\ [][PoolNext]_pool
=============================================================================
