----------------------------- MODULE PmmrStore ------------------------------
(***************************************************************************)
(* The output PMMR as the chain uses it: blocks append outputs and spend    *)
(* earlier ones, forks rewind it block by block, an extension that fails    *)
(* is discarded, compaction removes what was spent before the horizon, the  *)
(* node restarts, and segments of an archived state are served and applied. *)
(* The kernel and rangeproof PMMRs run the same code.                      *)
(***************************************************************************)
EXTENDS Segment

CONSTANTS BlockOutputs,     \* numbers of outputs of a block
          MaxSpends,        \* outputs a block may spend
          MaxLeaves, MaxHeight, MaxReorgs, MaxCompactions,
          Heights           \* heights of the segments that are served
VARIABLES chain,            \* blocks applied: [size, spent, salt]; spent are positions
          mem,              \* the backend
          disk,             \* what was last synced: the backend with the pruned roots only
          horizon,          \* height of the last compaction's horizon, 0 at first
          reorgs, compactions
storeVars == <<chain, mem, disk, horizon, reorgs, compactions>>

SizeAt(h) == IF h = 0 THEN 0 ELSE chain[h].size
SpentSince(h) == UNION {chain[i].spent : i \in (h + 1)..Len(chain)}
LeafPos(size) == {p \in 0..(size - 1) : is_leaf(p)}
\* An output is named by its leaf number and by the branch its block is on
DataAt(p) == LET h == CHOOSE h \in 1..Len(chain) : SizeAt(h - 1) <= p /\ p < SizeAt(h)
             IN  <<pmmr_leaf_to_insertion_index(p), chain[h].salt>>
UnspentAt(h) == LeafPos(SizeAt(h)) \ UNION {chain[i].spent : i \in 1..h}

Synced(b) == [b EXCEPT !.prune_list = @.bitmap]
Reopened(d) == [d EXCEPT !.prune_list = OpenPruneList(@)]
Discarded(d) == [d EXCEPT !.prune_list = NewPruneList(@)]

EmptyBackend == [hash_file |-> <<>>, data_file |-> <<>>, leaf_set |-> {},
                 prune_list |-> EmptyPruneList, size |-> 0]
StoreInit ==
    /\ mem = push(EmptyBackend, <<0, 1>>)
    /\ disk = Synced(mem)
    /\ chain = <<[size |-> 1, spent |-> {}, salt |-> 1]>>
    /\ horizon = 1 /\ reorgs = 0 /\ compactions = 0

\* rewind_single_block, from the head down to the fork
RECURSIVE RewindTo(_, _, _)
RewindTo(b, h, fork) ==
    IF h = fork THEN b ELSE RewindTo(rewind(b, SizeAt(h - 1), chain[h].spent), h - 1, fork)

RECURSIVE PushAll(_, _, _)
PushAll(b, n, salt) ==
    IF n = 0 THEN b ELSE PushAll(push(b, <<n_leaves(b.size), salt>>), n - 1, salt)
RECURSIVE PruneAll(_, _)
PruneAll(b, S) == IF S = {} THEN b ELSE PruneAll(prune(b, Min(S)), S \ {Min(S)})

\* The outputs are pushed before the inputs are pruned
apply_block(b, n, spends, salt) == PruneAll(PushAll(b, n, salt), spends)

\* The block is on top of the head or of a fork; the extension of one that fails, or has
\* less work than the head, is rolled back, whatever it did
process_block ==
    /\ \/ \E fork \in horizon..Len(chain), n \in BlockOutputs :
            \E spends \in {S \in SUBSET UnspentAt(fork) : Cardinality(S) <= MaxSpends} :
              /\ fork < Len(chain) => reorgs < MaxReorgs
              /\ fork < MaxHeight /\ n_leaves(SizeAt(fork)) + n <= MaxLeaves
              /\ \E salt \in {IF fork = Len(chain) THEN 1 ELSE 3 - chain[fork + 1].salt} :
                   \E b \in {apply_block(RewindTo(mem, Len(chain), fork), n, spends, salt)} :
                      /\ mem' = b /\ disk' = Synced(b)
                      /\ chain' = Append(SubSeq(chain, 1, fork), [size |-> b.size, spent |-> spends, salt |-> salt])
              /\ reorgs' = reorgs + (IF fork < Len(chain) THEN 1 ELSE 0)
       \/ /\ mem' = Discarded(disk)
          /\ UNCHANGED <<disk, chain, reorgs>>
    /\ UNCHANGED <<horizon, compactions>>

compact ==
    \E h \in (horizon + 1)..Len(chain) :
      /\ compactions < MaxCompactions
      /\ \E b \in {check_compact(mem, SizeAt(h), SpentSince(h))} : mem' = b /\ disk' = Synced(b)
      /\ horizon' = h /\ compactions' = compactions + 1
      /\ UNCHANGED <<chain, reorgs>>

restart ==
    /\ mem' = Reopened(disk)
    /\ UNCHANGED <<chain, disk, horizon, reorgs, compactions>>

StoreNext == process_block \/ compact \/ restart
StoreSpec == StoreInit /\ [][StoreNext]_storeVars

-----------------------------------------------------------------------------
(* The range nothing was ever pruned from *)

RECURSIVE RefHash(_)
RefHash(p) == LET h == bintree_postorder_height(p)
              IN  IF h = 0 THEN LeafHash(p, DataAt(p)) ELSE NodeHash(p, RefHash(p - 2 ^ h), RefHash(p - 1))
RefRoot(size) == Bag([i \in DOMAIN peaks(size) |-> RefHash(peaks(size)[i])], size)

\* The unspent outputs as a client gets them, page by page
RECURSIVE PagesFrom(_, _)
PagesFrom(index1, max_count) ==
    LET page == elements_from_pmmr_index(mem, index1, max_count)
    IN  page[2] \o IF page[1] >= mem.size THEN <<>> ELSE PagesFrom(page[1] + 1, max_count)

\* However often the PMMR was rewound, rolled back, compacted and reopened, it
\* reads as one that nothing was pruned from: its size and root are those of the
\* outputs of the chain, an output is there exactly when it is unspent, a stored
\* hash is the right one, what was spent after the horizon can still be read back,
\* every unspent output has a Merkle proof that verifies, and the unspent outputs
\* are listed once each, from the last one down and page by page.
ReadsAsUnpruned ==
    \A size \in {SizeAt(Len(chain))}, unspent \in {UnspentAt(Len(chain))} :
    \A expected \in {RefRoot(size)}, listed \in {[i \in DOMAIN Ascending(unspent) |-> DataAt(Ascending(unspent)[i])]} :
        /\ mem.size = size /\ unpruned_size(mem) = size
        /\ root(mem, size) = expected
        /\ \A p \in LeafPos(size) :
              /\ get_data(mem, p) = IF p \in unspent THEN DataAt(p) ELSE None
              /\ get_hash(mem, p) = IF p \in unspent THEN RefHash(p) ELSE None
              /\ p \in SpentSince(horizon) => get_data_from_file(mem, p) = DataAt(p)
        /\ \A p \in 0..(size - 1) : get_from_file(mem, p) \in {None, RefHash(p)}
        /\ \A p \in unspent : verify(merkle_proof(mem, size, p), size, expected, DataAt(p), p)
        /\ validate_hashes(mem)
        /\ get_last_n_insertions(mem, Len(listed)) = Reverse(listed)
        /\ PagesFrom(1, 2) = listed

\* A node that starts from its own genesis and applies segments in order
Rebuilt(segs, bitmap) ==
    LET Applied[i \in 0..Len(segs)] ==
            IF i = 0 THEN push(EmptyBackend, DataAt(0)) ELSE apply_output_segment(Applied[i - 1], segs[i], bitmap)
    IN  update_leaf_sets(Applied[Len(segs)], bitmap)

\* A state between the horizon and the head can be served in segments whatever was
\* spent or compacted since: each validates against the header's root and the
\* bitmap of the unspent outputs, and a node that starts from its own genesis and
\* applies them in order has the same root and the same unspent outputs.
SegmentsRebuild ==
    \A archive \in horizon..Len(chain), height \in Heights :
    \A size \in {SizeAt(archive)}, unspent \in {UnspentAt(archive)} :
    \A bitmap \in {{pmmr_leaf_to_insertion_index(p) : p \in unspent}}, expected \in {RefRoot(size)} :
    \A segs \in {[i \in 1..count_segments_required(size, height) |->
                      from_pmmr([height |-> height, idx |-> i - 1], mem, size)]} :
    \A built \in {Rebuilt(segs, bitmap)} :
        /\ \A i \in DOMAIN segs : exists(segs[i]) /\ validate(segs[i], size, bitmap, expected)
        /\ built.size = size
        /\ root(built, size) = expected
        /\ built.leaf_set = unspent
        /\ \A p \in unspent : get_data(built, p) = DataAt(p)
=============================================================================
