----------------------------- MODULE MCStorage ------------------------------
(***************************************************************************)
(* What a node keeps on disk, on small instances: the files of the MMRs,   *)
(* the unspent outputs, the prunable PMMR and its segments, the indices,    *)
(* and the database they share.  A behaviour is one part, `part' says       *)
(* which; the variables of the others stay as they are.                    *)
(*                                                                         *)
(* "outputs": TxHashSet on a tree of blocks                                *)
(*                                                                         *)
(*    g -- a1 -- a2 -- a3                                                  *)
(*          \--- b2 -- b3 -- b4                                            *)
(*           \-- c2                                                        *)
(*                                                                         *)
(* a2 and b2 spend the same output ox of a1; b3 spends ow of b2, and       *)
(* creates ox again; b4 spends nothing.  c2 spends an output that is not   *)
(* on its chain.  A reorganisation from a3 to b3 undoes two blocks.        *)
(***************************************************************************)
EXTENDS HeaderMmr, Lmdb, StoreMigration

CONSTANTS g, a1, a2, a3, b2, b3, b4, c2, og, ox, oy, oz, ow,    \* blocks, outputs
          d1, c3,                                               \* headers
          coinbase, plain,                                      \* kernels
          th1, th2, th3,                                        \* threads
          Zero                                                  \* what a file grown by set_len holds

VARIABLES part,
          disk, bits, tdb, tbatch, text, phase, mode, goal, step, low, out, floor, tcrashes,
          data, sizes, fmem, smem, fstep, todo, view, synced, keep, fcrashes,
          blocks, nrd, base, top,
          nodes, roots,
          chain, pmmr, pmmr_disk, horizon, reorgs, compactions

outputVars == <<disk, bits, tdb, tbatch, text, phase, mode, goal, step, low, out, floor, tcrashes>>
fileVars == <<data, sizes, fmem, smem, fstep, todo, view, synced, keep, fcrashes>>
nrdVars == <<blocks, nrd, base, top>>
treeVars == <<nodes, roots>>
pmmrVars == <<chain, pmmr, pmmr_disk, horizon, reorgs, compactions>>
allVars == <<part, outputVars, fileVars, headerVars, nrdVars, lmdbVars, migrationVars, treeVars, pmmrVars>>

MCBlock == {g, a1, a2, a3, b2, b3, b4, c2}
MCCommit == {og, ox, oy, oz, ow}
MCPrev(b) == CASE b = a1 -> g [] b \in {a2, b2, c2} -> a1 [] b = a3 -> a2 [] b = b3 -> b2 [] b = b4 -> b3
MCHeight(b) == CASE b = g -> 0 [] b = a1 -> 1 [] b \in {a2, b2, c2} -> 2 [] b \in {a3, b3} -> 3 [] b = b4 -> 4
MCWork(b) == CASE b = g -> 0 [] b = a1 -> 1 [] b \in {b2, c2} -> 2 [] b = a2 -> 3 [] b = a3 -> 4
               [] b = b3 -> 5 [] b = b4 -> 6
MCOuts(b) == CASE b = g -> <<og>> [] b = a1 -> <<ox>> [] b = a2 -> <<oy>> [] b = a3 -> <<oz, ox>>
               [] b = b2 -> <<ow>> [] b = b3 -> <<oy, ox>> [] b \in {b4, c2} -> <<oz>>
MCIns(b) == CASE b \in {g, a1, a3, b4} -> {} [] b \in {a2, b2} -> {ox} [] b \in {b3, c2} -> {ow}

T == INSTANCE TxHashSet WITH db <- tdb, batch <- tbatch, ext <- text, crashes <- tcrashes,
        Block <- MCBlock, Genesis <- g, Prev <- MCPrev, Height <- MCHeight, Work <- MCWork,
        Commit <- MCCommit, Outs <- MCOuts, Ins <- MCIns, NBITS <- 2, MaxCrashes <- 2

\* Two kinds of elements, of three and four bytes: with few elements, files of the
\* same length have the same number of elements, as files of a few kernels do.
KernelSize(e) == IF e = coinbase THEN 3 ELSE 4
F == INSTANCE AppendOnlyFile WITH mem <- fmem, step <- fstep, crashes <- fcrashes,
        Elem <- {coinbase, plain}, Size <- KernelSize, MaxLen <- 4, MaxRewind <- 1

\* A chain of headers with two forks, one shorter and with more work
MCHeader == {g, a1, a2, a3, d1, b2, c3}
MCChainOf == [h \in MCHeader |->
    CASE h = g -> <<g>> [] h = a1 -> <<g, a1>> [] h = a2 -> <<g, a1, a2>> [] h = a3 -> <<g, a1, a2, a3>>
      [] h = d1 -> <<g, d1>> [] h = b2 -> <<g, d1, b2>> [] h = c3 -> <<g, a1, a2, c3>>]
MCHeaderWork(h) == CASE h = g -> 0 [] h = a1 -> 2 [] h = a2 -> 3 [] h = a3 -> 4
                     [] h = d1 -> 2 [] h = b2 -> 5 [] h = c3 -> 6

ASSUME StorageAssumption == F!SizeAssumption /\ T!NBITSAssumption

\* Two NRD kernels, with both relative heights and with one
Nrd(x, r) == [excess |-> x, relative_height |-> r]
N == INSTANCE NrdIndex WITH db <- nrd, Week <- 2, MaxHeight <- 6,
        BlockBody <- {<<>>, <<Nrd("x", 1)>>, <<Nrd("x", 2)>>, <<Nrd("y", 2), Nrd("x", 1)>>}

\* Three threads on a map that is nine tenths full from the first batch on
MCThread == {th1, th2, th3}
MCOp == {"block", "compact", "txhashset_write", "validate", "unspent", "save_peer"}

MCStores == <<"chain", "peers">>

I == INSTANCE PmmrTree WITH MaxLeaves <- 40

P == INSTANCE PmmrStore WITH mem <- pmmr, disk <- pmmr_disk, BlockOutputs <- {1, 2}, MaxSpends <- 2,
        MaxLeaves <- 5, MaxHeight <- 4, MaxReorgs <- 1, MaxCompactions <- 2, Heights <- {1, 2}

MCInit ==
    /\ part \in {"outputs", "file", "headers", "nrd", "lmdb", "migration", "tree", "pmmr"}
    /\ T!Init /\ F!Init /\ HeaderInit /\ N!Init /\ LmdbInit /\ MigrationInit /\ I!TreeInit /\ P!StoreInit
    \* one initial state is enough for the parts that do not change
    /\ part # "file" => view = <<coinbase>>
    /\ part # "migration" => \A s \in Ids : ~ old[s].exists

MCNext ==
    /\ part' = part
    /\ \/ /\ part = "outputs" /\ T!Next
          /\ UNCHANGED <<fileVars, headerVars, nrdVars, lmdbVars, migrationVars, treeVars, pmmrVars>>
       \/ /\ part = "file" /\ F!Next
          /\ UNCHANGED <<outputVars, headerVars, nrdVars, lmdbVars, migrationVars, treeVars, pmmrVars>>
       \/ /\ part = "headers" /\ HeaderNext
          /\ UNCHANGED <<outputVars, fileVars, nrdVars, lmdbVars, migrationVars, treeVars, pmmrVars>>
       \/ /\ part = "nrd" /\ N!Next
          /\ UNCHANGED <<outputVars, fileVars, headerVars, lmdbVars, migrationVars, treeVars, pmmrVars>>
       \/ /\ part = "lmdb" /\ LmdbNext
          /\ UNCHANGED <<outputVars, fileVars, headerVars, nrdVars, migrationVars, treeVars, pmmrVars>>
       \/ /\ part = "migration" /\ MigrationNext
          /\ UNCHANGED <<outputVars, fileVars, headerVars, nrdVars, lmdbVars, treeVars, pmmrVars>>
       \/ /\ part = "tree" /\ I!TreeNext
          /\ UNCHANGED <<outputVars, fileVars, headerVars, nrdVars, lmdbVars, migrationVars, pmmrVars>>
       \/ /\ part = "pmmr" /\ P!StoreNext
          /\ UNCHANGED <<outputVars, fileVars, headerVars, nrdVars, lmdbVars, migrationVars, treeVars>>

\* Threads that are not stopped go on
MCSpec == /\ MCInit /\ [][MCNext]_allVars
          /\ WF_outputVars(part = "outputs" /\ T!Step)
          /\ WF_lmdbVars(part = "lmdb" /\ resizer_thread)
          /\ \A t \in MCThread : WF_lmdbVars(part = "lmdb" /\ OpStep(t))

-----------------------------------------------------------------------------
\* The header MMR, the LMDB environment and the migration are checked by their own
\* HeaderFilesRecover, ResizeSafe and MigrationKeepsRecords, which hold
\* of the initial states they keep in the behaviours of the other parts.



\* Navigation by position agrees with the tree; the pruned PMMR reads as an unpruned
\* one; segments of an archived state validate and rebuild it
\* (PmmrTree!IndexMatchesTree, PmmrStore!ReadsAsUnpruned, PmmrStore!SegmentsRebuild).
PmmrIsTree == /\ part = "tree" => I!IndexMatchesTree
              /\ part = "pmmr" => P!ReadsAsUnpruned /\ P!SegmentsRebuild

\* The NRD index is the chain's, and no block breaks the NRD rule
\* (NrdIndex!IndexIsChain, NrdIndex!NrdRule).
NrdIndexExact == part = "nrd" => N!IndexIsChain /\ N!NrdRule

\* A node that stopped at any point of a write gets through its repair
\* (TxHashSet!StartSucceeds), and operations of the store do not wait for each other
\* for ever (Lmdb!StoreProgress).
StorageProgress ==
    []<>CASE part = "outputs" -> phase = "idle" \/ ~ T!FirstKernelOk
          [] part = "lmdb" -> Idle
          [] OTHER -> TRUE
=============================================================================
