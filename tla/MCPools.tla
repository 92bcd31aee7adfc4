------------------------------ MODULE MCPools -------------------------------
(***************************************************************************)
(* The pools of a node and what fills them: the orphan pool, the           *)
(* transaction pool, the propagation of blocks and transactions between    *)
(* nodes, and the stratum server that mines on the head.  A behaviour is   *)
(* one of them, `part' says which.                                         *)
(***************************************************************************)
EXTENDS OrphanPool, Stratum

CONSTANTS o1, o2, o3, o4, o5,                              \* orphans
          ta, tb, tc, td, te, g, a1, a2, f1, f2,      \* transactions and blocks
          n1, n2, n3,                                 \* nodes
          w1                                          \* a mining worker

VARIABLES part,
          tip, calls, txpool, stempool, reorg_cache, sent,
          chan, recv, heads, headers, waiting, txpools, stempools, epoch,
          content, pushed, spoilt, epochs

poolVars == <<tip, calls, txpool, stempool, reorg_cache, sent>>
relayVars == <<chan, recv, heads, headers, waiting, txpools, stempools, epoch,
               content, pushed, spoilt, epochs>>
allVars == <<part, vars, poolVars, relayVars, stratumVars>>

\* Five orphans on three heights, two of them shared by two blocks
MCOrphans == {o1, o2, o3, o4, o5}
MCHeight(b) == CASE b \in {o1, o2} -> 4 [] b \in {o3, o4} -> 5 [] OTHER -> 6

\* tb and te spend outputs of ta, tc the input of ta; td is independent and
\* locked up to height 2, and te pays too little; tb lowers the fee rate of ta
MCTx == {ta, tb, tc, td, te}
MCIns(t) == CASE t = ta -> {1} [] t = tb -> {3} [] t = tc -> {1} [] t = td -> {2} [] t = te -> {4}
MCOuts(t) == CASE t = ta -> {3, 4} [] t = tb -> {5} [] t = tc -> {7} [] t = td -> {6} [] t = te -> {8}
MCMinHeight(t) == IF t = td THEN 2 ELSE 1
MCFee(t) == CASE t = ta -> 460 [] t = tb -> 25 [] t = tc -> 100 [] t = td -> 75 [] t = te -> 10
MCSubmit == {{ta}, {tb}, {tc}, {td}, {te}, {ta, tb}, {ta, td}}

\* A chain of two blocks and a heavier fork
MCParent(x) == CASE x = a1 -> g [] x = a2 -> a1 [] x = f1 -> g [] x = f2 -> f1
MCWork(x) == CASE x = g -> 0 [] x = a1 -> 1 [] x = a2 -> 2 [] x = f1 -> 3 [] x = f2 -> 4
MCTxsOf(x) == CASE x = a1 -> {ta} [] x = a2 -> {tb} [] x = f1 -> {} [] x = f2 -> {tc}

T == INSTANCE TransactionPool WITH head <- tip, accepted <- calls, submits <- sent,
        Tx <- MCTx, Ins <- MCIns, Outs <- MCOuts, Fee <- MCFee,
        MinHeight <- MCMinHeight, GenesisUtxo <- {1, 2}, Genesis <- g,
        Block <- {g, a1, a2, f1, f2}, Parent <- MCParent, Work <- MCWork, TxsOf <- MCTxsOf,
        Submit <- MCSubmit, AcceptFeeBase <- 1, MaxKernels <- 3, MaxPoolSize <- 2,
        MaxStempoolSize <- 5, MaxSubmits <- 3

Both(pairs) == pairs \union {<<x[2], x[1]>> : x \in pairs}
AllPairs == {<<n1, n2>>, <<n2, n3>>, <<n1, n3>>}

\* Three nodes in a line, the first and the last of them mine, in the first
\* Dandelion epoch
L == INSTANCE Relay WITH head <- heads, header <- headers, orphans <- waiting,
        txpool <- txpools, stempool <- stempools, Node <- {n1, n2, n3},
        Link <- Both({<<n1, n2>>, <<n2, n3>>}), Dialled <- AllPairs, Syncing <- {},
        Miner <- {n1, n3}, Wallet <- {n1}, NoKernelHash <- {}, Tx <- {1}, MaxBlocks <- 2,
        MaxSpoilt <- 1, MaxEpochs <- 0

\* Three nodes linked to each other, one syncing and one of an old version; a
\* node may go on to another epoch
R == INSTANCE Relay WITH head <- heads, header <- headers, orphans <- waiting,
        txpool <- txpools, stempool <- stempools, Node <- {n1, n2, n3},
        Link <- Both(AllPairs), Dialled <- AllPairs, Syncing <- {n3},
        Miner <- {n1}, Wallet <- {n1}, NoKernelHash <- {n2}, Tx <- {1}, MaxBlocks <- 1,
        MaxSpoilt <- 1, MaxEpochs <- 1

\* One worker of the stratum server; a block of another miner, a rebuild at a
\* deadline and two full solutions (Workers, Fees, MaxBlocks, MaxBuilds and
\* MaxSubmits)
MCWorkers == {w1}

MCInit == /\ part \in {"orphans", "pool", "line", "ring", "miner"}
          /\ Init /\ T!Init /\ L!Init /\ StratumInit

MCNext == /\ part' = part
          /\ \/ part = "orphans" /\ Next /\ UNCHANGED <<poolVars, relayVars, stratumVars>>
             \/ part = "pool" /\ T!Next /\ UNCHANGED <<vars, relayVars, stratumVars>>
             \/ part = "line" /\ L!Next /\ UNCHANGED <<vars, poolVars, stratumVars>>
             \/ part = "ring" /\ R!Next /\ UNCHANGED <<vars, poolVars, stratumVars>>
             \/ part = "miner" /\ StratumNext /\ UNCHANGED <<vars, poolVars, relayVars>>

\* The reader threads and the Dandelion monitor of the nodes go on, and so do
\* the main loop of the stratum server and the handler of a share
MCSpec == /\ MCInit /\ [][MCNext]_allVars
          /\ WF_relayVars(part = "line" /\ L!Work)
          /\ WF_relayVars(part = "ring" /\ R!Work)
          /\ WF_stratumVars(part = "miner" /\ Loop)
          /\ WF_stratumVars(part = "miner" /\ Handler(w1))

-----------------------------------------------------------------------------

\* Reconciliation with a new head drops only what is not valid any more, and
\* after a reorganisation the pool has what the reorg cache had and is still
\* valid (TransactionPool!OnlyInvalidDropped, TransactionPool!ReorgCacheRestored).
ReconcileExact == T!OnlyInvalidDropped /\ T!ReorgCacheRestored

\* What a node takes a peer to have the peer has (Relay!SuppressedHas).
SuppressedHas == (part = "line" => L!SuppressedHas) /\ (part = "ring" => R!SuppressedHas)

\* In the end everything has reached everybody (Relay!RelayReaches).
RelayReaches == <>[]((part = "line" => L!Settled) /\ (part = "ring" => R!Settled))

\* The stratum server is checked by its own WorkCounts and JobsFollowHead; they
\* hold of its initial state, which is its state in the other behaviours.
=============================================================================
