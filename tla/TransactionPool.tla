-------------------------- MODULE TransactionPool ---------------------------
(***************************************************************************)
(* The transaction pool (pool/src/pool.rs, pool/src/transaction_pool.rs),  *)
(* the Dandelion monitor (servers/src/grin/dandelion_monitor.rs) and what  *)
(* the chain tells the pool (ChainToPoolAndNetAdapter::block_accepted in   *)
(* servers/src/common/adapters.rs).                                        *)
(*                                                                         *)
(* Tx are transactions with one kernel; a pool entry is the set of those   *)
(* aggregated in it.  The chain moves on its own, and tells the pool later *)
(* and in any order; each call of the pool holds its write lock.           *)
(***************************************************************************)
EXTENDS Integers, SequencesExt, FiniteSetsExt, TLC

CONSTANTS
    Tx,
    Ins(_), Outs(_), Fee(_),
    MinHeight(_),       \* the first height a block may have this transaction at:
                        \* its lock height, the maturity of the coinbase it spends
    Submit,             \* the transactions that peers and wallets send: sets of Tx
    AcceptFeeBase,
    MaxKernels,         \* the limit of a transaction's weight, here in kernels
    MaxPoolSize,        \* config.max_pool_size
    MaxStempoolSize,    \* config.max_stempool_size
    Block, Genesis, Parent(_), Work(_), TxsOf(_),
    GenesisUtxo,
    MaxSubmits          \* bound of the runs on the number of transactions received

VARIABLES
    head,               \* the head of the chain
    accepted,           \* block_accepted calls that wait for the pool:
                        \* [block, reorg, step]
    txpool,             \* sequences of entries
    stempool,
    reorg_cache,
    submits

vars == <<head, accepted, txpool, stempool, reorg_cache, submits>>
pools == <<txpool, stempool, reorg_cache>>
-----------------------------------------------------------------------------
\* Aggregation and validation.  Spends and creations are counted before cut-through.

Txs(s) == UNION Range(s)
Spenders(S, o) == Cardinality({t \in S : o \in Ins(t)})
Creators(S, o) == Cardinality({t \in S : o \in Outs(t)})
Commits(S) == UNION {Ins(t) \cup Outs(t) : t \in S}
Inputs(S) == {o \in Commits(S) : Spenders(S, o) > Creators(S, o)}
Outputs(S) == {o \in Commits(S) : Creators(S, o) > Spenders(S, o)}

\* aggregate and validate: kernels are unique, and so are inputs and outputs that
\* are left.
Disjoint(s) == \A i, j \in 1..Len(s) : i # j => s[i] \cap s[j] = {}

Aggregates(s) ==
    /\ Txs(s) # {}
    /\ Disjoint(s)
    /\ \A o \in Commits(Txs(s)) : Spenders(Txs(s), o) - Creators(Txs(s), o) \in {-1, 0, 1}

Utxo[b \in Block] ==
    IF b = Genesis THEN GenesisUtxo
    ELSE (Utxo[Parent(b)] \ Inputs(TxsOf(b))) \cup Outputs(TxsOf(b))
OnChain[b \in Block] == IF b = Genesis THEN {b} ELSE OnChain[Parent(b)] \cup {b}
HeightOf[b \in Block] == IF b = Genesis THEN 0 ELSE HeightOf[Parent(b)] + 1

\* validate_raw_tx: the aggregate against the chain as it is now
validate_raw_tx(s) ==
    /\ Aggregates(s)
    /\ Inputs(Txs(s)) \subseteq Utxo[head]
    /\ Outputs(Txs(s)) \cap Utxo[head] = {}

weight(S) == Cardinality(Inputs(S)) + 21 * Cardinality(Outputs(S)) + 3 * Cardinality(S)
fee(S) == MapThenSumSet(Fee, S)
fee_rate(S) == fee(S) \div weight(S)

\* Pool::add_to_pool, with extra as the transactions of the other pool
CanAdd(pool, e, extra) == e \notin Range(pool) /\ validate_raw_tx(extra \o pool \o <<e>>)

\* Pool::reconcile and validate_raw_txs: what can be added one after the other
reconcile(pool, extra) ==
    FoldLeft(LAMBDA kept, e : IF CanAdd(kept, e, extra) THEN Append(kept, e) ELSE kept, <<>>, pool)

contains_tx(pool, e) == e \in Range(pool)
-----------------------------------------------------------------------------
\* bucket_transactions

aggregate_with_tx(bucket, e) ==
    [bucket EXCEPT !.txs = Append(@, e), !.fee_rate = fee_rate(Txs(bucket.txs) \cup e)]

BucketEntry(acc, e) ==
    LET ins == Inputs(e)
        parents == {o \in ins : o \in DOMAIN acc.output_commits}
        single == [fee_rate |-> fee_rate(e), txs |-> <<e>>, age |-> Len(acc.buckets)]
        pos == acc.output_commits[CHOOSE o \in parents : TRUE]
        bucket == acc.buckets[pos]
        merged == aggregate_with_tx(bucket, e)
        Rejected == [acc EXCEPT !.rejected = @ \cup Outputs(e)]
        Placed(buckets, at) ==
            [acc EXCEPT !.buckets = buckets,
                        !.output_commits = [o \in Outputs(e) |-> at] @@ @]
    IN  CASE ins \cap acc.rejected # {} \/ Cardinality(parents) > 1 -> Rejected
          [] parents = {} -> Placed(Append(acc.buckets, single), Len(acc.buckets) + 1)
          [] ~Aggregates(merged.txs) -> Rejected
          [] merged.fee_rate >= bucket.fee_rate -> Placed([acc.buckets EXCEPT ![pos] = merged], pos)
          [] OTHER -> Placed(Append(acc.buckets, single), pos)

Buckets(pool) ==
    FoldLeft(BucketEntry, [buckets |-> <<>>, output_commits |-> <<>>, rejected |-> {}], pool).buckets

BucketBefore(x, y) == x.fee_rate > y.fee_rate \/ (x.fee_rate = y.fee_rate /\ x.age < y.age)

bucket_transactions(pool) ==
    FlattenSeq([i \in 1..Len(Buckets(pool)) |-> SortSeq(Buckets(pool), BucketBefore)[i].txs])

evict_transaction(pool) ==
    LET order == bucket_transactions(pool)
    IN  IF order = <<>> THEN pool ELSE SelectSeq(pool, LAMBDA e : e # Last(order))

\* prepare_mineable_transactions (of the pool, with no limit on the weight)
prepare_mineable_transactions == reconcile(bucket_transactions(txpool), <<>>)
-----------------------------------------------------------------------------
\* TransactionPool: operators on the pools p = [txpool, stempool, reorg_cache]

add_to_reorg_cache(cache, e) ==
    LET longer == Append(cache, e)
    IN  IF Len(longer) > MaxPoolSize THEN Tail(longer) ELSE longer

\* deaggregate_tx takes the transactions of the pool out of an aggregate.  What is cut
\* through between the two parts is in neither, and the rest does not sum up.
deaggregate_tx(pool, e) ==
    IF Cardinality(e) > 1 THEN e \ UNION {x \in Range(pool) : x \subseteq e} ELSE e
Linked(S, T) == \E t \in S, u \in T : Outs(t) \cap Ins(u) # {} \/ Outs(u) \cap Ins(t) # {}

\* tx.validate(AsTransaction) and verify_tx_lock_height, verify_coinbase_maturity
ValidAsTransaction(e) ==
    /\ Aggregates(<<e>>)
    /\ Cardinality(e) <= MaxKernels
    /\ \A t \in e : MinHeight(t) <= HeightOf[head] + 1
PaysFee(e) == fee(e) >= AcceptFeeBase * weight(e)


add_to_txpool(p, e) ==
    LET pool == Append(p.txpool, e)
    IN  IF CanAdd(p.txpool, e, <<>>)
        THEN [p EXCEPT !.txpool = pool, !.stempool = reconcile(@, pool)]
        ELSE p

\* add_to_pool without stem: "OverCapacity" is found before the fee is looked at, and
\* means that one transaction is evicted after this one is added.
Fluff(p, tx) ==
    LET e == deaggregate_tx(p.txpool, tx)
        full == Len(p.txpool) > MaxPoolSize
        q == add_to_txpool(p, e)
        Cached == [q EXCEPT !.reorg_cache = add_to_reorg_cache(@, e)]
    IN  IF \/ contains_tx(p.txpool, tx)
           \/ Linked(e, tx \ e)
           \/ ~full /\ ~PaysFee(e)
           \/ ~ValidAsTransaction(e)
           \/ q.txpool = p.txpool
        THEN p
        ELSE IF full THEN [Cached EXCEPT !.txpool = evict_transaction(@)] ELSE Cached

\* add_to_pool with stem: without a relay the transaction is fluffed at once.
Stem(p, e, relayed) ==
    LET stemmed == [p EXCEPT !.stempool = Append(@, e)]
        q == add_to_txpool(stemmed, e)
    IN  IF \/ contains_tx(p.txpool, e)
           \/ Len(p.txpool) > MaxPoolSize
           \/ Len(p.stempool) > MaxStempoolSize
           \/ ~PaysFee(e)
           \/ ~ValidAsTransaction(e)
           \/ ~CanAdd(p.stempool, e, p.txpool)
        THEN p
        ELSE IF relayed \/ q.txpool = p.txpool THEN stemmed
        ELSE [q EXCEPT !.reorg_cache = add_to_reorg_cache(@, e)]

Pools == [txpool |-> txpool, stempool |-> stempool, reorg_cache |-> reorg_cache]
SetPools(p) ==
    /\ txpool' = p.txpool
    /\ stempool' = p.stempool
    /\ reorg_cache' = p.reorg_cache
-----------------------------------------------------------------------------
Init ==
    /\ head = Genesis
    /\ accepted = {}
    /\ txpool = <<>>
    /\ stempool = <<>>
    /\ reorg_cache = <<>>
    /\ submits = 0

\* A transaction from a peer or a wallet; a stem transaction that is in the stempool
\* is fluffed.
add_to_pool(e, stem) ==
    /\ submits < MaxSubmits
    /\ submits' = submits + 1
    /\ IF stem /\ ~contains_tx(stempool, e)
       THEN \E relayed \in BOOLEAN : SetPools(Stem(Pools, e, relayed))
       ELSE SetPools(Fluff(Pools, e))
    /\ UNCHANGED <<head, accepted>>

\* The chain has a new head; the thread that processed the block calls block_accepted.
NewHead(b) ==
    /\ Work(b) > Work(head)
    /\ Work(Parent(b)) <= Work(head)
    /\ head' = b
    /\ accepted' = accepted \cup {[block |-> b, reorg |-> Parent(b) # head, step |-> "block"]}
    /\ UNCHANGED <<pools, submits>>

\* reconcile_block of both pools, truncate_reorg_cache
Remaining(pool, b) ==
    SelectSeq(pool, LAMBDA e : e \cap TxsOf(b) = {} /\ Inputs(e) \cap Inputs(TxsOf(b)) = {})

reconcile_block(n) ==
    /\ n.step = "block"
    /\ txpool' = reconcile(Remaining(txpool, n.block), <<>>)
    /\ stempool' = reconcile(Remaining(stempool, n.block), txpool')
    /\ \E aged \in 0..Len(reorg_cache) : reorg_cache' = SubSeq(reorg_cache, aged + 1, Len(reorg_cache))
    /\ accepted' = (accepted \ {n}) \cup (IF n.reorg THEN {[n EXCEPT !.step = "reorg"]} ELSE {})
    /\ UNCHANGED <<head, submits>>

\* Mutant: the latest transactions come first.
MutReorgCache(n) ==
    /\ n.step = "reorg"
    /\ SetPools(FoldLeft(add_to_txpool, Pools, Reverse(reorg_cache)))
    /\ accepted' = accepted \ {n}
    /\ UNCHANGED <<head, submits>>

reconcile_reorg_cache(n) ==
    /\ n.step = "reorg"
    /\ SetPools(FoldLeft(add_to_txpool, Pools, reorg_cache))
    /\ accepted' = accepted \ {n}
    /\ UNCHANGED <<head, submits>>

\* The Dandelion monitor: in a fluff epoch everything in the stempool is aggregated,
process_fluff_phase ==
    LET agg == Txs(reconcile(stempool, txpool))
    IN  /\ stempool # <<>>
        /\ Aggregates(<<agg>>)
        /\ Cardinality(agg) <= MaxKernels
        /\ SetPools(Fluff(Pools, agg))
        /\ UNCHANGED <<head, accepted, submits>>

\* and entries older than the embargo, the first ones, are fluffed one by one.
process_expired_entries ==
    /\ \E n \in 1..Len(stempool) : SetPools(FoldLeft(Fluff, Pools, SubSeq(stempool, 1, n)))
    /\ UNCHANGED <<head, accepted, submits>>

Next ==
    \/ \E e \in Submit, stem \in BOOLEAN : add_to_pool(e, stem)
    \/ \E b \in Block : NewHead(b)
    \/ \E n \in accepted : reconcile_block(n)
    \/ \E n \in accepted : reconcile_reorg_cache(n)
    \/ process_fluff_phase
    \/ process_expired_entries

Spec == Init /\ [][Next]_vars
-----------------------------------------------------------------------------
\* Once the pool has heard of the last block, its transactions together are valid on
\* top of the head, whatever arrived while reconcile_block was waiting.
TxpoolValid == accepted = {} /\ txpool # <<>> => validate_raw_tx(txpool)

\* The same of the stempool on top of the txpool.
StempoolValid == accepted = {} /\ stempool # <<>> => validate_raw_tx(txpool \o stempool)

\* Every transaction comes after those it spends from.
InOrder(s) == \A i, j \in 1..Len(s) : i < j => Outputs(s[j]) \cap Inputs(s[i]) = {}

\* Where transactions come after those they spend from and none has to be evicted,
\* reconcile_block with a block that is still on the chain, and the fluffing of others,
\* drop a transaction only if it is no longer valid on top of those that stay.
OnlyInvalidDropped ==
    [][/\ InOrder(txpool \o stempool)
       /\ Len(txpool \o stempool) <= MaxPoolSize
       /\ \A n \in accepted \ accepted' : n.block \in OnChain[head]
       => /\ \A e \in Range(txpool) : e \notin Range(txpool') => ~CanAdd(txpool, e, <<>>)'
          /\ \A e \in Range(stempool) : e \notin Range(stempool') => ~CanAdd(stempool, e, txpool)']_vars

\* After a reorganisation no cached transaction that is valid again is left out, where
\* the cache has them in that order.
ReorgCacheRestored ==
    [][\A n \in accepted \ accepted' : n.step = "reorg" /\ InOrder(reorg_cache) =>
           \A e \in Range(reorg_cache) : ~CanAdd(txpool, e, <<>>)']_vars

\* Every transaction of a valid pool is offered to the miner: ordering the buckets by
\* fee rate does not put a transaction before one it spends from, where chains have
\* two transactions at most.
MineableComplete ==
    accepted = {} => Txs(prepare_mineable_transactions) = Txs(txpool)
=============================================================================
