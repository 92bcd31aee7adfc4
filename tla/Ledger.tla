------------------------------- MODULE Ledger -------------------------------
(* Blocks of core/src/core/{block,compact_block,block_sums}.rs on a ledger: *)
(* a miner builds a block (servers/src/mining/mine_block.rs), sends it in   *)
(* full or as a compact block, and the node that receives it hydrates it    *)
(* from its pool, validates it and applies it to outputs and sums           *)
(* (chain/src/pipe.rs, chain/src/txhashset/utxo_view.rs).                   *)
EXTENDS Transaction

CONSTANTS Pools,            \* the contents a pool may have, sequences of entries
          RewardKeys,       \* keys a wallet derives for coinbase outputs
          GenesisKey,       \* key of the genesis reward
          Maturity,         \* coinbase_maturity()
          HfInterval,       \* blocks between hard forks
          MaxHeight         \* bound on the height of the chain

VARIABLES headers,          \* [height, offset, version] of the chain, genesis first
          utxo,             \* unspent outputs with the height they were made at
          kernels,          \* all kernels of the chain
          sums,             \* block_sums of the head
          block,            \* the block under way, {} or one block
          hydrated          \* what the last compact block became, {} or one

ledgerVars == <<headers, utxo, kernels, sums, block, hydrated>>

Head_ == headers[Len(headers)]
header_version(h) == IF 1 + h \div HfInterval < 5 THEN 1 + h \div HfInterval ELSE 5
overage == -Reward
total_overage(h, genesisHadReward) ==
  -((IF genesisHadReward THEN h.height + 1 ELSE h.height) * Reward)

(* --- blocks: [header, body] ---------------------------------------------- *)

from_reward(prev, txs, out, kern) ==
  LET a == aggregate(txs)
  IN [ok |-> a.ok,
      block |-> [header |-> [height |-> prev.height + 1,
                             version |-> header_version(prev.height + 1),
                             offset |-> sum_kernel_offsets(<<a.tx.offset, prev.offset>>, <<>>)],
                 body |-> with_kernel(with_output(a.tx.body, out), kern)]]

block_kernel_offset(b, prevOffset) ==
  IF b.header.offset = prevOffset THEN 0
  ELSE sum_kernel_offsets(<<b.header.offset>>, <<prevOffset>>)
verify_kernel_lock_heights(b) ==
  \A k \in Elems(b.body.kernels) : k.features = HeightLocked => k.lock <= b.header.height
verify_nrd_kernels_for_header_version(b) ==
  (\E k \in Elems(b.body.kernels) : k.features = NoRecentDuplicate)
    => NrdEnabled /\ b.header.version >= 4
verify_coinbase(b) ==
  LET outs == SelectSeq(b.body.outputs, LAMBDA o : o.features = Coinbase)
      kerns == SelectSeq(b.body.kernels, LAMBDA k : k.features = Coinbase)
  IN Minus(SumOf(Each(outs, LAMBDA o : o.commit)), commit_value(reward(body_fee(b.body))))
     = SumOf(Each(kerns, LAMBDA k : k.excess))

block_validate_read(b) ==
  body_validate_read(b.body, AsBlock) /\ verify_kernel_lock_heights(b)
block_validate(b, prevOffset) ==
  /\ body_validate(b.body, AsBlock)
  /\ verify_kernel_lock_heights(b)
  /\ verify_nrd_kernels_for_header_version(b)
  /\ verify_coinbase(b)
  /\ verify_kernel_sums(inputs_committed(b.body), outputs_committed(b.body),
                        kernels_committed(b.body), overage, block_kernel_offset(b, prevOffset))

(* --- compact blocks: [header, out_full, kern_full, kern_ids] ------------- *)

(* A short id is the kernel: a collision of two is outside the model.       *)
short_id(k) == k
MutCompact(b) ==
  [header |-> b.header, out_full |-> <<>>,
   kern_full |-> SortBy(SelectSeq(b.body.kernels, LAMBDA k : k.features = Coinbase), KernelKey),
   kern_ids |-> SortBy(Each(SelectSeq(b.body.kernels, LAMBDA k : k.features # Coinbase),
                            short_id), KernelKey)]
CompactBlock(b) ==
  [header |-> b.header,
   out_full |-> SortBy(SelectSeq(b.body.outputs, LAMBDA o : o.features = Coinbase), IdKey),
   kern_full |-> SortBy(SelectSeq(b.body.kernels, LAMBDA k : k.features = Coinbase), KernelKey),
   kern_ids |-> SortBy(Each(SelectSeq(b.body.kernels, LAMBDA k : k.features # Coinbase),
                            short_id), KernelKey)]
compact_validate_read(cb) == /\ SortedAndUnique(Each(cb.out_full, IdKey))
                             /\ SortedAndUnique(Each(cb.kern_full, KernelKey))
                             /\ SortedAndUnique(Each(cb.kern_ids, KernelKey))

hydrate_from(cb, txs) ==
  LET c == cut_through(AllInputs(txs), AllOutputs(txs))
  IN [ok |-> c.ok,
      block |-> [header |-> cb.header,
                 body |-> sort([inputs |-> CommitOnly(c.ins),
                                outputs |-> c.outs \o cb.out_full,
                                kernels |-> AllKernels(txs) \o cb.kern_full])]]

(* The walk over the entries stops at the entry in which as many ids as     *)
(* asked for have been found.                                               *)
RECURSIVE Retrieved(_, _, _)
Retrieved(entries, ids, r) ==
  IF entries = <<>> \/ Len(r.found) = Cardinality(ids) THEN r
  ELSE LET t == Head(entries)
           hit == SelectSeq(t.body.kernels, LAMBDA k : short_id(k) \in ids)
       IN Retrieved(Tail(entries), ids,
                    [txs |-> IF hit = <<>> THEN r.txs ELSE Append(r.txs, t),
                     found |-> r.found \o hit])
retrieve_transactions(entries, ids) ==
  LET r == Retrieved(entries, ids, [txs |-> <<>>, found |-> <<>>])
  IN [txs |-> r.txs, missing |-> ids \ Elems(r.found)]

(* --- the outputs a block spends and makes -------------------------------- *)

Unspent(c) == {u \in utxo : u.commit = c}
validate_inputs(inputs) ==
  IF inputs.kind = "CommitOnly" THEN \A c \in Elems(inputs.list) : Unspent(c) # {}
  ELSE \A i \in Elems(inputs.list) : \E u \in Unspent(i.commit) : identifier(u) = i
validate_output(o) == Unspent(o.commit) = {}
validate_utxo(body) == /\ \A o \in Elems(body.outputs) : validate_output(o)
                       /\ validate_inputs(body.inputs)
verify_coinbase_maturity(inputs, height) ==
  LET spent == UNION {Unspent(c) : c \in Elems(Commits(inputs))}
      made == {u.height : u \in {x \in spent : x.features = Coinbase}}
  IN made # {} => /\ height >= Maturity
                  /\ \A h \in made : h <= height - Maturity

(* The sums of the head with a block added to them.                         *)
BlockSums(b) ==
  [utxo |-> sum_commitments(inputs_committed(b.body),
                            <<sums.utxo>> \o outputs_committed(b.body), overage),
   kernel |-> SumOf(<<sums.kernel>> \o kernels_committed(b.body))]
verify_block_sums(b) ==
  BlockSums(b).utxo = sum_kernel_excesses(<<BlockSums(b).kernel>>, b.header.offset)

Accepted(b) == /\ block_validate(b, Head_.offset)
               /\ verify_coinbase_maturity(b.body.inputs, b.header.height)
               /\ validate_utxo(b.body)
               /\ verify_block_sums(b)
(* A slip: the outputs spent stay unspent.                                  *)
MutApplyBlock(b) ==
  /\ utxo' = utxo \cup {[features |-> o.features, commit |-> o.commit,
                         height |-> b.header.height] : o \in Elems(b.body.outputs)}
  /\ kernels' = kernels \o b.body.kernels
  /\ headers' = Append(headers, b.header)
  /\ sums' = BlockSums(b)
apply_block(b) ==
  /\ utxo' = {u \in utxo : u.commit \notin Elems(inputs_committed(b.body))}
             \cup {[features |-> o.features, commit |-> o.commit, height |-> b.header.height] :
                     o \in Elems(b.body.outputs)}
  /\ kernels' = kernels \o b.body.kernels
  /\ headers' = Append(headers, b.header)
  /\ sums' = BlockSums(b)

(* --- transactions on their way into a block ------------------------------ *)

(* Inputs take the features of the outputs they spend, in the pool or not.  *)
convert_tx_v2(t, spent) ==
  [t EXCEPT !.body.inputs = FeaturesAndCommit(SortBy(spent, IdKey))]
PoolEntry(t) ==
  convert_tx_v2(t, Each(Commits(t.body.inputs), LAMBDA c :
                          [features |-> IF \E u \in Unspent(c) : u.features = Coinbase
                                        THEN Coinbase ELSE Plain, commit |-> c]))
(* What prepare_mineable_transactions returns is valid as one transaction   *)
(* on the outputs of the head.                                              *)
Mineable(ts) ==
  LET a == aggregate(ts)
  IN /\ a.ok
     /\ tx_validate(a.tx, AsLimitedTransaction(MaxBlockWeight))
     /\ validate_utxo(a.tx.body)
     /\ verify_coinbase_maturity(a.tx.body.inputs, Head_.height + 1)
     /\ lock_height(a.tx.body) <= Head_.height + 1

genesis == reward_output(GenesisKey, 0)
Init ==
  /\ headers = <<[height |-> 0, version |-> header_version(0), offset |-> 0]>>
  /\ utxo = {[features |-> Coinbase, commit |-> genesis.output.commit, height |-> 0]}
  /\ kernels = <<genesis.kernel>>
  /\ sums = [utxo |-> Minus(genesis.output.commit, commit_value(Reward)),
             kernel |-> genesis.kernel.excess]
  /\ block = {}
  /\ hydrated = {}

(* A block on the head, with the coinbase the wallet answered: for the fees *)
(* asked, or for others.  A block that does not validate, or that           *)
(* set_txhashset_roots cannot apply, is not mined.                          *)
build_block(ts, key, fees) ==
  /\ block = {}
  /\ Head_.height < MaxHeight
  /\ Mineable(ts)
  /\ LET cb == reward_output(key, fees)
     IN \E r \in {from_reward(Head_, Each(ts, PoolEntry), cb.output, cb.kernel)} :
          /\ r.ok
          /\ block_validate(r.block, Head_.offset)
          /\ validate_utxo(r.block.body)
          /\ block' = {r.block}
  /\ hydrated' = {}
  /\ UNCHANGED <<headers, utxo, kernels, sums>>

(* A full block, as mined or changed by a faulty sender.                    *)
Faulty(b) ==
  {[b EXCEPT !.body.kernels = Tail(@)], [b EXCEPT !.body.outputs = Tail(@)],
   [b EXCEPT !.header.offset = @ + 1]}
  \cup {[b EXCEPT !.body.outputs[i].features = 1 - @] : i \in 1..Len(b.body.outputs)}
  \cup {[b EXCEPT !.body.kernels[i].fee = @ + 1] : i \in 1..Len(b.body.kernels)}
process_block ==
  \E mined \in block : \E b \in {mined} \cup Faulty(mined) :
    /\ IF block_validate_read(b) /\ Accepted(b) THEN apply_block(b) /\ block' = {}
       ELSE block' = {} /\ UNCHANGED <<headers, utxo, kernels, sums>>
    /\ hydrated' = {}

(* A compact block: hydrated if every kernel is in the pool, asked for in   *)
(* full (and then received so) if one is missing or it does not validate.   *)
compact_block_received(entries) ==
  \E b \in block : \E cb \in {CompactBlock(b)} :
    /\ compact_validate_read(cb)
    /\ hydrated = {}
    /\ \E r \in {retrieve_transactions(entries, Elems(cb.kern_ids))} :
       \E h \in {hydrate_from(cb, IF cb.kern_ids = <<>> THEN <<>> ELSE r.txs)} :
         LET ok == (cb.kern_ids = <<>> \/ r.missing = {}) /\ h.ok /\ Accepted(h.block)
         IN /\ hydrated' = {[of |-> b, entries |-> entries, block |-> h.block, accepted |-> ok]}
            /\ IF ok
               THEN apply_block(h.block) /\ block' = {}
               ELSE UNCHANGED <<headers, utxo, kernels, sums, block>>

Next ==
  \/ \E ts \in Pools, key \in RewardKeys, extra \in {0, 1} :
       build_block(ts, key, body_fee(aggregate(ts).tx.body) + extra)
  \/ process_block
  \/ \E p \in Pools : compact_block_received(Each(p, PoolEntry))

Spec == Init /\ [][Next]_ledgerVars

(* --- properties ---------------------------------------------------------- *)

UtxoCommits == {u.commit : u \in utxo}
RECURSIVE SetSum(_)
SetSum(S) == IF S = {} THEN <<0, 0>>
             ELSE LET c == CHOOSE x \in S : TRUE
                  IN SumOf(<<c, SetSum(S \ {c})>>)

(* Whatever blocks arrive, the value of the unspent outputs is one reward   *)
(* for each block, genesis included; the sums kept with the head are those  *)
(* of the full sets, and validate_kernel_sums would accept the full state.  *)
SupplyKept ==
  /\ SetSum(UtxoCommits)[1] = (Head_.height + 1) * Reward
  /\ sums.kernel = SumOf(Each(kernels, LAMBDA k : k.excess))
  /\ sums.utxo = Minus(SetSum(UtxoCommits), commit_value((Head_.height + 1) * Reward))
  /\ verify_kernel_sums(<<>>, <<SetSum(UtxoCommits)>>, Each(kernels, LAMBDA k : k.excess),
                        total_overage(Head_, TRUE), Head_.offset)

(* A block that was mined is accepted by the chain it was mined on, and a   *)
(* node whose pool has just the transactions of the block, alone or         *)
(* aggregated, hydrates the very block from its compact form.               *)
Exact(entries, b) ==
  LET ks == AllKernels(entries)
  IN Distinct(ks) /\ Elems(ks) = {k \in Elems(b.body.kernels) : k.features # Coinbase}
BlocksRebuild ==
  /\ \A b \in block : Accepted(b)
  /\ \A h \in hydrated :
       Exact(h.entries, h.of) =>
         /\ h.accepted
         /\ Elems(Commits(h.block.body.inputs)) = Elems(Commits(h.of.body.inputs))
         /\ h.block.body.outputs = h.of.body.outputs
         /\ h.block.body.kernels = h.of.body.kernels
=============================================================================
