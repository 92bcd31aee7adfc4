---------------------------- MODULE Transaction ----------------------------
(* Transactions of core/src/core/transaction.rs: bodies, their validation,  *)
(* cut-through, aggregation and deaggregation, the sums of committed.rs and *)
(* the builder of libtx.                                                    *)
(*                                                                          *)
(* A Pedersen commitment is the pair <<value, blinding factor>>, added and  *)
(* subtracted component by component: what the library computes, without    *)
(* the curve.  A range proof is valid for the commitment it was made for,   *)
(* if that has a value >= 0.  A signature is the message and the excess it  *)
(* was made for, and exists only for an excess of value 0.  Hash orders     *)
(* inputs, outputs and kernels; it is unrelated to the order of commitments *)
EXTENDS Integers, Sequences, FiniteSets, TLC

CONSTANTS FeeBits,          \* FEE_BITS: width of the fee below the shift
          MaxBlockWeight,   \* max_block_weight()
          Reward,           \* REWARD
          NrdEnabled,       \* is_nrd_enabled()
          Hash(_)           \* the order of hashes, on sequences of numbers

RECURSIVE SumOf(_)
SumOf(cs) == IF cs = <<>> THEN <<0, 0>>
             ELSE LET r == SumOf(Tail(cs))
                  IN <<Head(cs)[1] + r[1], Head(cs)[2] + r[2]>>
Minus(a, b) == <<a[1] - b[1], a[2] - b[2]>>
Each(s, F(_)) == [i \in 1..Len(s) |-> F(s[i])]
Elems(s) == {s[i] : i \in 1..Len(s)}
Distinct(s) == Cardinality(Elems(s)) = Len(s)
commit_value(v) == <<v, 0>>

(* --- fees ---------------------------------------------------------------- *)

fee(f) == f % 2^FeeBits
fee_shift(f) == (f \div 2^FeeBits) % 16
FeeFieldsOk(shift, f) == f # 0 /\ f < 2^FeeBits /\ shift < 16
FeeFields(shift, f) == shift * 2^FeeBits + f

(* --- kernels: [features, fee, lock, excess, sig] ------------------------- *)

Plain == 0
Coinbase == 1
HeightLocked == 2
NoRecentDuplicate == 3

kernel_sig_msg(k) == CASE k.features = Plain -> <<Plain, k.fee>>
                       [] k.features = Coinbase -> <<Coinbase>>
                       [] OTHER -> <<k.features, k.fee, k.lock>>
sign(k) == [k EXCEPT !.sig = <<kernel_sig_msg(k), k.excess>>]
verify_kernel(k) == k.excess[1] = 0 /\ k.sig = <<kernel_sig_msg(k), k.excess>>
with_features(f, fees, lock) ==
  [features |-> f, fee |-> fees, lock |-> lock, excess |-> <<0, 0>>,
   sig |-> <<<<>>, <<>>>>]

(* --- outputs [features, commit, proof] and inputs ------------------------ *)

verify_proof(o) == o.proof = o.commit /\ o.commit[1] >= 0
identifier(o) == [features |-> o.features, commit |-> o.commit]

IdKey(o) == Hash(<<o.features>> \o o.commit)
CommitKey(c) == Hash(c)
KernelKey(k) == Hash(<<k.features, k.fee, k.lock>> \o k.excess)
SortBy(s, Key(_)) == SortSeq(s, LAMBDA x, y : Key(x) < Key(y))
\* The keys of a list, in the order of the list
SortedAndUnique(keys) == \A i \in 1..Len(keys) - 1 : keys[i] < keys[i + 1]
Insert(s, x, Key(_)) ==
  IF \E i \in 1..Len(s) : Key(s[i]) = Key(x) THEN s
  ELSE SelectSeq(s, LAMBDA y : Key(y) < Key(x)) \o <<x>> \o
       SelectSeq(s, LAMBDA y : Key(x) < Key(y))

CommitOnly(cs) == [kind |-> "CommitOnly", list |-> cs]
FeaturesAndCommit(ins) == [kind |-> "FeaturesAndCommit", list |-> ins]
Commits(inputs) ==
  IF inputs.kind = "CommitOnly" THEN inputs.list
  ELSE SortBy(Each(inputs.list, LAMBDA x : x.commit), CommitKey)
SortInputs(inputs) ==
  IF inputs.kind = "CommitOnly" THEN CommitOnly(SortBy(inputs.list, CommitKey))
  ELSE FeaturesAndCommit(SortBy(inputs.list, IdKey))
InputsSorted(inputs) ==
  IF inputs.kind = "CommitOnly" THEN SortedAndUnique(Each(inputs.list, CommitKey))
  ELSE SortedAndUnique(Each(inputs.list, IdKey))

(* --- bodies: [inputs, outputs, kernels] ---------------------------------- *)

EmptyBody == [inputs |-> CommitOnly(<<>>), outputs |-> <<>>, kernels |-> <<>>]
sort(b) == [inputs |-> SortInputs(b.inputs), outputs |-> SortBy(b.outputs, IdKey),
            kernels |-> SortBy(b.kernels, KernelKey)]
verify_sorted(b) == InputsSorted(b.inputs) /\ SortedAndUnique(Each(b.outputs, IdKey))
                    /\ SortedAndUnique(Each(b.kernels, KernelKey))
with_input(b, i) ==
  [b EXCEPT !.inputs =
     IF b.inputs.kind = "CommitOnly"
     THEN CommitOnly(Insert(b.inputs.list, i.commit, CommitKey))
     ELSE FeaturesAndCommit(Insert(b.inputs.list, i, IdKey))]
with_output(b, o) == [b EXCEPT !.outputs = Insert(@, o, IdKey)]
with_kernel(b, k) == [b EXCEPT !.kernels = Insert(@, k, KernelKey)]
replace_kernel(b, k) == [b EXCEPT !.kernels = <<k>>]

inputs_committed(b) == Commits(b.inputs)
outputs_committed(b) == Each(b.outputs, LAMBDA o : o.commit)
kernels_committed(b) == Each(b.kernels, LAMBDA k : k.excess)
map_kernels_fees(b) ==
  Each(SelectSeq(b.kernels, LAMBDA k : k.features # Coinbase), LAMBDA k : k.fee)
body_fee(b) == SumOf(Each(map_kernels_fees(b), LAMBDA f : <<fee(f), 0>>))[1]
body_fee_shift(b) ==
  LET s == {fee_shift(f) : f \in Elems(map_kernels_fees(b))} \cup {0}
  IN CHOOSE x \in s : \A y \in s : y <= x
shifted_fee(b) == body_fee(b) \div 2^body_fee_shift(b)

InputWeight == 1
OutputWeight == 21
KernelWeight == 3
weight_by_iok(i, o, k) == i * InputWeight + o * OutputWeight + k * KernelWeight
weight(b) == weight_by_iok(Len(b.inputs.list), Len(b.outputs), Len(b.kernels))
lock_height(b) ==
  LET s == {k.lock : k \in {x \in Elems(b.kernels) : x.features = HeightLocked}}
           \cup {0}
  IN CHOOSE x \in s : \A y \in s : y <= x

AsTransaction == [as |-> "AsTransaction", max |-> 0]
AsBlock == [as |-> "AsBlock", max |-> 0]
AsLimitedTransaction(w) == [as |-> "AsLimitedTransaction", max |-> w]
NoLimit == [as |-> "NoLimit", max |-> 0]
CoinbaseWeight == OutputWeight + KernelWeight
Less(a, b) == IF a < b THEN 0 ELSE a - b
max_tx_weight == Less(MaxBlockWeight, CoinbaseWeight)
verify_weight(b, weighting) ==
  CASE weighting.as = "AsTransaction" -> weight(b) <= max_tx_weight
    [] weighting.as = "AsLimitedTransaction" ->
         weight(b) <= Less(IF weighting.max < MaxBlockWeight THEN weighting.max
                           ELSE MaxBlockWeight, CoinbaseWeight)
    [] weighting.as = "AsBlock" -> weight(b) <= MaxBlockWeight
    [] weighting.as = "NoLimit" -> TRUE
verify_no_nrd_duplicates(b) ==
  NrdEnabled => Distinct(Each(SelectSeq(b.kernels, LAMBDA k : k.features = NoRecentDuplicate),
                              LAMBDA k : k.excess))
verify_cut_through(b) == Distinct(inputs_committed(b) \o outputs_committed(b))
verify_features(b) == /\ \A o \in Elems(b.outputs) : o.features # Coinbase
                      /\ \A k \in Elems(b.kernels) : k.features # Coinbase
body_validate_read(b, w) == /\ verify_weight(b, w)
                            /\ verify_no_nrd_duplicates(b)
                            /\ verify_sorted(b)
                            /\ verify_cut_through(b)
body_validate(b, w) == /\ body_validate_read(b, w)
                       /\ \A o \in Elems(b.outputs) : verify_proof(o)
                       /\ \A k \in Elems(b.kernels) : verify_kernel(k)

(* --- sums of committed.rs ------------------------------------------------ *)

sum_commits(pos, neg) == Minus(SumOf(pos), SumOf(neg))
(* An overage is a commitment without a blinding factor, on the side of the *)
(* outputs if positive and of the inputs if negative.                       *)
sum_commitments(ins, outs, overage) ==
  sum_commits(outs \o (IF overage > 0 THEN <<commit_value(overage)>> ELSE <<>>),
              ins \o (IF overage < 0 THEN <<commit_value(-overage)>> ELSE <<>>))
sum_kernel_excesses(kernels, offset) == SumOf(kernels \o <<<<0, offset>>>>)
verify_kernel_sums(ins, outs, kernels, overage, offset) ==
  sum_commitments(ins, outs, overage) = sum_kernel_excesses(kernels, offset)

to_secrets(bs) == SelectSeq(bs, LAMBDA x : x # 0)
blind_sum(pos, neg) == SumOf(Each(pos, LAMBDA x : <<0, x>>))[2]
                       - SumOf(Each(neg, LAMBDA x : <<0, x>>))[2]
(* Nothing positive is zero, whatever is to be subtracted.                  *)
sum_kernel_offsets(pos, neg) ==
  IF to_secrets(pos) = <<>> THEN 0 ELSE blind_sum(to_secrets(pos), to_secrets(neg))

(* --- transactions: [offset, body] ---------------------------------------- *)

EmptyTx == [offset |-> 0, body |-> EmptyBody]
NewTx(inputs, outputs, kernels, offset) ==
  [offset |-> offset,
   body |-> sort([inputs |-> inputs, outputs |-> outputs, kernels |-> kernels])]
tx_validate(t, w) ==
  /\ verify_features(t.body)
  /\ body_validate(t.body, w)
  /\ verify_kernel_sums(inputs_committed(t.body), outputs_committed(t.body),
                        kernels_committed(t.body), body_fee(t.body), t.offset)
accept_fee(t, base) == weight(t.body) * base

(* --- cut-through --------------------------------------------------------- *)

CommitLess(c, d) == c[1] < d[1] \/ (c[1] = d[1] /\ c[2] < d[2])
Swap(s, i, j) == [s EXCEPT ![i] = s[j], ![j] = s[i]]

(* The cursors i and j walk inputs and outputs in the order of commitments; *)
(* what is kept is swapped n places forward, over what was cut.             *)
RECURSIVE CutLoop(_, _, _, _, _)
CutLoop(ins, outs, i, j, n) ==
  IF i > Len(ins) /\ j > Len(outs) THEN [ins |-> ins, outs |-> outs, n |-> n]
  ELSE IF j > Len(outs) \/ (i <= Len(ins) /\ CommitLess(ins[i], outs[j].commit))
       THEN CutLoop(Swap(ins, i - n, i), outs, i + 1, j, n)
  ELSE IF i > Len(ins) \/ CommitLess(outs[j].commit, ins[i])
       THEN CutLoop(ins, Swap(outs, j - n, j), i, j + 1, n)
  ELSE CutLoop(ins, outs, i + 1, j + 1, n + 1)

cut_through(ins, outs) ==
  LET c == CutLoop(SortSeq(ins, CommitLess),
                   SortSeq(outs, LAMBDA x, y : CommitLess(x.commit, y.commit)), 1, 1, 0)
      keptIn == SortBy(SubSeq(c.ins, 1, Len(ins) - c.n), CommitKey)
      keptOut == SortBy(SubSeq(c.outs, 1, Len(outs) - c.n), IdKey)
  IN [ok |-> Distinct(keptIn) /\ Distinct(Each(keptOut, identifier)),
      ins |-> keptIn, outs |-> keptOut]

(* --- aggregation --------------------------------------------------------- *)

RECURSIVE Concat(_)
Concat(ss) == IF ss = <<>> THEN <<>> ELSE Head(ss) \o Concat(Tail(ss))
AllInputs(txs) == Concat(Each(txs, LAMBDA t : inputs_committed(t.body)))
AllOutputs(txs) == Concat(Each(txs, LAMBDA t : t.body.outputs))
AllKernels(txs) == Concat(Each(txs, LAMBDA t : t.body.kernels))

(* A slip: outputs spent within the aggregate are not cut.                  *)
MutAggregate(txs) ==
  IF txs = <<>> THEN [ok |-> TRUE, tx |-> EmptyTx]
  ELSE [ok |-> TRUE,
        tx |-> NewTx(CommitOnly(AllInputs(txs)), AllOutputs(txs), AllKernels(txs),
                     sum_kernel_offsets(Each(txs, LAMBDA t : t.offset), <<>>))]
aggregate(txs) ==
  IF txs = <<>> THEN [ok |-> TRUE, tx |-> EmptyTx]
  ELSE IF Len(txs) = 1 THEN [ok |-> TRUE, tx |-> txs[1]]
  ELSE LET c == cut_through(AllInputs(txs), AllOutputs(txs))
       IN [ok |-> c.ok,
           tx |-> NewTx(CommitOnly(c.ins), c.outs, AllKernels(txs),
                        sum_kernel_offsets(Each(txs, LAMBDA t : t.offset), <<>>))]

Without(s, t, Key(_)) ==
  SelectSeq(s, LAMBDA x : \A y \in Elems(t) : Key(y) # Key(x))
deaggregate(mk, txs) ==
  LET a == aggregate(txs)
  IN [ok |-> a.ok,
      tx |-> NewTx(CommitOnly(Without(inputs_committed(mk.body),
                                      inputs_committed(a.tx.body), CommitKey)),
                   Without(mk.body.outputs, a.tx.body.outputs, IdKey),
                   Without(mk.body.kernels, a.tx.body.kernels, KernelKey),
                   blind_sum(to_secrets(<<mk.offset>>), to_secrets(<<a.tx.offset>>)))]

(* --- libtx: build::transaction and reward::output ------------------------ *)

NewOutput(features, c) == [features |-> features, commit |-> c, proof |-> c]
RECURSIVE Built(_, _)
Built(elems, tx) ==
  IF elems = <<>> THEN tx
  ELSE LET e == Head(elems)
           i == [features |-> e.features, commit |-> e.commit]
       IN Built(Tail(elems),
                IF e.kind = "input"
                THEN [body |-> with_input(tx.body, i), offset |-> tx.offset - e.commit[2]]
                ELSE [body |-> with_output(tx.body, NewOutput(e.features, e.commit)),
                      offset |-> tx.offset + e.commit[2]])
transaction(k, elems, excess) ==
  LET kernel == sign([k EXCEPT !.excess = <<0, excess>>])
      t == Built(elems, EmptyTx)
  IN [body |-> replace_kernel(t.body, kernel), offset |-> t.offset - excess]

reward(fees) == Reward + fees
reward_output(key, fees) ==
  LET c == <<reward(fees), key>>
  IN [output |-> NewOutput(Coinbase, c),
      kernel |-> sign([with_features(Coinbase, 0, 0) EXCEPT
                         !.excess = Minus(c, commit_value(reward(fees)))])]
=============================================================================
