---------------------------- MODULE Aggregation ----------------------------
(* Transactions gathered one by one, as the stem pool gathers them, then    *)
(* aggregated for relay (servers/src/grin/dandelion_monitor.rs), accepted   *)
(* by a pool (pool/src/transaction_pool.rs) and taken apart again there.    *)
EXTENDS Transaction

CONSTANTS Txs,              \* the transactions wallets have made
          AcceptFeeBase     \* get_accept_fee_base()

VARIABLE stem               \* the transactions gathered, in order

Init == stem = <<>>
Gather(t) == /\ t \notin Elems(stem)
             /\ stem' = Append(stem, t)
Next == \E t \in Txs : Gather(t)
Spec == Init /\ [][Next]_stem

is_acceptable(t) == shifted_fee(t.body) >= accept_fee(t, AcceptFeeBase)
(* What the pool keeps of a transaction of several kernels when it has the  *)
(* first n of them already.                                                 *)
deaggregate_tx(t, n) == deaggregate(t, SubSeq(stem, 1, n))

(* An aggregate of valid transactions is valid and pays their fees; at one  *)
(* shift it is acceptable to the pool if they are.  Taking some of its      *)
(* transactions out again gives the aggregate of the others, or something   *)
(* that does not validate.                                                  *)
Valid(t) == tx_validate(t, AsTransaction)
Same(t, u) == /\ t.offset = u.offset
              /\ Commits(t.body.inputs) = Commits(u.body.inputs)
              /\ t.body.outputs = u.body.outputs
              /\ t.body.kernels = u.body.kernels
AggregateIsSum ==
  \A a \in {aggregate(stem)} :
    (a.ok /\ \A t \in Elems(stem) : Valid(t)) =>
      /\ tx_validate(a.tx, NoLimit)
      /\ body_fee(a.tx.body) = SumOf(Each(stem, LAMBDA t : <<body_fee(t.body), 0>>))[1]
      /\ (\A t \in Elems(stem) : is_acceptable(t) /\ body_fee_shift(t.body) = body_fee_shift(a.tx.body))
           => is_acceptable(a.tx)
      /\ \A n \in 0..Len(stem) :
           \A d \in {deaggregate_tx(a.tx, n)}, rest \in {aggregate(SubSeq(stem, n + 1, Len(stem)))} :
             (d.ok /\ tx_validate(d.tx, NoLimit) /\ d.tx.body.kernels # <<>>) => Same(d.tx, rest.tx)
=============================================================================
