------------------------------- MODULE Relay -------------------------------
(***************************************************************************)
(* How blocks and transactions travel between nodes: the messages of       *)
(* Protocol::consume (p2p/src/protocol.rs), the per-peer TrackingAdapter   *)
(* (p2p/src/peer.rs), the handlers of NetToChainAdapter, the broadcasts of *)
(* ChainToPoolAndNetAdapter and PoolToNetAdapter (servers/src/common/      *)
(* adapters.rs), Peers::broadcast, the Dandelion epoch (common/types.rs)   *)
(* and its monitor (grin/dandelion_monitor.rs).                            *)
(*                                                                         *)
(* The nodes agree on one chain: block h is the one of height h, and the   *)
(* blocks a node has are 1 .. head.  Transactions have one kernel each.    *)
(* A node handles one message at a time, and announces a block before it   *)
(* accepts the next one.                                                   *)
(***************************************************************************)
EXTENDS Integers, Sequences, FiniteSets, FiniteSetsExt

CONSTANTS Node,
          Link,         \* pairs of connected nodes, both ways
          Dialled,      \* the pairs <<n, m>> where m is an outbound peer of n
          Syncing,      \* nodes whose sync status is not NoSync
          Miner, Wallet, \* nodes that mine, nodes that wallets push to
          NoKernelHash, \* nodes without the capability TX_KERNEL_HASH
          Tx,
          MaxBlocks,    \* bound on the blocks mined
          MaxSpoilt,    \* bound on hydrations that give an invalid block
          MaxEpochs     \* bound on the epochs that begin

None == "none"

VARIABLES
    chan,       \* messages sent by one node to another, in order
    recv,       \* TrackingAdapter::received of a node for a peer
    head,       \* height of the head
    header,     \* height of the header head
    orphans,    \* heights of the blocks in the orphan pool
    txpool, stempool,
    epoch,      \* DandelionEpoch: [stem, relay]
    content,    \* the transactions of the blocks mined, in order
    pushed,     \* the transactions pushed by wallets
    spoilt, epochs

vars == <<chan, recv, head, header, orphans, txpool, stempool, epoch,
          content, pushed, spoilt, epochs>>

Pairs == Node \X Node
Peers(n) == {m \in Node : <<n, m>> \in Link}
Relays(n) == {m \in Peers(n) : <<n, m>> \in Dialled}
Blk(h) == <<"block", h>>
Kernel(t) == <<"tx", t>>

Init == /\ chan = [p \in Pairs |-> <<>>]
        /\ recv = [p \in Pairs |-> {}]
        /\ head = [n \in Node |-> 0]
        /\ header = [n \in Node |-> 0]
        /\ orphans = [n \in Node |-> {}]
        /\ txpool = [n \in Node |-> {}]
        /\ stempool = [n \in Node |-> {}]
        /\ epoch = [n \in Node |-> [stem |-> TRUE, relay |-> None]]
        /\ content = <<>>
        /\ pushed = {}
        /\ spoilt = 0
        /\ epochs = 0

-----------------------------------------------------------------------------
(* Sending.  A message is a triple: type, id, and the transactions, if any.  *)

Msg(type, id) == [type |-> type, id |-> id]

\* The channels after node n has sent the messages out[m] to each peer m
Send(c, n, out) == [p \in Pairs |-> IF p[1] = n /\ p[2] \in DOMAIN out
                                    THEN c[p] \o out[p[2]] ELSE c[p]]

\* Peers::broadcast with Peer::send_header or send_compact_block for the
\* blocks hs: a peer we received the block from, in any form, is passed over
broadcast_blocks(r, n, type, hs) ==
    [m \in Peers(n) |->
        LET new == SelectSeq(hs, LAMBDA h : Blk(h) \notin r[<<n, m>>])
        IN  [i \in DOMAIN new |-> Msg(type, new[i])]]

\* Peer::send_transaction: the kernel hash, or the transaction for peers that
\* do not know kernel hashes
send_transaction(r, n, t) ==
    [m \in Peers(n) |->
        IF Kernel(t) \in r[<<n, m>>] THEN <<>>
        ELSE <<Msg(IF m \in NoKernelHash THEN "Transaction" ELSE "TransactionKernel", t)>>]

\* NetToChainAdapter::send_block_request_to_peer: not when the block is known
request(n, m, type, h) ==
    [x \in {m} |-> IF h <= head[n] THEN <<>> ELSE <<Msg(type, h)>>]

Nothing == [m \in {} |-> <<>>]

-----------------------------------------------------------------------------
(* Accepting blocks *)

\* The heights accepted when block h is processed on top of head h - 1: the
\* block and the orphans that follow it (Chain::check_orphans)
Accepted(n, h) ==
    LET last == CHOOSE k \in h .. Len(content) :
                    /\ \A i \in h + 1 .. k : i \in orphans[n]
                    /\ k + 1 \notin orphans[n]
    IN  [i \in 1 .. last - h + 1 |-> h + i - 1]

Last(s) == s[Len(s)]

\* ChainToPoolAndNetAdapter::block_accepted for each of them: the broadcast,
\* then the reconciliation of the pools
AcceptBlocks(n, hs, type, r, c) ==
    LET mined == UNION {content[hs[i]] : i \in DOMAIN hs}
    IN  /\ head' = [head EXCEPT ![n] = Last(hs)]
        /\ header' = [header EXCEPT ![n] = Max({@, Last(hs)})]
        /\ orphans' = [orphans EXCEPT ![n] = @ \ {hs[i] : i \in DOMAIN hs}]
        /\ txpool' = [txpool EXCEPT ![n] = @ \ mined]
        /\ stempool' = [stempool EXCEPT ![n] = @ \ mined]
        /\ chan' = Send(c, n, broadcast_blocks(r, n, type, hs))

\* NetToChainAdapter::process_block: a known block or one whose previous header
\* is unknown is refused; an orphan is kept, and its parent requested from the
\* same peer unless it is an orphan too
process_block(n, m, h, r, c) ==
    IF h <= head[n] \/ h > header[n] + 1
    THEN chan' = c /\ UNCHANGED <<head, header, orphans, txpool, stempool>>
    ELSE IF h = head[n] + 1
    THEN AcceptBlocks(n, Accepted(n, h), "Header", r, c)
    ELSE /\ header' = [header EXCEPT ![n] = Max({@, h})]
         /\ orphans' = [orphans EXCEPT ![n] = @ \union {h}]
         /\ chan' = IF h - 1 \in orphans[n] \/ n \in Syncing THEN c
                    ELSE Send(c, n, request(n, m, "GetBlock", h - 1))
         /\ UNCHANGED <<head, txpool, stempool>>

-----------------------------------------------------------------------------
(* The handlers of Protocol::consume, for a message of type and id from m.   *)
(* r and c are recv and chan once the message was taken and tracked.         *)

\* A slip: a kernel hash is taken for the transaction itself
MutPushRecv(type, id) ==
    CASE type \in {"Header", "CompactBlock", "Block"} -> {Blk(id)}
      [] type \in {"TransactionKernel", "Transaction", "StemTransaction"} -> {Kernel(id)}
      [] OTHER -> {}

\* TrackingAdapter::push_recv: what a message tells us the peer has; stem
\* transactions are not tracked
push_recv(type, id) ==
    CASE type \in {"Header", "CompactBlock", "Block"} -> {Blk(id)}
      [] type \in {"TransactionKernel", "Transaction"} -> {Kernel(id)}
      [] OTHER -> {}

\* header_received: the header, if its previous one is known, then a request
\* for the compact block
header_received(n, m, h, c) ==
    /\ IF h <= head[n] \/ h > header[n] + 1
       THEN chan' = c /\ UNCHANGED header
       ELSE /\ header' = [header EXCEPT ![n] = Max({@, h})]
            /\ chan' = Send(c, n, request(n, m, "GetCompactBlock", h))
    /\ UNCHANGED <<head, orphans, txpool, stempool, spoilt>>

\* A slip: no full block is requested when the compact one is of no use
MutCompact(n, m, h, r, c) ==
    IF h <= head[n]
    THEN chan' = c /\ UNCHANGED <<head, header, orphans, txpool, stempool, spoilt>>
    ELSE IF content[h] = {}
    THEN process_block(n, m, h, r, c) /\ UNCHANGED spoilt
    ELSE IF h > header[n] + 1
    THEN chan' = c /\ UNCHANGED <<head, header, orphans, txpool, stempool, spoilt>>
    ELSE \/ /\ content[h] \subseteq txpool[n]
            /\ process_block(n, m, h, r, c)
            /\ UNCHANGED spoilt
         \/ /\ \/ ~(content[h] \subseteq txpool[n]) /\ UNCHANGED spoilt
               \/ /\ content[h] \subseteq txpool[n] /\ n \notin Syncing
                  /\ spoilt < MaxSpoilt /\ spoilt' = spoilt + 1
            /\ header' = [header EXCEPT ![n] = Max({@, h})]
            /\ chan' = c
            /\ UNCHANGED <<head, orphans, txpool, stempool>>

\* compact_block_received: with kernels missing from the transaction pool the
\* full block is requested; so it is when the hydrated block is not valid
\* (other transactions of the pool have the same short ids)
compact_block_received(n, m, h, r, c) ==
    IF h <= head[n]
    THEN chan' = c /\ UNCHANGED <<head, header, orphans, txpool, stempool, spoilt>>
    ELSE IF content[h] = {}
    THEN process_block(n, m, h, r, c) /\ UNCHANGED spoilt
    ELSE IF h > header[n] + 1
    THEN chan' = c /\ UNCHANGED <<head, header, orphans, txpool, stempool, spoilt>>
    ELSE \/ /\ content[h] \subseteq txpool[n]
            /\ process_block(n, m, h, r, c)
            /\ UNCHANGED spoilt
         \/ /\ \/ ~(content[h] \subseteq txpool[n]) /\ UNCHANGED spoilt
               \/ /\ content[h] \subseteq txpool[n] /\ n \notin Syncing
                  /\ spoilt < MaxSpoilt /\ spoilt' = spoilt + 1
            /\ header' = [header EXCEPT ![n] = Max({@, h})]
            /\ chan' = Send(c, n, request(n, m, "GetBlock", h))
            /\ UNCHANGED <<head, orphans, txpool, stempool>>

\* add_to_pool into the transaction pool, with tx_accepted's broadcast; the
\* stempool is reconciled with it
add_to_txpool(n, t, r, c) ==
    /\ txpool' = [txpool EXCEPT ![n] = @ \union {t}]
    /\ stempool' = [stempool EXCEPT ![n] = @ \ {t}]
    /\ chan' = Send(c, n, send_transaction(r, n, t))

Known(n, t) == t \in txpool[n] \/ \E h \in 1 .. head[n] : t \in content[h]

\* DandelionEpoch::relay_peer: the peer of the epoch, or any outbound peer
relay_peer(n) == IF epoch[n].relay # None THEN {epoch[n].relay}
                 ELSE IF Relays(n) = {} THEN {None} ELSE Relays(n)

\* TransactionPool::add_to_pool: duplicates and transactions that are in the
\* chain are refused; a stem transaction seen before is fluffed; another one
\* goes to the stempool and, in a stem epoch, on to the relay, or is fluffed
\* when there is none
add_to_pool(n, t, stem, r, c) ==
    IF Known(n, t)
    THEN chan' = c /\ UNCHANGED <<txpool, stempool, epoch>>
    ELSE IF ~stem \/ t \in stempool[n]
    THEN add_to_txpool(n, t, r, c) /\ UNCHANGED epoch
    ELSE IF ~epoch[n].stem
    THEN /\ stempool' = [stempool EXCEPT ![n] = @ \union {t}]
         /\ chan' = c
         /\ UNCHANGED <<txpool, epoch>>
    ELSE \E p \in relay_peer(n) :
            /\ epoch' = [epoch EXCEPT ![n].relay = p]
            /\ IF p = None THEN add_to_txpool(n, t, r, c)
               ELSE /\ stempool' = [stempool EXCEPT ![n] = @ \union {t}]
                    /\ chan' = Send(c, n, [x \in {p} |-> <<Msg("StemTransaction", t)>>])
                    /\ UNCHANGED txpool

\* What a request is answered with, if the node has it
Answer(n, type, id) ==
    CASE type = "GetTransaction" -> IF id \in txpool[n] THEN <<Msg("Transaction", id)>> ELSE <<>>
      [] type = "GetBlock" -> IF id <= head[n] THEN <<Msg("Block", id)>> ELSE <<>>
      [] type = "GetCompactBlock" -> IF id <= head[n] THEN <<Msg("CompactBlock", id)>> ELSE <<>>

\* The reader thread of node n for peer m
consume(n, m) ==
    /\ chan[<<m, n>>] # <<>>
    /\ LET msg == Head(chan[<<m, n>>])
           c == [chan EXCEPT ![<<m, n>>] = Tail(@)]
           r == [recv EXCEPT ![<<n, m>>] = @ \union push_recv(msg.type, msg.id)]
       IN  /\ recv' = r
           /\ \/ /\ msg.type = "Header"
                 /\ header_received(n, m, msg.id, c) /\ UNCHANGED epoch
              \/ /\ msg.type = "CompactBlock"
                 /\ compact_block_received(n, m, msg.id, r, c) /\ UNCHANGED epoch
              \/ /\ msg.type = "Block"
                 /\ process_block(n, m, msg.id, r, c) /\ UNCHANGED <<epoch, spoilt>>
              \/ /\ msg.type = "TransactionKernel"
                 /\ chan' = IF n \in Syncing \/ msg.id \in txpool[n] THEN c
                            ELSE Send(c, n, [x \in {m} |-> <<Msg("GetTransaction", msg.id)>>])
                 /\ UNCHANGED <<head, header, orphans, txpool, stempool, epoch, spoilt>>
              \/ /\ msg.type \in {"Transaction", "StemTransaction"}
                 /\ IF n \in Syncing
                    THEN chan' = c /\ UNCHANGED <<txpool, stempool, epoch>>
                    ELSE add_to_pool(n, msg.id, msg.type = "StemTransaction", r, c)
                 /\ UNCHANGED <<head, header, orphans, spoilt>>
              \/ /\ msg.type \in {"GetTransaction", "GetBlock", "GetCompactBlock"}
                 /\ chan' = Send(c, n, [x \in {m} |-> Answer(n, msg.type, msg.id)])
                 /\ UNCHANGED <<head, header, orphans, txpool, stempool, epoch, spoilt>>
    /\ UNCHANGED <<content, pushed, epochs>>

-----------------------------------------------------------------------------
(* What happens in a node on its own *)

\* A node with the newest block mines the next one, with the transactions of
\* its pool, and sends the compact block (Options::MINE)
mine(n) ==
    /\ n \in Miner /\ head[n] = Len(content) /\ Len(content) < MaxBlocks
    /\ content' = Append(content, txpool[n])
    /\ head' = [head EXCEPT ![n] = @ + 1]
    /\ header' = [header EXCEPT ![n] = head[n] + 1]
    /\ stempool' = [stempool EXCEPT ![n] = @ \ txpool[n]]
    /\ txpool' = [txpool EXCEPT ![n] = {}]
    /\ chan' = Send(chan, n, broadcast_blocks(recv, n, "CompactBlock", <<head[n] + 1>>))
    /\ UNCHANGED <<recv, orphans, epoch, pushed, spoilt, epochs>>

\* A wallet pushes a transaction, to be fluffed at once or not
push_transaction(n, t, fluff) ==
    /\ n \in Wallet /\ t \notin pushed
    /\ pushed' = pushed \union {t}
    /\ add_to_pool(n, t, ~fluff, recv, chan)
    /\ UNCHANGED <<recv, head, header, orphans, content, spoilt, epochs>>

\* The Dandelion monitor fluffs a transaction: in a fluff epoch with the next
\* aggregate (process_fluff_phase), or when its embargo is over
\* (process_expired_entries).  With one transaction in the stempool both add
\* that transaction to the pool.
fluff_expired(n, t) ==
    /\ t \in stempool[n]
    /\ add_to_pool(n, t, FALSE, recv, chan)
    /\ UNCHANGED <<recv, head, header, orphans, epoch, content, pushed, spoilt, epochs>>

\* DandelionEpoch::next_epoch
next_epoch(n, stem, p) ==
    /\ p \in (IF Relays(n) = {} THEN {None} ELSE Relays(n))
    /\ epochs < MaxEpochs
    /\ epochs' = epochs + 1
    /\ epoch' = [epoch EXCEPT ![n] = [stem |-> stem, relay |-> p]]
    /\ UNCHANGED <<chan, recv, head, header, orphans, txpool, stempool, content, pushed, spoilt>>

Next == \/ \E n, m \in Node : consume(n, m)
        \/ \E n \in Node : mine(n)
        \/ \E n \in Node, t \in Tx, fluff \in BOOLEAN : push_transaction(n, t, fluff)
        \/ \E n \in Node, t \in Tx : fluff_expired(n, t)
        \/ \E n \in Node, stem \in BOOLEAN, p \in Node \union {None} : next_epoch(n, stem, p)

Spec == Init /\ [][Next]_vars

\* Some reader thread runs when there is a message, and so does the Dandelion
\* monitor
Work == \/ \E n, m \in Node : consume(n, m)
        \/ \E n \in Node, t \in Tx : fluff_expired(n, t)

FairSpec == Spec /\ WF_vars(Work)

-----------------------------------------------------------------------------
\* What push_recv notes of a peer is true: a block or transaction that is not
\* announced to a peer because of it is one the peer has, or has had.
SuppressedHas ==
    \A p \in Link :
        /\ \A h \in 1 .. MaxBlocks : Blk(h) \in recv[p] => h <= head[p[2]]
        /\ \A t \in Tx : Kernel(t) \in recv[p] => Known(p[2], t)

\* Every block mined and every transaction pushed has reached all nodes that are
\* not syncing, and nothing is under way.
Settled ==
    /\ \A p \in Link : chan[p] = <<>>
    /\ \A n \in Node \ Syncing : /\ head[n] = Len(content)
                                 /\ \A t \in pushed : Known(n, t)

\* In the end everything has reached everybody: through headers, compact blocks
\* that cannot be hydrated, missing parents, kernel hashes, and stem relays that
\* drop what they are sent.  Nothing that happens later takes it away, and the
\* nodes stop talking about it.
RelayReaches == <>[]Settled
=============================================================================
