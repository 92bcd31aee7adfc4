------------------------------- MODULE MCNode -------------------------------
(***************************************************************************)
(* The rules that need no other thread, in one run: blocks and their sums, *)
(* aggregation, difficulty, cycles, the wire formats and the keychain.  A  *)
(* behaviour is about one of them, `part' says which.                      *)
(***************************************************************************)
EXTENDS Ledger

CONSTANTS Txs, AcceptFeeBase, KeyHighBit

VARIABLES part, stem, chain, variant, edges, version, negotiated, wire, sent, got,
          words, master, ext, pub, view, output, found

cycleVars == <<variant, edges>>
wireVars == <<version, negotiated, wire, sent, got>>
keyVars == <<words, master, ext, pub, view, output, found>>
nodeVars == <<part, ledgerVars, stem, chain, cycleVars, wireVars, keyVars>>

\* The order a hash gives, and the digests keys are made from
MCHash(bs) ==
    LET H[i \in 1 .. Len(bs) + 1] ==
            IF i > Len(bs) THEN 1 ELSE (H[i + 1] * 37 + bs[i] + 11) % 7919
    IN  H[1]

Mix(x, y) == (((x * x) % 7919) * 3 + x * 211 + y * 13 + 7) % 7919
MCDigest(s) ==
    LET D[i \in 0 .. Len(s)] == IF i = 0 THEN 17 ELSE Mix(D[i - 1], s[i]) IN D[Len(s)]

\* A set of nodes a variant's edges may end in
MCNodes(v) == CASE v = "cuckatoo" -> {0, 1, 16, 17}
                [] v \in {"cuckaroo", "cuckarood"} -> {0, 1, 8}
                [] v = "solver" -> {0, 1, 2, 3}
                [] OTHER -> {0, 1, 2, 8}

A == INSTANCE Aggregation
D == INSTANCE Consensus WITH DmaWindow <- 3, BlockTime <- 60, HalfLife <- 14400,
        MinWtema <- 16384, HashBits <- 16, HfInterval <- 1, YearHeight <- 3, WeekHeight <- 1,
        RatioStep <- 1, FutureLimit <- 300, MaxBlockWeight <- 60, GenesisDifficulty <- 1,
        GenesisScaling <- 20, Gaps <- {1, 59, 60, 400}, Hashes <- {1, 65000}, MaxHeight <- 5
C == INSTANCE Cuckoo WITH ProofSize <- 4, Mask <- 7, EdgeMask <- 20, MaxSols <- 3,
        MaxEdges <- 5, NodesOf <- MCNodes
-----------------------------------------------------------------------------
(* Transactions: each spends what another makes; the fourth has a fee shift *)
(* and the fifth spends the same output as the fourth                       *)

Spend(f, v, k) == [kind |-> "input", features |-> f, commit |-> <<v, k>>]
Make(v, k) == [kind |-> "output", features |-> Plain, commit |-> <<v, k>>]

t1 == transaction(with_features(Plain, FeeFields(0, 46), 0),
                  <<Spend(Coinbase, 600, 1), Make(250, 2), Make(304, 4)>>, 100)
t2 == transaction(with_features(HeightLocked, FeeFields(0, 25), 2),
                  <<Spend(Plain, 250, 2), Make(225, 8)>>, 200)
t3 == transaction(with_features(NoRecentDuplicate, FeeFields(0, 26), 1),
                  <<Make(503, 16), Spend(Plain, 304, 4), Spend(Plain, 225, 8)>>, 400)
t4 == transaction(with_features(Plain, FeeFields(1, 50), 0),
                  <<Make(254, 32), Spend(Plain, 304, 4)>>, 28)
t5 == transaction(with_features(Plain, FeeFields(0, 46), 0),
                  <<Make(300, 64), Spend(Plain, 304, 4)>>, 800)

MCTxs == {t1, t2, t3, t4, t5}

MCPools == {<<>>, <<t1>>, <<t2>>, <<t3>>, <<t4>>, <<t5>>, <<t1, t2>>, <<t2, t1>>, <<t2, t3>>,
            <<t1, t4>>, <<t3, t1, t2>>, <<t4, t2>>, <<aggregate(<<t1, t2>>).tx>>,
            <<aggregate(<<t1, t2>>).tx, t3>>, <<t1, aggregate(<<t3, t2>>).tx>>, <<t2, t1, t4>>}

-----------------------------------------------------------------------------
(* Messages of every type and records of every kind, with the cases their  *)
(* formats tell apart; F is for the names of formats and orders only       *)

F == INSTANCE Wire WITH Versions <- {1, 2, 3}, DbVersion <- 3, Genesis <- 77,
        UserAgent <- [len |-> 14, id |-> "ua"], Messages <- {},
        Records <- {}, NrdEnabled <- TRUE, MaxRelativeHeight <- 10, ProofSize <- 8,
        MaxBlockWeight <- 250, MaxLocators <- 3, MaxPeerAddrs <- 4, MaxBlockHeaders <- 3,
        BlockBits <- 32, ChunkBits <- 8, MaxSegmentHeight <- 11, Hash <- MCHash

UA == [len |-> 14, id |-> "ua"]
Id(f, c) == [features |-> f, commit |-> c]
Out(c) == [identifier |-> Id(c % 2, c), proof |-> [len |-> 675, of |-> c]]
Kern(t, e) ==
    [features |-> CASE t = F!Coinbase -> [t |-> t]
                    [] t = F!Plain -> [t |-> t, fee |-> 300]
                    [] t = F!HeightLocked -> [t |-> t, fee |-> 20, lock_height |-> 70]
                    [] t = F!NoRecentDuplicate -> [t |-> t, fee |-> 20, relative_height |-> 5],
     excess |-> e, excess_sig |-> e + 1]

Outs == F!SortBy(F!OutputKey, <<Out(5), Out(6), Out(9)>>)
Kerns == F!SortBy(F!KernelKey, [t \in 1 .. 4 |-> Kern(t - 1, 20 + t)])
Ins == {F!FeaturesAndCommit(F!SortBy(F!InputKey, <<Id(0, 30), Id(1, 31), Id(0, 34), Id(1, 37)>>)),
        F!CommitOnly(F!SortBy(F!CommitKey, <<30, 31, 34, 37>>)), F!CommitOnly(<<>>)}
Body(i) == [inputs |-> i, outputs |-> Outs, kernels |-> Kerns]
Hdr(b) ==
    [version |-> 4, height |-> 7, timestamp |-> 11, prev_hash |-> 1, prev_root |-> 2,
     output_root |-> 3, range_proof_root |-> 4, kernel_root |-> 5, total_kernel_offset |-> 6,
     output_mmr_size |-> 19, kernel_mmr_size |-> 15,
     pow |-> [total_difficulty |-> 8, secondary_scaling |-> 9, nonce |-> 10,
              proof |-> [edge_bits |-> b,
                         nonces |-> [i \in 1 .. 8 |->
                                       {x \in 0 .. b - 1 : i > 4 \/ (x * i) % 3 = 0}]]]]

V4 == [v6 |-> FALSE, hi |-> 0, lo |-> 7, port |-> 13414]
V6(h) == [v6 |-> TRUE, hi |-> h, lo |-> 9, port |-> 3414]
SegId == [height |-> 3, idx |-> 2]
Seg(l) == [block_hash |-> 3,
           segment |-> [identifier |-> SegId, hashes |-> <<<<0, 41>>, <<3, 42>>>>,
                        leaves |-> l, proof |-> <<43, 44>>]]

\* n chunks of which the first k bits are on, or all others
Bitmap(n, k, inv) ==
    [c \in 1 .. n |-> LET on == {x \in 0 .. 7 : (c - 1) * 8 + x < k}
                      IN  IF inv THEN (0 .. 7) \ on ELSE on]
BitmapSeg(n, k, inv) ==
    [block_hash |-> 3, output_root |-> 4,
     segment |-> [identifier |-> SegId, chunks |-> Bitmap(n, k, inv), proof |-> <<45>>]]

M(t, x) == [type |-> t, x |-> x]
Many(n, x) == [i \in 1 .. n |-> x]

MCMessages ==
    {M(t, [hash |-> 5]) : t \in F!HashMessages}
    \cup {M(t, [block_hash |-> 5, identifier |-> SegId]) : t \in F!SegmentRequests}
    \cup {M(t, [total_difficulty |-> 5, height |-> 6]) : t \in {"Ping", "Pong"}}
    \cup {M("GetPeerAddrs", [capabilities |-> 37]), M("PeerAddrs", [peers |-> <<>>]),
          M("PeerAddrs", [peers |-> [i \in 1 .. 4 |-> IF i = 1 THEN V4 ELSE V6(i - 2)]]),
          M("GetHeaders", [hashes |-> Many(3, 5)]), M("Headers", [headers |-> Many(3, Hdr(63))]),
          M("GetHeaderSegment", SegId),
          M("HeaderSegment", [identifier |-> SegId, headers |-> <<Hdr(31), Hdr(32)>>]),
          M("CompactBlock", [header |-> Hdr(32), nonce |-> 4,
                             body |-> [out_full |-> Outs, kern_full |-> Kerns,
                                       kern_ids |-> F!SortBy(LAMBDA x : F!HashOf(F!ShortId, x),
                                                             <<1, 2, 3>>)]]),
          M("TxHashSetRequest", [hash |-> 4, height |-> 8]),
          M("TxHashSetArchive", [hash |-> 4, height |-> 8, bytes |-> 9]),
          M("OutputSegment", [response |-> Seg(<<<<1, Id(0, 5)>>, <<4, Id(1, 6)>>>>),
                              output_bitmap_root |-> 12]),
          M("RangeProofSegment", Seg(<<<<1, [len |-> 675, of |-> 1]>>>>)),
          M("KernelSegment", Seg([i \in 1 .. 4 |-> <<i, Kerns[i]>>]))}
    \cup {M("Header", Hdr(b)) : b \in {8, 9, 29, 31, 32, 57, 58, 60, 61, 63}}
    \cup {M("BanReason", [ban_reason |-> r]) : r \in {0, 7}}
    \cup {M(t, [offset |-> 6, body |-> Body(i)]) :
              t \in {"Transaction", "StemTransaction"}, i \in Ins}
    \cup {M("Block", [header |-> Hdr(32), body |-> Body(i)]) : i \in Ins}
    \cup {M("OutputBitmapSegment", BitmapSeg(n, k, inv)) :
              n \in {1, 4, 5, 8}, k \in {0, 1, 2, 7, 8}, inv \in BOOLEAN}

Pos(p) == [pos |-> p, height |-> 2]

MCRecords ==
    {M("CommitPos", Pos(3)),
     M("Tip", [height |-> 2, last_block_h |-> 3, prev_block_h |-> 4, total_difficulty |-> 5]),
     M("BlockSums", [utxo_sum |-> 3, kernel_sum |-> 4]), M("SizeEntry", [offset |-> 3, size |-> 4]),
     M("MerkleProof", [mmr_size |-> 5, path |-> <<6, 7>>]),
     M("ListWrapper", [t |-> F!Single, pos |-> Pos(3)]),
     M("ListWrapper", [t |-> F!Multi, head |-> 4, tail |-> 2]),
     M("ListEntry", [t |-> F!ListHead, pos |-> Pos(4), next |-> 3]),
     M("ListEntry", [t |-> F!ListTail, pos |-> Pos(2), prev |-> 3]),
     M("ListEntry", [t |-> F!ListMiddle, pos |-> Pos(3), next |-> 2, prev |-> 4]),
     M("HeaderEntry", [hash |-> 2, timestamp |-> 3, total_difficulty |-> 4,
                       secondary_scaling |-> 5, is_secondary |-> 1]),
     M("BlockHeader", Hdr(31))}
    \cup {M("BoolFlag", [flag |-> b]) : b \in {0, 1}}
    \cup {M("Block", [header |-> Hdr(32), body |-> Body(i)]) : i \in Ins}
    \cup {M("PeerData", [addr |-> a, capabilities |-> 37, user_agent |-> UA, flags |-> f,
                         last_banned |-> 3, ban_reason |-> 4, last_connected |-> 5,
                         last_attempt |-> 6]) : a \in {V4, V6(1), V6(2)}, f \in F!PeerStates}

W == INSTANCE Wire WITH Versions <- {1, 2, 3}, DbVersion <- 3, Genesis <- 77,
        UserAgent <- [len |-> 14, id |-> "ua"], Messages <- MCMessages,
        Records <- MCRecords, NrdEnabled <- TRUE, MaxRelativeHeight <- 10, ProofSize <- 8,
        MaxBlockWeight <- 250, MaxLocators <- 3, MaxPeerAddrs <- 4, MaxBlockHeaders <- 3,
        BlockBits <- 32, ChunkBits <- 8, MaxSegmentHeight <- 11, Hash <- MCHash

-----------------------------------------------------------------------------
(* Entropies of all zeros, all ones and a mixture; paths of every depth,   *)
(* some with a hardened child                                              *)

MCEntropies == {[i \in 1 .. 16 |-> {}], [i \in 1 .. 20 |-> {b \in 0 .. 7 : (b + i) % 3 = 0}],
                [i \in 1 .. 24 |-> 0 .. 7]}

MCPaths == {<<0, <<0, 0, 0, 0>>>>, <<1, <<1, 0, 0, 0>>>>, <<2, <<0, 1, 0, 0>>>>,
            <<3, <<0, 1, 1, 0>>>>, <<3, <<0, 1, 1, 1>>>>, <<3, <<KeyHighBit, 1, 0, 0>>>>,
            <<3, <<0, KeyHighBit + 1, 1, 0>>>>, <<4, <<0, 1, 1, 1>>>>, <<4, <<1, 1, 0, KeyHighBit>>>>}

K == INSTANCE Keychain WITH Q <- 7919, Digest <- MCDigest, HighBit <- KeyHighBit,
        Entropies <- MCEntropies, ChildNumbers <- {0, 1, KeyHighBit + 1}, Paths <- MCPaths,
        Amounts <- {0, 5}, MaxDepth <- 2

-----------------------------------------------------------------------------
\* The part under way starts as its module says, the others rest
NodeInit ==
    /\ part \in {"ledger", "aggregation", "difficulty", "cycles", "wire", "keys"}
    /\ Init /\ A!Init /\ D!Init
    /\ IF part = "cycles" THEN C!Init ELSE variant = "solver" /\ edges = <<>>
    /\ IF part = "wire" THEN W!Init
       ELSE /\ version = [n \in W!Nodes |-> 1] /\ negotiated = [n \in W!Nodes |-> 0]
            /\ wire = [n \in W!Nodes |-> <<>>] /\ sent = W!Nothing /\ got = W!None
    /\ IF part = "keys" THEN K!Init
       ELSE /\ words = 0 /\ master = K!Error /\ ext = K!Error /\ pub = K!Error
            /\ view = K!Error /\ output = K!NoOutput /\ found = K!Nobody

NodeNext ==
    /\ part' = part
    /\ \/ part = "ledger" /\ Next
          /\ UNCHANGED <<stem, chain, cycleVars, wireVars, keyVars>>
       \/ part = "aggregation" /\ A!Next
          /\ UNCHANGED <<ledgerVars, chain, cycleVars, wireVars, keyVars>>
       \/ part = "difficulty" /\ D!Next
          /\ UNCHANGED <<ledgerVars, stem, cycleVars, wireVars, keyVars>>
       \/ part = "cycles" /\ C!Next
          /\ UNCHANGED <<ledgerVars, stem, chain, wireVars, keyVars>>
       \/ part = "wire" /\ W!Next
          /\ UNCHANGED <<ledgerVars, stem, chain, cycleVars, keyVars>>
       \/ part = "keys" /\ K!Next
          /\ UNCHANGED <<ledgerVars, stem, chain, cycleVars, wireVars>>

NodeSpec == NodeInit /\ [][NodeNext]_nodeVars

-----------------------------------------------------------------------------
\* No block makes or loses coins (Ledger!SupplyKept).
NoInflation == part = "ledger" => SupplyKept


\* An aggregate is the sum of its parts and comes apart again
\* (Aggregation!AggregateIsSum).
AggregatesAdd == part = "aggregation" => A!AggregateIsSum

\* The target follows the time blocks take (Consensus!DifficultyResponds).
TargetFollows == part = "difficulty" => D!DifficultyResponds

\* Five verifiers accept cycles only and all of them, and the solver finds the
\* cycles there are (Cuckoo!VerifyIsCycle, Cuckoo!SolverFinds).
CyclesExact == part = "cycles" => C!VerifyIsCycle /\ C!SolverFinds


\* Private, public and view keys of a path agree, and an output is found again by
\* those who may (Keychain!KeysAgree, Keychain!RewindFinds).
KeysFit == part = "keys" => K!KeysAgree /\ K!RewindFinds
=============================================================================
