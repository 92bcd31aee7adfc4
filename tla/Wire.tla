-------------------------------- MODULE Wire --------------------------------
(***************************************************************************)
(* The binary format of messages and records (core/src/ser.rs and the      *)
(* Writeable and Readable of every type): two nodes agree on a protocol     *)
(* version in the handshake, exchange messages written and read at that     *)
(* version, and keep records in a store written and read at its own.        *)
(*                                                                         *)
(* An encoding is a sequence of fields <<width in bytes, value>>.  A reader *)
(* takes them one by one and fails on a field of another width, which for   *)
(* bytes would be a misaligned read.  A format describes what one           *)
(* `write` emits or one `read` expects.                                     *)
(***************************************************************************)
EXTENDS Integers, Sequences, FiniteSets, TLC

CONSTANTS Versions,       \* protocol versions the two nodes may be built with
          DbVersion,      \* DEFAULT_DB_VERSION
          Genesis, UserAgent,
          Messages,       \* what may be sent: type and content
          Records,        \* what may be stored: format name and content
          NrdEnabled, MaxRelativeHeight, ProofSize,
          MaxBlockWeight, MaxLocators, MaxPeerAddrs, MaxBlockHeaders,
          BlockBits, ChunkBits, MaxSegmentHeight,
          Hash(_)         \* the order of inputs, outputs, kernels and short ids

VARIABLES version,        \* of each node, as built
          negotiated,     \* of each node, once its half of the handshake is done
          wire,           \* what the other node has not read yet
          sent, got       \* the last message or record, and what its reader made of it

wireVars == <<version, negotiated, wire, sent, got>>

-----------------------------------------------------------------------------
\* Formats

FixedBytes(n) == [k |-> "uint", w |-> n]
U8 == FixedBytes(1)
U16 == FixedBytes(2)
U32 == FixedBytes(4)
U64 == FixedBytes(8)
\* A number the reader accepts only from a set
OneOf(w, S) == [k |-> "oneof", w |-> w, set |-> S]
\* A number whose high part the reader drops
Masked(w, n) == [k |-> "masked", w |-> w, n |-> n]
\* What a reader does without when nothing is left
Optional(item, default) == [k |-> "optional", item |-> item, default |-> default]
EmptyBytes(n) == [k |-> "empty", w |-> n]
LenPrefixed == [k |-> "bytes"]
Struct(fields) == [k |-> "struct", fields |-> fields]
\* A tag byte and what belongs to it
Variant(alts) == [k |-> "variant", alts |-> alts]
\* A count and as many items
Counted(w, item, max) == [k |-> "counted", w |-> w, item |-> item, max |-> max]
\* A count, as many 1-based positions in ascending order, as many items
Positioned(item) == [k |-> "positioned", item |-> item]
\* What has a writer and a reader of its own, at a version
Custom(name, v) == [k |-> name, v |-> v]

RECURSIVE Write(_, _), Read(_, _), Concat(_), ReadItems(_, _, _), ReadFields(_, _, _)

\* A number is cut to the width of its field
Fit(w, x) == IF w <= 2 THEN x % 256 ^ w ELSE x

Concat(ss) == IF ss = <<>> THEN <<>> ELSE Head(ss) \o Concat(Tail(ss))
WriteAll(f, xs) == Concat([i \in DOMAIN xs |-> Write(f, xs[i])])
Length(s) == IF s = <<>> THEN 0 ELSE LET w[i \in 0 .. Len(s)] == IF i = 0 THEN 0 ELSE w[i - 1] + s[i][1]
                                     IN  w[Len(s)]

\* A reader gives what it read and what is left, or an error
Bad == [ok |-> FALSE, val |-> 0, rest |-> <<>>]
Good(x, s) == [ok |-> TRUE, val |-> x, rest |-> s]
Take(s, w) == IF s # <<>> /\ s[1][1] = w THEN Good(s[1][2], Tail(s)) ELSE Bad
When(cond, r) == IF r.ok /\ cond THEN r ELSE Bad
Then(r, Op(_, _)) == IF r.ok THEN Op(r.val, r.rest) ELSE Bad

\* read_multi: as many items as announced, or an error
ReadItems(f, n, s) ==
    IF n = 0 THEN Good(<<>>, s)
    ELSE Then(Read(f, s), LAMBDA x, r : Then(ReadItems(f, n - 1, r), LAMBDA xs, q : Good(<<x>> \o xs, q)))

ReadFields(fields, i, s) ==
    IF i > Len(fields) THEN Good([n \in {} |-> 0], s)
    ELSE Then(Read(fields[i][2], s), LAMBDA x, r :
             Then(ReadFields(fields, i + 1, r), LAMBDA xs, q :
                 Good(IF fields[i][1] = "" THEN xs ELSE (fields[i][1] :> x) @@ xs, q)))

Ascending(s) == \A i \in 2 .. Len(s) : s[i - 1] < s[i]
Each(Op(_), s) == [i \in DOMAIN s |-> Op(s[i])]

-----------------------------------------------------------------------------
\* Parts of transactions

OutputFeatures == OneOf(1, {0, 1})
Commitment == FixedBytes(33)
HashFormat == FixedBytes(32)
BlindingFactor == FixedBytes(32)
ShortId == FixedBytes(6)
Signature == FixedBytes(64)
RangeProof == LenPrefixed
FeeFields == U64
NRDRelativeHeight == OneOf(2, 1 .. MaxRelativeHeight)
Difficulty == U64

InputW == Struct(<<<<"features", OutputFeatures>>, <<"commit", Commitment>>>>)
InputR == Struct(<<<<"features", OutputFeatures>>, <<"commit", Commitment>>>>)
OutputIdentifierW == Struct(<<<<"features", OutputFeatures>>, <<"commit", Commitment>>>>)
OutputIdentifierR == Struct(<<<<"features", OutputFeatures>>, <<"commit", Commitment>>>>)
OutputW == Struct(<<<<"identifier", OutputIdentifierW>>, <<"proof", RangeProof>>>>)
OutputR == Struct(<<<<"identifier", OutputIdentifierR>>, <<"proof", RangeProof>>>>)

Plain == 0
Coinbase == 1
HeightLocked == 2
NoRecentDuplicate == 3

\* Always 8 bytes of fee and 8 bytes of data
write_v1 == Variant(
    (Plain :> Struct(<<<<"fee", FeeFields>>, <<"", EmptyBytes(8)>>>>)) @@
    (Coinbase :> Struct(<<<<"", EmptyBytes(16)>>>>)) @@
    (HeightLocked :> Struct(<<<<"fee", FeeFields>>, <<"lock_height", U64>>>>)) @@
    (NoRecentDuplicate :> Struct(<<<<"fee", FeeFields>>, <<"", EmptyBytes(6)>>,
                                   <<"relative_height", NRDRelativeHeight>>>>)))


\* Only what the variant has
write_v2 == Variant(
    (Plain :> Struct(<<<<"fee", FeeFields>>>>)) @@
    (Coinbase :> Struct(<<>>)) @@
    (HeightLocked :> Struct(<<<<"fee", FeeFields>>, <<"lock_height", U64>>>>)) @@
    (NoRecentDuplicate :> Struct(<<<<"fee", FeeFields>>, <<"relative_height", NRDRelativeHeight>>>>)))

\* A reader without NRD kernels knows three variants
Known(alts) == Variant([t \in {x \in DOMAIN alts : x = NoRecentDuplicate => NrdEnabled} |-> alts[t]])

read_v1 == Known(
    (Plain :> Struct(<<<<"fee", FeeFields>>, <<"", EmptyBytes(8)>>>>)) @@
    (Coinbase :> Struct(<<<<"", EmptyBytes(16)>>>>)) @@
    (HeightLocked :> Struct(<<<<"fee", FeeFields>>, <<"lock_height", U64>>>>)) @@
    (NoRecentDuplicate :> Struct(<<<<"fee", FeeFields>>, <<"", EmptyBytes(6)>>,
                                   <<"relative_height", NRDRelativeHeight>>>>)))

read_v2 == Known(
    (Plain :> Struct(<<<<"fee", FeeFields>>>>)) @@
    (Coinbase :> Struct(<<>>)) @@
    (HeightLocked :> Struct(<<<<"fee", FeeFields>>, <<"lock_height", U64>>>>)) @@
    (NoRecentDuplicate :> Struct(<<<<"fee", FeeFields>>, <<"relative_height", NRDRelativeHeight>>>>)))

KernelFeaturesW(v) == IF v <= 1 THEN write_v1 ELSE write_v2
KernelFeaturesR(v) == IF v <= 1 THEN read_v1 ELSE read_v2
TxKernelW(v) == Struct(<<<<"features", KernelFeaturesW(v)>>, <<"excess", Commitment>>, <<"excess_sig", Signature>>>>)
TxKernelR(v) == Struct(<<<<"features", KernelFeaturesR(v)>>, <<"excess", Commitment>>, <<"excess_sig", Signature>>>>)

\* Everything is sorted by the hash of what is written for hashing
HashOf(f, x) == Hash(Each(LAMBDA t : t[2], Write(f, x)))
InputKey(x) == HashOf(InputW, x)
CommitKey(x) == HashOf(Commitment, x)
OutputKey(x) == HashOf(OutputIdentifierW, x.identifier)
KernelKey(x) == HashOf(TxKernelW(1), x)
SortBy(Key(_), s) == SortSeq(s, LAMBDA a, b : Key(a) < Key(b))
verify_sorted_and_unique(keys) == Ascending(keys)

-----------------------------------------------------------------------------
\* Bodies.  Inputs are commitments, or commitments with the features of the
\* outputs they spend

CommitOnly(s) == [kind |-> "commit_only", list |-> s]
FeaturesAndCommit(s) == [kind |-> "features_and_commit", list |-> s]

\* The commitments of inputs, in their own order
IntoCommits(inputs) ==
    IF inputs.kind = "commit_only" THEN inputs.list
    ELSE SortBy(CommitKey, Each(LAMBDA i : i.commit, inputs.list))

InputsW(inputs, v) == IF v >= 3 THEN WriteAll(Commitment, IntoCommits(inputs)) ELSE WriteAll(InputW, inputs.list)
\* Commitments alone cannot be written before version 3
UnsupportedInputs(inputs, v) == inputs.kind = "commit_only" /\ inputs.list # <<>> /\ v <= 2

weight_by_iok(i, o, k) == i + 21 * o + 3 * k
Counts(a, b, c) == <<<<8, Len(a)>>, <<8, Len(b)>>, <<8, Len(c)>>>>
ThreeCounts(s) == ReadItems(U64, 3, s)

BodyW(x, v) ==
    Counts(x.inputs.list, x.outputs, x.kernels) \o InputsW(x.inputs, v)
        \o WriteAll(OutputW, x.outputs) \o WriteAll(TxKernelW(v), x.kernels)

InputsSorted(inputs) ==
    IF inputs.kind = "commit_only" THEN verify_sorted_and_unique(Each(CommitKey, inputs.list))
    ELSE verify_sorted_and_unique(Each(InputKey, inputs.list))

BodyR(s, v) ==
    Then(ThreeCounts(s), LAMBDA n, r0 :
    IF weight_by_iok(n[1], n[2], n[3]) > MaxBlockWeight THEN Bad ELSE
    Then(ReadItems(IF v <= 2 THEN InputR ELSE Commitment, n[1], r0), LAMBDA i, r1 :
    Then(ReadItems(OutputR, n[2], r1), LAMBDA o, r2 :
    Then(ReadItems(TxKernelR(v), n[3], r2), LAMBDA k, r3 :
        LET inputs == IF v <= 2 THEN FeaturesAndCommit(i) ELSE CommitOnly(i)
        IN  When(/\ InputsSorted(inputs)
                 /\ verify_sorted_and_unique(Each(OutputKey, o))
                 /\ verify_sorted_and_unique(Each(KernelKey, k)),
                 Good([inputs |-> inputs, outputs |-> o, kernels |-> k], r3))))))

CompactBodyW(x, v) ==
    Counts(x.out_full, x.kern_full, x.kern_ids) \o WriteAll(OutputW, x.out_full)
        \o WriteAll(TxKernelW(v), x.kern_full) \o WriteAll(ShortId, x.kern_ids)

CompactBodyR(s, v) ==
    Then(ThreeCounts(s), LAMBDA n, r0 :
    Then(ReadItems(OutputR, n[1], r0), LAMBDA o, r1 :
    Then(ReadItems(TxKernelR(v), n[2], r1), LAMBDA k, r2 :
    Then(ReadItems(ShortId, n[3], r2), LAMBDA ids, r3 :
        When(/\ verify_sorted_and_unique(Each(OutputKey, o))
             /\ verify_sorted_and_unique(Each(KernelKey, k))
             /\ verify_sorted_and_unique(Each(LAMBDA x : HashOf(ShortId, x), ids)),
             Good([out_full |-> o, kern_full |-> k, kern_ids |-> ids], r3))))))

-----------------------------------------------------------------------------
\* Headers, blocks, transactions

pack_len(edge_bits) == (edge_bits * ProofSize + 7) \div 8

\* Numbers of up to 64 bits and runs of bytes are the sets of their bits that are
\* on; a shift drops what it moves out of 64
Shl(x, n) == {b + n : b \in x} \cap 0 .. 63
Shr(x, n) == {b - n : b \in {c \in x : c >= n}}

\* The numbers one after another: they gather in a buffer of 64 bits, which is
\* copied out when it is full
pack_bits(bit_width, nonces) ==
    LET Step[i \in 0 .. Len(nonces)] ==
            IF i = 0 THEN [mini_buffer |-> {}, remaining |-> 64, out |-> {}, from |-> 0]
            ELSE LET s == Step[i - 1]
                     el == nonces[i]
                     buffer == s.mini_buffer \cup Shl(el, 64 - s.remaining)
                 IN  IF bit_width < s.remaining
                     THEN [s EXCEPT !.mini_buffer = buffer, !.remaining = @ - bit_width]
                     ELSE [mini_buffer |-> Shr(el, s.remaining), remaining |-> 64 + s.remaining - bit_width,
                           out |-> s.out \cup {b + s.from : b \in buffer}, from |-> s.from + 64]
        end == Step[Len(nonces)]
        left == 8 * pack_len(bit_width) - end.from
        remainder == IF left % 64 = 0 THEN 64 ELSE left % 64
    IN  end.out \cup {b + end.from : b \in end.mini_buffer \cap 0 .. remainder - 1}

extract_bits(bits, bit_start, bit_count, read_from) ==
    Shr({b - 8 * read_from : b \in bits \cap 8 * read_from .. 8 * read_from + 63}, bit_start - 8 * read_from)
        \cap 0 .. bit_count - 1

\* Eight bytes are read at a time: near the end they start earlier, and a number
\* that reaches into a ninth is read in two parts
read_number(bits, len, bit_start, bit_count) ==
    LET read_from == IF bit_start \div 8 + 8 > len THEN len - 8 ELSE bit_start \div 8
    IN  IF bit_start + bit_count <= 8 * (read_from + 8) THEN extract_bits(bits, bit_start, bit_count, read_from)
        ELSE extract_bits(bits, bit_start, 8, read_from)
             \cup Shl(extract_bits(bits, bit_start + 8, bit_count - 8, read_from + 1), 8)

ProofW(x) == <<<<1, x.edge_bits>>, <<pack_len(x.edge_bits), pack_bits(x.edge_bits, x.nonces)>>>>
ProofR(s) ==
    Then(Take(s, 1), LAMBDA bits, r :
        LET len == pack_len(bits)
            end_of_data == bits * ProofSize
        IN  IF bits \notin 1 .. 63 \/ len < 8 THEN Bad
            ELSE Then(Take(r, len), LAMBDA x, q :
                     When(read_number(x, len, end_of_data, 8 * len - end_of_data) = {},
                          Good([edge_bits |-> bits,
                                nonces |-> [i \in 1 .. ProofSize |-> read_number(x, len, (i - 1) * bits, bits)]], q))))

ProofOfWorkW == Struct(<<<<"total_difficulty", Difficulty>>, <<"secondary_scaling", U32>>, <<"nonce", U64>>,
                         <<"proof", Custom("proof", 0)>>>>)
ProofOfWorkR == Struct(<<<<"total_difficulty", Difficulty>>, <<"secondary_scaling", U32>>, <<"nonce", U64>>,
                         <<"proof", Custom("proof", 0)>>>>)

write_pre_pow == <<<<"version", U16>>, <<"height", U64>>, <<"timestamp", U64>>, <<"prev_hash", HashFormat>>,
                   <<"prev_root", HashFormat>>, <<"output_root", HashFormat>>, <<"range_proof_root", HashFormat>>,
                   <<"kernel_root", HashFormat>>, <<"total_kernel_offset", BlindingFactor>>,
                   <<"output_mmr_size", U64>>, <<"kernel_mmr_size", U64>>>>
BlockHeaderW == Struct(write_pre_pow \o <<<<"pow", ProofOfWorkW>>>>)
read_block_header == Struct(
    <<<<"version", U16>>, <<"height", U64>>, <<"timestamp", U64>>, <<"prev_hash", HashFormat>>,
      <<"prev_root", HashFormat>>, <<"output_root", HashFormat>>, <<"range_proof_root", HashFormat>>,
      <<"kernel_root", HashFormat>>, <<"total_kernel_offset", BlindingFactor>>,
      <<"output_mmr_size", U64>>, <<"kernel_mmr_size", U64>>, <<"pow", ProofOfWorkR>>>>)

HeaderEntryW == Struct(<<<<"hash", HashFormat>>, <<"timestamp", U64>>, <<"total_difficulty", Difficulty>>,
                         <<"secondary_scaling", U32>>, <<"is_secondary", U8>>>>)
HeaderEntryR == Struct(<<<<"hash", HashFormat>>, <<"timestamp", U64>>, <<"total_difficulty", Difficulty>>,
                         <<"secondary_scaling", U32>>, <<"is_secondary", U8>>>>)

TransactionW(v) == Struct(<<<<"offset", BlindingFactor>>, <<"body", Custom("body", v)>>>>)
TransactionR(v) == Struct(<<<<"offset", BlindingFactor>>, <<"body", Custom("body", v)>>>>)
BlockW(v) == Struct(<<<<"header", BlockHeaderW>>, <<"body", Custom("body", v)>>>>)
BlockR(v) == Struct(<<<<"header", read_block_header>>, <<"body", Custom("body", v)>>>>)
CompactBlockW(v) == Struct(<<<<"header", BlockHeaderW>>, <<"nonce", U64>>, <<"body", Custom("compact", v)>>>>)
CompactBlockR(v) == Struct(<<<<"header", read_block_header>>, <<"nonce", U64>>, <<"body", Custom("compact", v)>>>>)

-----------------------------------------------------------------------------
\* Segments

SegmentIdentifierW == Struct(<<<<"height", U8>>, <<"idx", U64>>>>)
SegmentIdentifierR == Struct(<<<<"height", U8>>, <<"idx", U64>>>>)
MaxSegmentItems == 1000000
SegmentProofW == Counted(8, HashFormat, MaxSegmentItems)
SegmentProofR == Counted(8, HashFormat, MaxSegmentItems)
SegmentW(item) == Struct(<<<<"identifier", SegmentIdentifierW>>, <<"hashes", Positioned(HashFormat)>>,
                           <<"leaves", Positioned(item)>>, <<"proof", SegmentProofW>>>>)
SegmentR(item) == Struct(<<<<"identifier", SegmentIdentifierR>>, <<"hashes", Positioned(HashFormat)>>,
                           <<"leaves", Positioned(item)>>, <<"proof", SegmentProofR>>>>)

\* Items of a list of <<position, item>>
PositionedW(item, x) ==
    <<<<8, Len(x)>>>> \o Concat([i \in DOMAIN x |-> <<<<8, x[i][1] + 1>>>>])
        \o Concat([i \in DOMAIN x |-> Write(item, x[i][2])])
read_segment_positions(s, n) ==
    Then(ReadItems(U64, n, s), LAMBDA ps, r : When(Ascending(<<0>> \o ps), Good(Each(LAMBDA p : p - 1, ps), r)))
PositionedR(item, s) ==
    Then(Take(s, 8), LAMBDA n, r0 :
    IF n > MaxSegmentItems THEN Bad ELSE
    Then(read_segment_positions(r0, n), LAMBDA ps, r1 :
    Then(ReadItems(item, n, r1), LAMBDA xs, r2 : Good([i \in DOMAIN ps |-> <<ps[i], xs[i]>>], r2))))

\* A block of bits as the set of those that are on
BlockChunks == BlockBits \div ChunkBits
Threshold == BlockBits \div 16
Sorted(S) == [i \in 1 .. Cardinality(S) |-> CHOOSE x \in S : Cardinality({y \in S : y < x}) = i - 1]
Positions(S) == <<<<2, Cardinality(S)>>>> \o Each(LAMBDA i : <<2, i>>, Sorted(S))

\* The positions that are on, those that are off, or all bits
BitmapBlockW(x) ==
    LET all == 0 .. x.chunks * ChunkBits - 1
        off == all \ x.on
    IN  <<<<1, x.chunks>>>> \o
        (IF Cardinality(x.on) < Threshold THEN <<<<1, 1>>>> \o Positions(x.on)
         ELSE IF Cardinality(off) < Threshold THEN <<<<1, 2>>>> \o Positions(off)
         ELSE <<<<1, 0>>, <<Cardinality(all) \div 8, x.on>>>>)

BitmapBlockR(s) ==
    Then(Take(s, 1), LAMBDA chunks, r0 :
    IF chunks > BlockChunks THEN Bad ELSE
    Then(Read(OneOf(1, 0 .. 2), r0), LAMBDA mode, r1 :
        LET all == 0 .. chunks * ChunkBits - 1
        IN  IF mode = 0
            THEN Then(Take(r1, Cardinality(all) \div 8), LAMBDA on, r2 : Good([chunks |-> chunks, on |-> on], r2))
            ELSE Then(Take(r1, 2), LAMBDA n, r2 :
                 Then(ReadItems(OneOf(2, all), n, r2), LAMBDA ps, r3 :
                     LET S == {ps[i] : i \in DOMAIN ps}
                     IN  Good([chunks |-> chunks, on |-> IF mode = 1 THEN S ELSE all \ S], r3)))))

\* From chunks to blocks: as many full blocks as there are, and a shorter one
IntoBlocks(chunks) ==
    LET n == (Len(chunks) + BlockChunks - 1) \div BlockChunks
        In(b) == {c \in DOMAIN chunks : (c - 1) \div BlockChunks = b - 1}
    IN  [b \in 1 .. n |->
            [chunks |-> Cardinality(In(b)),
             on |-> UNION {{((c - 1) % BlockChunks) * ChunkBits + i : i \in chunks[c]} : c \in In(b)}]]

\* and back
n_chunks(blocks) == (Len(blocks) - 1) * BlockChunks + blocks[Len(blocks)].chunks
IntoChunks(blocks) ==
    [c \in 1 .. n_chunks(blocks) |->
        LET b == (c - 1) \div BlockChunks + 1
            from == ((c - 1) % BlockChunks) * ChunkBits
        IN  {i - from : i \in {x \in blocks[b].on : x \in from .. from + ChunkBits - 1}}]

validate_blocks(id, blocks) ==
    /\ \A b \in 1 .. Len(blocks) - 1 : blocks[b].chunks = BlockChunks
    /\ blocks[Len(blocks)].chunks # 0
    /\ n_chunks(blocks) <= 2 ^ id.height

BitmapSegmentW(x) ==
    LET blocks == IntoBlocks(x.chunks)
    IN  Write(SegmentIdentifierW, x.identifier) \o <<<<2, Len(blocks)>>>> \o WriteAll(Custom("block", 0), blocks)
            \o Write(SegmentProofW, x.proof)

BitmapSegmentR(s) ==
    Then(Read(SegmentIdentifierR, s), LAMBDA id, r0 :
    Then(Take(r0, 2), LAMBDA n, r1 :
    IF \/ n = 0
       \/ id.height > MaxSegmentHeight
       \/ n > (2 ^ id.height + BlockChunks - 1) \div BlockChunks
    THEN Bad ELSE
    Then(ReadItems(Custom("block", 0), n, r1), LAMBDA blocks, r2 :
    IF ~validate_blocks(id, blocks) THEN Bad ELSE
    Then(Read(SegmentProofR, r2), LAMBDA proof, r3 :
        Good([identifier |-> id, chunks |-> IntoChunks(blocks), proof |-> proof], r3)))))

-----------------------------------------------------------------------------
\* Messages

\* An address; an IPv6 address is told by its first 96 bits, which say whether it
\* is IPv4-compatible (0) or IPv4-mapped (1), and its last 32
PeerAddrW(a) ==
    (IF a.v6 THEN <<<<1, 1>>>> \o [i \in 1 .. 8 |-> <<2, IF i <= 6 THEN a.hi ELSE a.lo>>]
             ELSE <<<<1, 0>>, <<4, a.lo>>>>) \o <<<<2, a.port>>>>
PeerAddrR(s) ==
    Then(Take(s, 1), LAMBDA t, r0 :
        IF t = 0
        THEN Then(Take(r0, 4), LAMBDA ip, r1 :
             Then(Take(r1, 2), LAMBDA port, r2 : Good([v6 |-> FALSE, hi |-> 0, lo |-> ip, port |-> port], r2)))
        ELSE Then(ReadItems(U16, 8, r0), LAMBDA ip, r1 :
             Then(Take(r1, 2), LAMBDA port, r2 :
                 Good(IF ip[1] \in {0, 1} THEN [v6 |-> FALSE, hi |-> 0, lo |-> ip[8], port |-> port]
                      ELSE [v6 |-> TRUE, hi |-> ip[1], lo |-> ip[8], port |-> port], r2))))
PeerAddr == Custom("addr", 0)

ProtocolVersion == U32
Capabilities == Masked(4, 256)
HandW == Struct(<<<<"version", ProtocolVersion>>, <<"capabilities", Capabilities>>, <<"nonce", U64>>,
                  <<"total_difficulty", Difficulty>>, <<"sender_addr", PeerAddr>>, <<"receiver_addr", PeerAddr>>,
                  <<"user_agent", LenPrefixed>>, <<"genesis", HashFormat>>>>)
HandR == Struct(<<<<"version", ProtocolVersion>>, <<"capabilities", Capabilities>>, <<"nonce", U64>>,
                  <<"total_difficulty", Difficulty>>, <<"sender_addr", PeerAddr>>, <<"receiver_addr", PeerAddr>>,
                  <<"user_agent", LenPrefixed>>, <<"genesis", HashFormat>>>>)
ShakeW == Struct(<<<<"version", ProtocolVersion>>, <<"capabilities", Capabilities>>,
                   <<"total_difficulty", Difficulty>>, <<"user_agent", LenPrefixed>>, <<"genesis", HashFormat>>>>)
ShakeR == Struct(<<<<"version", ProtocolVersion>>, <<"capabilities", Capabilities>>,
                   <<"total_difficulty", Difficulty>>, <<"user_agent", LenPrefixed>>, <<"genesis", HashFormat>>>>)
GetPeerAddrsW == Struct(<<<<"capabilities", Capabilities>>>>)
GetPeerAddrsR == Struct(<<<<"capabilities", Capabilities>>>>)
PeerAddrsW == Struct(<<<<"peers", Counted(4, PeerAddr, MaxPeerAddrs)>>>>)
PeerAddrsR == Struct(<<<<"peers", Counted(4, PeerAddr, MaxPeerAddrs)>>>>)
LocatorW == Struct(<<<<"hashes", Counted(1, HashFormat, MaxLocators)>>>>)
LocatorR == Struct(<<<<"hashes", Counted(1, HashFormat, MaxLocators)>>>>)
HeadersW == Struct(<<<<"headers", Counted(2, BlockHeaderW, MaxBlockHeaders)>>>>)
HeadersR == Struct(<<<<"headers", Counted(2, read_block_header, MaxBlockHeaders)>>>>)
HeaderSegmentW == Struct(<<<<"identifier", SegmentIdentifierW>>,
                           <<"headers", Counted(2, BlockHeaderW, MaxBlockHeaders)>>>>)
HeaderSegmentR == Struct(<<<<"identifier", SegmentIdentifierR>>,
                           <<"headers", Counted(2, read_block_header, MaxBlockHeaders)>>>>)
PingW == Struct(<<<<"total_difficulty", Difficulty>>, <<"height", U64>>>>)
PingR == Struct(<<<<"total_difficulty", Difficulty>>, <<"height", U64>>>>)
PongW == Struct(<<<<"total_difficulty", Difficulty>>, <<"height", U64>>>>)
PongR == Struct(<<<<"total_difficulty", Difficulty>>, <<"height", U64>>>>)
ReasonForBan == 0 .. 7
BanReasonW == Struct(<<<<"ban_reason", OneOf(4, ReasonForBan)>>>>)
BanReasonR == Struct(<<<<"ban_reason", Optional(OneOf(4, ReasonForBan), 0)>>>>)
TxHashSetRequestW == Struct(<<<<"hash", HashFormat>>, <<"height", U64>>>>)
TxHashSetRequestR == Struct(<<<<"hash", HashFormat>>, <<"height", U64>>>>)
TxHashSetArchiveW == Struct(<<<<"hash", HashFormat>>, <<"height", U64>>, <<"bytes", U64>>>>)
TxHashSetArchiveR == Struct(<<<<"hash", HashFormat>>, <<"height", U64>>, <<"bytes", U64>>>>)
SegmentRequestW == Struct(<<<<"block_hash", HashFormat>>, <<"identifier", SegmentIdentifierW>>>>)
SegmentRequestR == Struct(<<<<"block_hash", HashFormat>>, <<"identifier", SegmentIdentifierR>>>>)
SegmentResponseW(item) == Struct(<<<<"block_hash", HashFormat>>, <<"segment", SegmentW(item)>>>>)
SegmentResponseR(item) == Struct(<<<<"block_hash", HashFormat>>, <<"segment", SegmentR(item)>>>>)
OutputSegmentResponseW == Struct(<<<<"response", SegmentResponseW(OutputIdentifierW)>>,
                                   <<"output_bitmap_root", HashFormat>>>>)
OutputSegmentResponseR == Struct(<<<<"response", SegmentResponseR(OutputIdentifierR)>>,
                                   <<"output_bitmap_root", HashFormat>>>>)
OutputBitmapSegmentResponseW == Struct(<<<<"block_hash", HashFormat>>, <<"segment", Custom("bitmap", 0)>>,
                                         <<"output_root", HashFormat>>>>)
OutputBitmapSegmentResponseR == Struct(<<<<"block_hash", HashFormat>>, <<"segment", Custom("bitmap", 0)>>,
                                         <<"output_root", HashFormat>>>>)

HashMessages == {"GetBlock", "GetCompactBlock", "GetTransaction", "TransactionKernel"}
SegmentRequests == {"GetOutputBitmapSegment", "GetOutputSegment", "GetRangeProofSegment", "GetKernelSegment"}

\* What is handed to Msg::new for each type
WriteFormat(type, v) ==
    CASE type \in HashMessages -> Struct(<<<<"hash", HashFormat>>>>)
      [] type \in SegmentRequests -> SegmentRequestW
      [] type = "Hand" -> HandW
      [] type = "Shake" -> ShakeW
      [] type = "Ping" -> PingW
      [] type = "Pong" -> PongW
      [] type = "GetPeerAddrs" -> GetPeerAddrsW
      [] type = "PeerAddrs" -> PeerAddrsW
      [] type = "GetHeaders" -> LocatorW
      [] type = "Header" -> BlockHeaderW
      [] type = "Headers" -> HeadersW
      [] type = "GetHeaderSegment" -> SegmentIdentifierW
      [] type = "HeaderSegment" -> HeaderSegmentW
      [] type = "Block" -> BlockW(v)
      [] type = "CompactBlock" -> CompactBlockW(v)
      [] type \in {"Transaction", "StemTransaction"} -> TransactionW(v)
      [] type = "TxHashSetRequest" -> TxHashSetRequestW
      [] type = "TxHashSetArchive" -> TxHashSetArchiveW
      [] type = "BanReason" -> BanReasonW
      [] type = "OutputBitmapSegment" -> OutputBitmapSegmentResponseW
      [] type = "OutputSegment" -> OutputSegmentResponseW
      [] type = "RangeProofSegment" -> SegmentResponseW(RangeProof)
      [] type = "KernelSegment" -> SegmentResponseW(TxKernelW(v))

decode_message(type, v) ==
    CASE type \in HashMessages -> Struct(<<<<"hash", HashFormat>>>>)
      [] type \in SegmentRequests -> SegmentRequestR
      [] type = "Hand" -> HandR
      [] type = "Shake" -> ShakeR
      [] type = "Ping" -> PingR
      [] type = "Pong" -> PongR
      [] type = "GetPeerAddrs" -> GetPeerAddrsR
      [] type = "PeerAddrs" -> PeerAddrsR
      [] type = "GetHeaders" -> LocatorR
      [] type = "Header" -> read_block_header
      [] type = "Headers" -> HeadersR
      [] type = "GetHeaderSegment" -> SegmentIdentifierR
      [] type = "HeaderSegment" -> HeaderSegmentR
      [] type = "Block" -> BlockR(v)
      [] type = "CompactBlock" -> CompactBlockR(v)
      [] type \in {"Transaction", "StemTransaction"} -> TransactionR(v)
      [] type = "TxHashSetRequest" -> TxHashSetRequestR
      [] type = "TxHashSetArchive" -> TxHashSetArchiveR
      [] type = "BanReason" -> BanReasonR
      [] type = "OutputBitmapSegment" -> OutputBitmapSegmentResponseR
      [] type = "OutputSegment" -> OutputSegmentResponseR
      [] type = "RangeProofSegment" -> SegmentResponseR(RangeProof)
      [] type = "KernelSegment" -> SegmentResponseR(TxKernelR(v))

\* The most bytes of a body; four times as many are read
max_block_size == (MaxBlockWeight \div 21) * 708
max_header_size == 2 + 2 * 8 + 5 * 32 + 32 + 2 * 8 + 8 + 4 + 8 + 1 + (63 * ProofSize + 7) \div 8
max_msg_size(type) ==
    CASE type = "Hand" -> 128
      [] type = "Shake" -> 88
      [] type \in {"Ping", "Pong"} -> 16
      [] type = "GetPeerAddrs" -> 4
      [] type = "PeerAddrs" -> 4 + (1 + 16 + 2) * MaxPeerAddrs
      [] type = "GetHeaders" -> 1 + 32 * MaxLocators
      [] type = "Header" -> max_header_size
      [] type = "Headers" -> 2 + max_header_size * MaxBlockHeaders
      [] type = "HeaderSegment" -> 11 + max_header_size * MaxBlockHeaders
      [] type = "GetHeaderSegment" -> 9
      [] type \in HashMessages -> 32
      [] type \in SegmentRequests -> 41
      [] type = "CompactBlock" -> max_block_size \div 10
      [] type \in {"Block", "Transaction", "StemTransaction"} -> max_block_size
      [] type = "TxHashSetRequest" -> 40
      [] type \in {"TxHashSetArchive", "BanReason"} -> 64
      [] OTHER -> 2 * max_block_size

-----------------------------------------------------------------------------
\* Records of the databases and of the data files

CommitPosW == Struct(<<<<"pos", U64>>, <<"height", U64>>>>)
CommitPosR == Struct(<<<<"pos", U64>>, <<"height", U64>>>>)
TipW == Struct(<<<<"height", U64>>, <<"last_block_h", HashFormat>>, <<"prev_block_h", HashFormat>>,
                 <<"total_difficulty", Difficulty>>>>)
TipR == Struct(<<<<"height", U64>>, <<"last_block_h", HashFormat>>, <<"prev_block_h", HashFormat>>,
                 <<"total_difficulty", Difficulty>>>>)
BlockSumsW == Struct(<<<<"utxo_sum", Commitment>>, <<"kernel_sum", Commitment>>>>)
BlockSumsR == Struct(<<<<"utxo_sum", Commitment>>, <<"kernel_sum", Commitment>>>>)
BoolFlagW == Struct(<<<<"flag", U8>>>>)
BoolFlagR == Struct(<<<<"flag", Masked(1, 2)>>>>)
SizeEntryW == Struct(<<<<"offset", U64>>, <<"size", U16>>>>)
SizeEntryR == Struct(<<<<"offset", U64>>, <<"size", U16>>>>)
MerkleProofW == Struct(<<<<"mmr_size", U64>>, <<"path", Counted(8, HashFormat, MaxSegmentItems)>>>>)
MerkleProofR == Struct(<<<<"mmr_size", U64>>, <<"path", Counted(8, HashFormat, MaxSegmentItems)>>>>)

Single == 0
Multi == 1
ListWrapperW == Variant((Single :> Struct(<<<<"pos", CommitPosW>>>>)) @@
                        (Multi :> Struct(<<<<"head", U64>>, <<"tail", U64>>>>)))
ListWrapperR == Variant((Single :> Struct(<<<<"pos", CommitPosR>>>>)) @@
                        (Multi :> Struct(<<<<"head", U64>>, <<"tail", U64>>>>)))
ListHead == 2
ListTail == 3
ListMiddle == 4
ListEntryW == Variant((ListHead :> Struct(<<<<"pos", CommitPosW>>, <<"next", U64>>>>)) @@
                      (ListTail :> Struct(<<<<"pos", CommitPosW>>, <<"prev", U64>>>>)) @@
                      (ListMiddle :> Struct(<<<<"pos", CommitPosW>>, <<"next", U64>>, <<"prev", U64>>>>)))
ListEntryR == Variant((ListHead :> Struct(<<<<"pos", CommitPosR>>, <<"next", U64>>>>)) @@
                      (ListTail :> Struct(<<<<"pos", CommitPosR>>, <<"prev", U64>>>>)) @@
                      (ListMiddle :> Struct(<<<<"pos", CommitPosR>>, <<"next", U64>>, <<"prev", U64>>>>)))

PeerStates == 0 .. 3
Now == 1000
PeerDataW == Struct(<<<<"addr", PeerAddr>>, <<"capabilities", Capabilities>>, <<"user_agent", LenPrefixed>>,
                      <<"flags", OneOf(1, PeerStates)>>, <<"last_banned", U64>>, <<"ban_reason", OneOf(4, ReasonForBan)>>,
                      <<"last_connected", U64>>, <<"last_attempt", U64>>>>)
PeerDataR == Struct(<<<<"addr", PeerAddr>>, <<"capabilities", Capabilities>>, <<"user_agent", LenPrefixed>>,
                      <<"flags", OneOf(1, PeerStates)>>, <<"last_banned", U64>>, <<"ban_reason", OneOf(4, ReasonForBan)>>,
                      <<"last_connected", Optional(U64, Now)>>, <<"last_attempt", Optional(U64, 0)>>>>)

RecordW(name) ==
    CASE name = "CommitPos" -> CommitPosW
      [] name = "Tip" -> TipW
      [] name = "BlockSums" -> BlockSumsW
      [] name = "BoolFlag" -> BoolFlagW
      [] name = "SizeEntry" -> SizeEntryW
      [] name = "MerkleProof" -> MerkleProofW
      [] name = "ListWrapper" -> ListWrapperW
      [] name = "ListEntry" -> ListEntryW
      [] name = "PeerData" -> PeerDataW
      [] name = "HeaderEntry" -> HeaderEntryW
      [] name = "BlockHeader" -> BlockHeaderW
      [] name = "Block" -> BlockW(DbVersion)

RecordR(name) ==
    CASE name = "CommitPos" -> CommitPosR
      [] name = "Tip" -> TipR
      [] name = "BlockSums" -> BlockSumsR
      [] name = "BoolFlag" -> BoolFlagR
      [] name = "SizeEntry" -> SizeEntryR
      [] name = "MerkleProof" -> MerkleProofR
      [] name = "ListWrapper" -> ListWrapperR
      [] name = "ListEntry" -> ListEntryR
      [] name = "PeerData" -> PeerDataR
      [] name = "HeaderEntry" -> HeaderEntryR
      [] name = "BlockHeader" -> read_block_header
      [] name = "Block" -> BlockR(DbVersion)

-----------------------------------------------------------------------------
\* Writers and readers

Write(f, x) ==
    CASE f.k \in {"uint", "oneof", "masked"} -> <<<<f.w, Fit(f.w, x)>>>>
      [] f.k = "empty" -> <<<<f.w, 0>>>>
      [] f.k = "optional" -> Write(f.item, x)
      [] f.k = "bytes" -> <<<<8, x.len>>, <<x.len, x>>>>
      [] f.k = "struct" -> Concat([i \in DOMAIN f.fields |->
                                      Write(f.fields[i][2], IF f.fields[i][1] = "" THEN 0 ELSE x[f.fields[i][1]])])
      [] f.k = "variant" -> <<<<1, x.t>>>> \o Write(f.alts[x.t], x)
      [] f.k = "counted" -> <<<<f.w, Fit(f.w, Len(x))>>>> \o WriteAll(f.item, x)
      [] f.k = "positioned" -> PositionedW(f.item, x)
      [] f.k = "body" -> BodyW(x, f.v)
      [] f.k = "compact" -> CompactBodyW(x, f.v)
      [] f.k = "proof" -> ProofW(x)
      [] f.k = "block" -> BitmapBlockW(x)
      [] f.k = "bitmap" -> BitmapSegmentW(x)
      [] f.k = "addr" -> PeerAddrW(x)

Read(f, s) ==
    CASE f.k = "uint" -> Take(s, f.w)
      [] f.k = "oneof" -> Then(Take(s, f.w), LAMBDA x, r : When(x \in f.set, Good(x, r)))
      [] f.k = "masked" -> Then(Take(s, f.w), LAMBDA x, r : Good(x % f.n, r))
      [] f.k = "empty" -> Then(Take(s, f.w), LAMBDA x, r : When(x = 0, Good(x, r)))
      [] f.k = "optional" -> IF s = <<>> THEN Good(f.default, s) ELSE Read(f.item, s)
      [] f.k = "bytes" -> Then(Take(s, 8), LAMBDA n, r : Take(r, n))
      [] f.k = "struct" -> ReadFields(f.fields, 1, s)
      [] f.k = "variant" -> Then(Take(s, 1), LAMBDA t, r :
             IF t \notin DOMAIN f.alts THEN Bad
             ELSE Then(Read(f.alts[t], r), LAMBDA x, q : Good(("t" :> t) @@ x, q)))
      [] f.k = "counted" -> Then(Take(s, f.w), LAMBDA n, r : IF n > f.max THEN Bad ELSE ReadItems(f.item, n, r))
      [] f.k = "positioned" -> PositionedR(f.item, s)
      [] f.k = "body" -> BodyR(s, f.v)
      [] f.k = "compact" -> CompactBodyR(s, f.v)
      [] f.k = "proof" -> ProofR(s)
      [] f.k = "block" -> BitmapBlockR(s)
      [] f.k = "bitmap" -> BitmapSegmentR(s)
      [] f.k = "addr" -> PeerAddrR(s)

-----------------------------------------------------------------------------
\* Two nodes; the first one opens the connection

Nodes == {1, 2}
Peer(n) == 3 - n
Nothing == [type |-> "", x |-> [hash |-> 0]]
None == [type |-> "", ok |-> FALSE, val |-> [hash |-> 0], version |-> 0]

Init == /\ version \in [Nodes -> Versions]
        /\ negotiated = [n \in Nodes |-> 0]
        /\ wire = [n \in Nodes |-> <<>>]
        /\ sent = Nothing
        /\ got = None

\* Whether a message holds inputs that cannot be written at a version
Unsupported(m, v) ==
    m.type \in {"Transaction", "StemTransaction", "Block"} /\ UnsupportedInputs(m.x.body.inputs, v)

\* write_message: what the node n sends waits for its peer
Sending(n, m, v) ==
    LET body == Write(WriteFormat(m.type, v), m.x)
    IN  wire' = [wire EXCEPT ![Peer(n)] = Append(@, [type |-> m.type, len |-> Length(body), body |-> body])]

\* MsgHeaderWrapper::read and the body: a message too long is refused
Received(n, v) ==
    LET m == Head(wire[n])
        r == Read(decode_message(m.type, v), m.body)
    IN  [type |-> m.type, ok |-> m.len <= 4 * max_msg_size(m.type) /\ r.ok, val |-> r.val, version |-> v]

negotiate_protocol_version(n, other) == IF other < version[n] THEN other ELSE version[n]

Addr(n) == [v6 |-> FALSE, hi |-> 0, lo |-> n, port |-> 3414]
Hand == [type |-> "Hand", x |-> [version |-> version[1], capabilities |-> 255, nonce |-> 1, total_difficulty |-> 1,
                                 sender_addr |-> Addr(1), receiver_addr |-> Addr(2), user_agent |-> UserAgent,
                                 genesis |-> Genesis]]
Shake == [type |-> "Shake", x |-> [version |-> version[2], capabilities |-> 255, total_difficulty |-> 1,
                                   user_agent |-> UserAgent, genesis |-> Genesis]]

initiate == /\ sent.type = ""
            /\ Sending(1, Hand, version[1])
            /\ sent' = Hand
            /\ UNCHANGED <<version, negotiated, got>>

accept == /\ negotiated[2] = 0 /\ wire[2] # <<>>
          /\ \E r \in {Received(2, version[2])} :
                 /\ r.ok /\ r.type = "Hand" /\ r.val.genesis = Genesis
                 /\ negotiated' = [negotiated EXCEPT ![2] = negotiate_protocol_version(2, r.val.version)]
          /\ \E body \in {Write(ShakeW, Shake.x)} :
                 wire' = [wire EXCEPT ![1] = <<[type |-> "Shake", len |-> Length(body), body |-> body]>>,
                                      ![2] = <<>>]
          /\ sent' = Shake
          /\ UNCHANGED <<version, got>>

ReadShake == /\ negotiated[1] = 0 /\ wire[1] # <<>>
             /\ \E r \in {Received(1, version[1])} :
                    /\ r.ok /\ r.type = "Shake" /\ r.val.genesis = Genesis
                    /\ negotiated' = [negotiated EXCEPT ![1] = negotiate_protocol_version(1, r.val.version)]
             /\ wire' = [wire EXCEPT ![1] = <<>>]
             /\ UNCHANGED <<version, sent, got>>

Connected == \A n \in Nodes : negotiated[n] # 0 /\ wire[n] = <<>>

\* One message per connection.  A block is given out from version 3 on only; a
\* message that cannot be written is not sent
send(n, m) ==
    /\ Connected /\ got.type = ""
    /\ m.type = "Block" => negotiated[n] >= 3
    /\ sent' = m
    /\ got' = None
    /\ IF Unsupported(m, negotiated[n]) THEN UNCHANGED wire ELSE Sending(n, m, negotiated[n])
    /\ UNCHANGED <<version, negotiated>>

read(n) == /\ negotiated[n] # 0 /\ wire[n] # <<>> /\ wire[Peer(n)] = <<>>
           /\ got' = Received(n, negotiated[n])
           /\ wire' = [wire EXCEPT ![n] = Tail(@)]
           /\ UNCHANGED <<version, negotiated, sent>>

\* put_ser, and get_ser of the same key
put_ser(r) == /\ Connected /\ got.type = ""
              /\ sent' = r
              /\ \E x \in {Read(RecordR(r.type), Write(RecordW(r.type), r.x))} :
                    got' = [type |-> r.type, ok |-> x.ok, val |-> x.val, version |-> DbVersion]
              /\ UNCHANGED <<version, negotiated, wire>>

Next == \/ initiate \/ accept \/ ReadShake
        \/ \E n \in Nodes : (\E m \in Messages : send(n, m)) \/ read(n)
        \/ \E r \in Records : put_ser(r)

Spec == Init /\ [][Next]_wireVars

-----------------------------------------------------------------------------
\* What must come out.  Addresses are compared as PeerAddr does, which takes an
\* IPv4-mapped address for the IPv4 one; an IPv4-compatible one is read as the
\* IPv4 address it holds.  Bodies hold the same commitments, with features when
\* the version has them.
normalize_ip(a) == IF a.v6 /\ a.hi = 1 THEN [a EXCEPT !.v6 = FALSE, !.hi = 0] ELSE a
SameAddr(a, b) == (a.v6 /\ a.hi = 0) \/ normalize_ip(a) = normalize_ip(b)
CommitsOf(inputs) == IF inputs.kind = "commit_only" THEN {inputs.list[i] : i \in DOMAIN inputs.list}
                     ELSE {inputs.list[i].commit : i \in DOMAIN inputs.list}
SameBody(a, b, v) ==
    /\ a.outputs = b.outputs /\ a.kernels = b.kernels
    /\ CommitsOf(a.inputs) = CommitsOf(b.inputs)
    /\ v <= 2 => a.inputs.list = b.inputs.list

SameMessage(m, y, v) ==
    CASE m.type \in {"Transaction", "StemTransaction"} -> m.x.offset = y.offset /\ SameBody(m.x.body, y.body, v)
      [] m.type = "Block" -> m.x.header = y.header /\ SameBody(m.x.body, y.body, v)
      [] m.type = "PeerAddrs" -> /\ Len(m.x.peers) = Len(y.peers)
                                 /\ \A i \in DOMAIN y.peers : SameAddr(m.x.peers[i], y.peers[i])
      [] m.type = "PeerData" -> /\ SameAddr(m.x.addr, y.addr)
                                /\ [m.x EXCEPT !.addr = y.addr] = y
      [] OTHER -> m.x = y

\* Both nodes of a connection speak the same version, whichever they were built
\* with; what one sends the other reads without an error and with the content it
\* was sent with, and so does what is put in the store: no field is dropped, cut,
\* put in another place or refused (negotiate_protocol_version, max_msg_size, every
\* Writeable and Readable, put_ser and get_ser)
ReadsAsWritten ==
    /\ Connected => negotiated[1] = negotiated[2]
    /\ got.type # "" => got.ok /\ SameMessage(sent, got.val, got.version)
=============================================================================
