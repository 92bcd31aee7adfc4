------------------------------ MODULE Keychain ------------------------------
(***************************************************************************)
(* The keychain (keychain/src) and the range proofs that let a wallet       *)
(* recognise its outputs (core/src/libtx/proof.rs): a master key made from  *)
(* a mnemonic, child keys derived privately, publicly or by a view key, the *)
(* text form of extended keys, and the rewinding of an output's proof.      *)
(*                                                                         *)
(* Scalars are numbers modulo Q.  A point is <<g, h, j>>, its multiples of  *)
(* the generators G, H and J, so that sums of points are sums of triples.   *)
(***************************************************************************)
EXTENDS Integers, Sequences, FiniteSets, TLC

CONSTANTS Q,              \* the group order
          Digest(_),      \* every hash, as a number of 1 .. Q - 1 mostly
          HighBit,        \* 2^31, the bit of a child number that says hardened
          Entropies,      \* what mnemonics are made from
          ChildNumbers,   \* u32 values used in paths
          Paths,          \* depth and four u32 values each
          Amounts, MaxDepth

VARIABLES words, master,  \* the mnemonic and the master key made from it
          ext, pub, view, \* one path down: private, public and view key
          output,         \* an output of this keychain
          found           \* what rewinding it gave to each who tried

keyVars == <<words, master, ext, pub, view, output, found>>

Error == [depth |-> -1]
Add(p, q) == <<(p[1] + q[1]) % Q, (p[2] + q[2]) % Q, (p[3] + q[3]) % Q>>
Mul(p, k) == <<(p[1] * k) % Q, (p[2] * k) % Q, (p[3] * k) % Q>>
G == <<1, 0, 0>>
H == <<0, 1, 0>>
J == <<0, 0, 1>>
\* SecretKey::from_slice refuses zero
SecretKey(x) == x % Q # 0

\* The hashes: init, append and result of HMAC-SHA512 give two halves
result_sha512(key, data) == [left |-> Digest(<<1, key>> \o data), right |-> Digest(<<2, key>> \o data)]
blake2b(key, data) == Digest(<<3>> \o key \o data)
hash160(p) == Digest(<<4>> \o p)
sha256(data) == Digest(<<5>> \o data)

-----------------------------------------------------------------------------
\* Mnemonics: 11 bits a word.  Bytes and words are the sets of their bits that
\* are on, bit 0 the lowest

ByteOf(x) == {b \in 0 .. 7 : (x \div 2 ^ b) % 2 = 1}
NumberOf(bits) == LET Sum[b \in 0 .. 11] == IF b = 0 THEN 0 ELSE Sum[b - 1] + (IF b - 1 \in bits THEN 2 ^ (b - 1) ELSE 0)
                  IN  Sum[11]
\* The first bits of the hash
Checksum(entropy, n) == {b - (8 - n) : b \in {c \in ByteOf(sha256([i \in DOMAIN entropy |-> NumberOf(entropy[i])]) % 256) : c >= 8 - n}}

from_entropy(entropy) ==
    LET checksum_bits == Len(entropy) \div 4
        data == 8 * Len(entropy)
        \* the bit at each location of the bytes followed by the checksum
        On(loc) == IF loc < data THEN 7 - (loc % 8) \in entropy[loc \div 8 + 1]
                   ELSE checksum_bits - 1 - (loc - data) \in Checksum(entropy, checksum_bits)
    IN  [w \in 1 .. (data + checksum_bits) \div 11 |-> {b \in 0 .. 10 : On(11 * (w - 1) + 10 - b)}]

\* <<>> stands for an error
to_entropy(mnemonic) ==
    LET n == Len(mnemonic)
        checksum_bits == n \div 3
        checksum == {b \in mnemonic[n] : b < checksum_bits}
        datalen == (11 * n - checksum_bits) \div 8 - 1
        \* from the end: the data part of the last word, then the others backwards
        On(loc) == IF loc < 11 - checksum_bits THEN loc + checksum_bits \in mnemonic[n]
                   ELSE LET k == loc - (11 - checksum_bits)
                        IN  k % 11 \in mnemonic[n - 1 - k \div 11]
        entropy == [i \in 1 .. datalen + 1 |-> {b \in 0 .. 7 : On(8 * (datalen + 1 - i) + b)}]
    IN  IF n \notin {12, 15, 18, 21, 24} \/ Checksum(entropy, checksum_bits) # checksum THEN <<>> ELSE entropy

\* The seed is made from the words
to_seed(mnemonic) == Digest(<<6>> \o [i \in DOMAIN mnemonic |-> NumberOf(mnemonic[i])])

-----------------------------------------------------------------------------
\* Child numbers, paths and identifiers

Normal(i) == [hardened |-> FALSE, index |-> i]
Hardened(i) == [hardened |-> TRUE, index |-> i]
ChildNumber(number) == IF number >= HighBit THEN Hardened(number - HighBit) ELSE Normal(number)
IntoU32(cnum) == cnum.index + (IF cnum.hardened THEN HighBit ELSE 0)

to_identifier(path) == <<path.depth>> \o [i \in 1 .. 4 |-> IntoU32(path.path[i])]
from_identifier(id) == [depth |-> id[1], path |-> [i \in 1 .. 4 |-> ChildNumber(id[i + 1])]]
to_path(id) == from_identifier(id)
derive_key_id(depth, d) == to_identifier([depth |-> depth, path |-> [i \in 1 .. 4 |-> ChildNumber(d[i])]])
root_key_id == derive_key_id(0, <<0, 0, 0, 0>>)
serialize_path(id) == SubSeq(id, 2, 5)
from_serialized_path(len, p) == <<len>> \o p
parent_path(id) ==
    LET p == from_identifier(id)
    IN  IF p.depth = 0 THEN id
        ELSE to_identifier([depth |-> p.depth - 1, path |-> [p.path EXCEPT ![p.depth] = ChildNumber(0)]])

-----------------------------------------------------------------------------
\* Extended keys

NetworkPriv == 1
NetworkPub == 2
MasterSeed == 7

new_master(seed) ==
    LET r == result_sha512(MasterSeed, <<seed>>)
    IN  IF ~SecretKey(r.left) THEN Error
        ELSE [network |-> NetworkPriv, depth |-> 0, parent_fingerprint |-> 0, child_number |-> Normal(0),
              secret_key |-> r.left % Q, chain_code |-> r.right]

from_mnemonic(mnemonic) == IF to_entropy(mnemonic) = <<>> THEN Error ELSE new_master(to_seed(mnemonic))

fingerprint(public_key) == hash160(public_key)

ckd_priv(sk, i) ==
    LET public == Mul(G, sk.secret_key)
        r == result_sha512(sk.chain_code, (IF i.hardened THEN <<0, sk.secret_key>> ELSE public) \o <<IntoU32(i)>>)
        sum == (r.left + sk.secret_key) % Q
    IN  IF ~SecretKey(r.left) \/ sum = 0 THEN Error
        ELSE [network |-> sk.network, depth |-> sk.depth + 1, parent_fingerprint |-> fingerprint(public),
              child_number |-> i, secret_key |-> sum, chain_code |-> r.right]

from_private(sk) == [network |-> NetworkPub, depth |-> sk.depth, parent_fingerprint |-> sk.parent_fingerprint,
                     child_number |-> sk.child_number, public_key |-> Mul(G, sk.secret_key),
                     chain_code |-> sk.chain_code]

\* What is added to a public key to get its child: hardened children have none
ckd_pub_tweak(pk, i) == result_sha512(pk.chain_code, pk.public_key \o <<i.index>>)

ckd_pub(pk, i) ==
    LET r == ckd_pub_tweak(pk, i)
    IN  IF i.hardened \/ ~SecretKey(r.left) THEN Error
        ELSE [network |-> pk.network, depth |-> pk.depth + 1, parent_fingerprint |-> fingerprint(pk.public_key),
              child_number |-> i, public_key |-> Add(pk.public_key, Mul(G, r.left)), chain_code |-> r.right]

-----------------------------------------------------------------------------
\* Keychains

RECURSIVE derive_priv(_, _, _)
derive_priv(sk, path, n) ==
    IF n = 0 THEN sk
    ELSE LET up == derive_priv(sk, path, n - 1) IN IF up = Error THEN Error ELSE ckd_priv(up, path[n])

\* External: the switch commitment of the key and the amount is added to the key
blind_switch(amount, key) == (key + Digest(<<8, amount, key>>)) % Q

\* 0 stands for an error
derive_key(keychain, amount, id, switch) ==
    LET p == to_path(id)
        k == derive_priv(keychain, p.path, p.depth)
    IN  IF k = Error THEN 0 ELSE IF switch = 1 THEN blind_switch(amount, k.secret_key) ELSE k.secret_key

commit(keychain, amount, id, switch) == Add(Mul(H, amount), Mul(G, derive_key(keychain, amount, id, switch)))
public_root_key(keychain) == from_private(keychain).public_key

\* BlindingFactor: a zero factor is the zero key
add(a, b) == (a + b) % Q
split(a, b) == (a + Q - b) % Q

-----------------------------------------------------------------------------
\* View keys

rewind_hash(public_root) == blake2b(<<>>, public_root)

ViewKey(keychain, sk) ==
    LET pk == from_private(sk)
    IN  [depth |-> pk.depth, parent_fingerprint |-> pk.parent_fingerprint, child_number |-> pk.child_number,
         public_key |-> pk.public_key, switch_public_key |-> Mul(J, sk.secret_key), chain_code |-> pk.chain_code,
         rewind_hash |-> rewind_hash(public_root_key(keychain))]

\* A slip: the switch key stays that of the parent
MutViewCkdPub(v, i) ==
    LET r == ckd_pub_tweak(v, i)
    IN  IF i.hardened \/ ~SecretKey(r.left) THEN Error
        ELSE [v EXCEPT !.depth = @ + 1, !.parent_fingerprint = fingerprint(v.public_key), !.child_number = i,
                       !.public_key = Add(@, Mul(G, r.left)), !.chain_code = r.right]

view_ckd_pub(v, i) ==
    LET r == ckd_pub_tweak(v, i)
    IN  IF i.hardened \/ ~SecretKey(r.left) THEN Error
        ELSE [v EXCEPT !.depth = @ + 1, !.parent_fingerprint = fingerprint(v.public_key), !.child_number = i,
                       !.public_key = Add(@, Mul(G, r.left)), !.chain_code = r.right,
                       !.switch_public_key = Add(@, Mul(J, r.left))]

\* Without a switch commitment only; <<>> stands for an error
view_commit(v, amount, switch) == IF switch = 1 THEN <<>> ELSE Add(v.public_key, Mul(H, amount))

-----------------------------------------------------------------------------
\* Proof builders.  A message is twenty bytes: four and the path

private_root_key(keychain) == derive_key(keychain, 0, root_key_id, 0)
root_hash(keychain) == derive_key(keychain, 0, root_key_id, 1)

rewind_nonce(builder, keychain, c) ==
    blake2b(c, IF builder = "legacy" THEN <<root_hash(keychain)>> ELSE <<rewind_hash(public_root_key(keychain))>>)
private_nonce(builder, keychain, c) ==
    blake2b(c, IF builder = "legacy" THEN <<root_hash(keychain)>> ELSE <<blake2b(<<>>, <<private_root_key(keychain)>>)>>)

proof_message(builder, id, switch) ==
    IF builder = "legacy" THEN <<0, 0, 0, 0>> \o serialize_path(id) ELSE <<0, 0, switch>> \o id

\* External: a proof is rewound with the nonce it was made with
create(builder, keychain, amount, id, switch) ==
    LET c == commit(keychain, amount, id, switch)
    IN  [commit |-> c, nonce |-> rewind_nonce(builder, keychain, c), private |-> private_nonce(builder, keychain, c),
         value |-> amount, message |-> proof_message(builder, id, switch)]

\* What an output is taken for: nothing, an error, or its path and switch type
NotOurs == [is |-> "none", amount |-> 0, id |-> root_key_id, switch |-> 0]
Refused == [NotOurs EXCEPT !.is = "error"]
Ours(amount, id, switch) == [is |-> "ours", amount |-> amount, id |-> id, switch |-> switch]

MinOf(a, b) == IF a < b THEN a ELSE b

check_output(builder, keychain, c, amount, msg) ==
    IF builder = "legacy"
    THEN LET id == from_serialized_path(3, SubSeq(msg, 5, 8))
         IN  IF SubSeq(msg, 1, 4) = <<0, 0, 0, 0>> /\ commit(keychain, amount, id, 1) = c
             THEN Ours(amount, id, 1) ELSE NotOurs
    ELSE LET id == from_serialized_path(MinOf(msg[4], 4), SubSeq(msg, 5, 8))
         IN  IF SubSeq(msg, 1, 2) = <<0, 0>> /\ msg[3] \in {0, 1} /\ commit(keychain, amount, id, msg[3]) = c
             THEN Ours(amount, id, msg[3]) ELSE NotOurs

RECURSIVE view_derive(_, _, _)
view_derive(v, path, n) ==
    IF v.depth = n THEN v
    ELSE LET child == view_ckd_pub(v, path[v.depth + 1]) IN IF child = Error THEN Error ELSE view_derive(child, path, n)

\* Only what lies below the key by normal child numbers; a switch commitment is an error
view_check_output(v, c, amount, msg) ==
    LET id == from_serialized_path(MinOf(msg[4], 4), SubSeq(msg, 5, 8))
        path == to_path(id)
        key == view_derive(v, path.path, path.depth)
    IN  IF \/ SubSeq(msg, 1, 2) # <<0, 0>> \/ msg[3] \notin {0, 1}
           \/ v.depth > path.depth
           \/ v.depth > 0 /\ v.child_number # path.path[v.depth]
           \/ \E i \in v.depth + 1 .. path.depth : path.path[i].hardened
        THEN NotOurs
        ELSE IF key = Error \/ msg[3] = 1 THEN Refused
        ELSE IF view_commit(key, amount, msg[3]) = c THEN Ours(amount, id, msg[3]) ELSE NotOurs

rewind(builder, keychain, o) ==
    IF rewind_nonce(builder, keychain, o.commit) # o.nonce THEN NotOurs
    ELSE check_output(builder, keychain, o.commit, o.value, o.message)
view_rewind(v, o) ==
    IF blake2b(o.commit, <<v.rewind_hash>>) # o.nonce THEN NotOurs
    ELSE view_check_output(v, o.commit, o.value, o.message)

-----------------------------------------------------------------------------
\* The text form of extended keys: base 58 with a checksum.  Numbers here take two
\* bytes where the code's take four, twenty or thirty-two

Bytes2(x) == <<x \div 256, x % 256>>
Number(b) == b[1] * 256 + b[2]

\* digits * mul + carry in a base, in place; what does not fit is carried out
RECURSIVE MulAdd(_, _, _, _)
MulAdd(digits, mul, base, carry) ==
    IF digits = <<>> THEN [digits |-> <<>>, carry |-> carry]
    ELSE LET x == digits[Len(digits)] * mul + carry
             high == MulAdd(SubSeq(digits, 1, Len(digits) - 1), mul, base, x \div base)
         IN  [digits |-> Append(high.digits, x % base), carry |-> high.carry]

Leading(s) == CHOOSE n \in 0 .. Len(s) : (n = Len(s) \/ s[n + 1] # 0) /\ \A i \in 1 .. n : s[i] = 0
Zeros(n) == [i \in 1 .. n |-> 0]

\* Base 256 to base 58: a leading zero byte is a leading zero digit
RECURSIVE EncodeBytes(_, _)
EncodeBytes(ret, data) ==
    IF data = <<>> THEN ret
    ELSE LET r == MulAdd(ret, 256, 58, data[1])
             c == r.carry
         IN  EncodeBytes((IF c = 0 THEN <<>> ELSE IF c < 58 THEN <<c>> ELSE <<c \div 58, c % 58>>) \o r.digits, Tail(data))
encode_iter(data) == Zeros(Leading(data)) \o EncodeBytes(<<>>, data)

\* Base 58 to base 256 in as many bytes as 11/15 of the digits and one; ok says
\* that nothing was carried out of them
RECURSIVE DecodeDigits(_, _)
DecodeDigits(scratch, data) ==
    IF data = <<>> THEN [digits |-> scratch, carry |-> 0]
    ELSE LET r == MulAdd(scratch, 58, 256, data[1]) IN IF r.carry # 0 THEN r ELSE DecodeDigits(r.digits, Tail(data))
from(data) ==
    LET r == DecodeDigits(Zeros(1 + (Len(data) * 11) \div 15), data)
    IN  [ok |-> r.carry = 0,
         bytes |-> Zeros(Leading(data)) \o SubSeq(r.digits, Leading(r.digits) + 1, Len(r.digits))]

check_encode_slice(data) == encode_iter(data \o Bytes2(sha256(data)))
\* <<>> stands for an error
from_check(text) ==
    LET r == from(text)
        ck_start == Len(r.bytes) - 2
        data == SubSeq(r.bytes, 1, ck_start)
    IN  IF ~r.ok \/ ck_start < 0 THEN <<>>
        ELSE IF SubSeq(r.bytes, ck_start + 1, ck_start + 2) # Bytes2(sha256(data)) THEN <<>> ELSE data

PrivToString(k) ==
    check_encode_slice(Bytes2(k.network) \o <<k.depth>> \o Bytes2(k.parent_fingerprint) \o Bytes2(IntoU32(k.child_number))
                           \o Bytes2(k.chain_code) \o <<0>> \o Bytes2(k.secret_key))
PrivFromStr(text) ==
    LET d == from_check(text)
    IN  IF Len(d) # 12 \/ ~SecretKey(Number(SubSeq(d, 11, 12))) THEN Error
        ELSE [network |-> Number(SubSeq(d, 1, 2)), depth |-> d[3], parent_fingerprint |-> Number(SubSeq(d, 4, 5)),
              child_number |-> ChildNumber(Number(SubSeq(d, 6, 7))), secret_key |-> Number(SubSeq(d, 11, 12)),
              chain_code |-> Number(SubSeq(d, 8, 9))]
PubToString(k) ==
    check_encode_slice(Bytes2(k.network) \o <<k.depth>> \o Bytes2(k.parent_fingerprint) \o Bytes2(IntoU32(k.child_number))
                           \o Bytes2(k.chain_code) \o <<2>> \o Bytes2(k.public_key[1]))
PubFromStr(text) ==
    LET d == from_check(text)
    IN  IF Len(d) # 12 THEN Error
        ELSE [network |-> Number(SubSeq(d, 1, 2)), depth |-> d[3], parent_fingerprint |-> Number(SubSeq(d, 4, 5)),
              child_number |-> ChildNumber(Number(SubSeq(d, 6, 7))), public_key |-> Mul(G, Number(SubSeq(d, 11, 12))),
              chain_code |-> Number(SubSeq(d, 8, 9))]

-----------------------------------------------------------------------------
Nobody == [tried |-> FALSE, new |-> NotOurs, legacy |-> NotOurs, view |-> NotOurs, other |-> NotOurs]
NoOutput == [builder |-> "", id |-> root_key_id, switch |-> 0,
             o |-> [commit |-> <<0, 0, 0>>, nonce |-> 0, private |-> 0, value |-> 0, message |-> <<>>]]

\* A keychain restored from the words its entropy gives
Init == \E e \in Entropies :
            /\ words = [entropy |-> e, mnemonic |-> from_entropy(e)]
            /\ master = from_mnemonic(from_entropy(e))
            /\ ext = master
            /\ pub = from_private(master)
            /\ view = ViewKey(master, master)
            /\ output = NoOutput
            /\ found = Nobody

\* One step down each of the three ways; where there is none the key stays behind
derive(i) ==
    /\ output = NoOutput /\ ext.depth < MaxDepth
    /\ ext' = ckd_priv(ext, i) /\ ext' # Error
    /\ LET p == IF pub.depth = ext.depth THEN ckd_pub(pub, i) ELSE Error
       IN  IF p = Error THEN UNCHANGED <<pub, view>> ELSE pub' = p /\ view' = view_ckd_pub(view, i)
    /\ UNCHANGED <<words, master, output, found>>

build_output(builder, amount, id, switch) ==
    /\ output = NoOutput
    /\ output' = [builder |-> builder, id |-> id, switch |-> switch, o |-> create(builder, master, amount, id, switch)]
    /\ UNCHANGED <<words, master, ext, pub, view, found>>

\* Either builder of this keychain, its view key, and another keychain try
rewind_output ==
    /\ output # NoOutput
    /\ found' = [tried |-> TRUE,
                 new |-> rewind("new", master, output.o), legacy |-> rewind("legacy", master, output.o),
                 view |-> view_rewind(view, output.o),
                 other |-> rewind(output.builder, new_master(to_seed(words.mnemonic) + 1), output.o)]
    /\ UNCHANGED <<words, master, ext, pub, view, output>>

Next == \/ \E n \in ChildNumbers : derive(ChildNumber(n))
        \/ \E b \in {"new", "legacy"}, a \in Amounts, p \in Paths, s \in {0, 1} :
               build_output(b, a, derive_key_id(p[1], p[2]), s)
        \/ rewind_output

Spec == Init /\ [][Next]_keyVars

-----------------------------------------------------------------------------
\* Public and view keys derived along a path are those of the privately derived
\* key, and the words, the texts and the identifiers give back what they were made
\* from (ckd_priv, ckd_pub, ViewKey::ckd_pub, to_entropy, from_check, from_str,
\* from_identifier, BlindingFactor::split and add)
KeysAgree ==
    /\ to_entropy(words.mnemonic) = words.entropy
    /\ pub.depth = ext.depth =>
           /\ pub = from_private(ext)
           /\ view = ViewKey(master, ext)
    /\ PrivFromStr(PrivToString(ext)) = ext
    /\ PubFromStr(PubToString(pub)) = pub
    /\ add(split(ext.secret_key, master.secret_key), master.secret_key) = ext.secret_key
    /\ to_identifier(to_path(output.id)) = output.id
    /\ to_path(parent_path(output.id)).depth = (IF output.id[1] = 0 THEN 0 ELSE output.id[1] - 1)

\* Whether a view key reaches a path: it lies on it and all that follows is normal
Reaches(v, id) ==
    LET p == to_path(id)
    IN  /\ v.depth <= p.depth
        /\ \A i \in v.depth + 1 .. p.depth : ~p.path[i].hardened
        /\ LET k == derive_priv(master, p.path, v.depth) IN k # Error /\ from_private(k).public_key = v.public_key

\* An output is recognised by the builder that made its proof, with the amount, the
\* path and the switch type it was made with, and by nobody else's keychain; a view
\* key recognises those without a switch commitment that lie below it, and no
\* other (create, rewind, check_output).  The legacy builder keeps neither the depth
\* nor the switch type: it is used at depth three with a switch commitment
RewindFinds ==
    LET o == output
        what == Ours(o.o.value, o.id, o.switch)
    IN  found.tried =>
            /\ o.builder = "new" => found.new = what /\ found.legacy = NotOurs
            /\ o.builder = "legacy" => /\ found.new = NotOurs
                                       /\ o.id[1] = 3 /\ o.switch = 1 => found.legacy = what
            /\ (found.view.is = "ours") = (o.builder = "new" /\ o.switch = 0 /\ Reaches(view, o.id))
            /\ found.view.is = "ours" => found.view = what
            /\ found.other = NotOurs
=============================================================================
