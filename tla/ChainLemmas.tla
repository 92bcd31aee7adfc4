---------------------------- MODULE ChainLemmas -----------------------------
(***************************************************************************)
(* The lemmas under ChainProofs: paths and rewinding, and that every       *)
(* locked section keeps what the database and the MMRs say together.       *)
(***************************************************************************)
EXTENDS Chain, TLAPS

\* The provers of a leaf that names none, in this order.
USE SMTT(30), ZenonT(30), SMTT(60)

-----------------------------------------------------------------------------
(* Paths and rewinding. *)

\* What Append adds to a list of headers.
LEMMA AppendProperties ==
  ASSUME NEW S, NEW seq \in Seq(S), NEW elt \in S
  PROVE  /\ Append(seq, elt) \in Seq(S)
         /\ Len(Append(seq, elt)) = Len(seq) + 1
         /\ \A i \in 1..Len(seq) : Append(seq, elt)[i] = seq[i]
         /\ Append(seq, elt)[Len(seq) + 1] = elt
OBVIOUS

\* Two lists of headers that agree everywhere are the same list.
LEMMA SeqEqual ==
  ASSUME NEW S, NEW s \in Seq(S), NEW t \in Seq(S),
         Len(s) = Len(t), \A i \in 1..Len(s) : s[i] = t[i]
  PROVE  s = t
OBVIOUS

\* What PathAssumption says of one path (the prev_hash links of a header).
LEMMA PathFacts ==
  ASSUME NEW b \in Block
  PROVE  /\ Path[b] \in Seq(Block)
         /\ Len(Path[b]) \in Nat \ {0}
         /\ Height(b) \in Nat
         /\ Path[b][1] = Genesis
         /\ Path[b][Len(Path[b])] = b
         /\ \A i \in 1..Len(Path[b]) : Path[b][i] \in Block
<1>1. Path[b] \in Seq(Block)
  BY PathAssumption
<1>2. Len(Path[b]) >= 1 /\ Path[b][1] = Genesis /\ Path[b][Len(Path[b])] = b
  BY PathAssumption
<1>3. Len(Path[b]) \in Nat /\ \A i \in 1..Len(Path[b]) : Path[b][i] \in Block
  BY <1>1
<1>4. Len(Path[b]) \in Nat \ {0} /\ Height(b) \in Nat
  BY <1>2, <1>3 DEF Height
<1> QED
  BY <1>1, <1>2, <1>3, <1>4

\* Every block but genesis extends the path of its parent by itself.
LEMMA AppendPath ==
  ASSUME NEW b \in Block \ {Genesis}
  PROVE  /\ Prev(b) \in Block
         /\ Len(Path[Prev(b)]) = Len(Path[b]) - 1
         /\ Append(Path[Prev(b)], b) = Path[b]
<1>1. Len(Path[b]) \in Nat /\ Len(Path[b]) >= 2 /\ Path[b] \in Seq(Block)
  BY PathAssumption, PathFacts
<1> DEFINE n == Len(Path[b]) - 1
<1>2. n \in 1..Len(Path[b])
  BY <1>1
<1>4. Prev(b) = Path[b][n]
  BY DEF Prev
<1>9. n + 1 = Len(Path[b]) /\ n \in Nat
  BY <1>1
<1> HIDE DEF n
<1>3. Path[b][n] \in Block /\ Len(Path[Path[b][n]]) = n
      /\ \A i \in 1..n : Path[Path[b][n]][i] = Path[b][i]
  BY <1>2, PathAssumption, PathFacts
<1>5. Path[Prev(b)] \in Seq(Block) /\ Len(Path[Prev(b)]) = n
  BY <1>3, <1>4, PathFacts
<1>6. /\ Append(Path[Prev(b)], b) \in Seq(Block)
      /\ Len(Append(Path[Prev(b)], b)) = n + 1
      /\ \A i \in 1..n : Append(Path[Prev(b)], b)[i] = Path[Prev(b)][i]
      /\ Append(Path[Prev(b)], b)[n + 1] = b
  BY <1>5, AppendProperties
<1>7. \A i \in 1..(n + 1) : Append(Path[Prev(b)], b)[i] = Path[b][i]
  <2> SUFFICES ASSUME NEW i \in 1..(n + 1)
               PROVE  Append(Path[Prev(b)], b)[i] = Path[b][i]
    BY ZenonT(30)
  <2>1. CASE i = n + 1
    BY <1>6, <1>9, <2>1, PathFacts
  <2>2. CASE i \in 1..n
    BY <1>3, <1>4, <1>6, <2>2
  <2>3. i = n + 1 \/ i \in 1..n
    BY <1>9
  <2> QED BY ZenonT(30), <2>1, <2>2, <2>3
<1>8. Append(Path[Prev(b)], b) = Path[b]
  BY <1>1, <1>6, <1>7, <1>9, SeqEqual
<1> QED BY <1>3, <1>4, <1>5, <1>8, <1>9

\* The path of a block agrees with that of its parent.
LEMMA ParentAgrees ==
  ASSUME NEW b \in Block \ {Genesis}
  PROVE  \A i \in 1..Len(Path[Prev(b)]) : Path[b][i] = Path[Prev(b)][i]
<1>1. Path[Prev(b)] \in Seq(Block) /\ Append(Path[Prev(b)], b) = Path[b]
  BY AppendPath, PathFacts
<1> HIDE DEF Prev
<1> QED BY <1>1, AppendProperties

\* The header at place m of a path has the first m headers of it as its own path.
LEMMA SubPath ==
  ASSUME NEW b \in Block, NEW m \in 1..Len(Path[b])
  PROVE  Len(Path[Path[b][m]]) = m /\ \A l \in 1..m : Path[Path[b][m]][l] = Path[b][l]
BY PathAssumption

\* Two paths that meet at height k - 1 agree on the k headers up to there.
LEMMA PathsAgree ==
  ASSUME NEW a \in Block, NEW b \in Block, NEW k \in Nat \ {0},
         k <= Len(Path[a]), k <= Len(Path[b]),
         k = 1 \/ Path[a][k] = Path[b][k]
  PROVE  \A i \in 1..k : Path[a][i] = Path[b][i]
<1>1. CASE k = 1
  BY <1>1, PathFacts
<1>2. CASE Path[a][k] = Path[b][k]
  <2>1. k \in 1..Len(Path[a]) /\ k \in 1..Len(Path[b])
    BY PathFacts
  <2>2. \A i \in 1..k : Path[Path[a][k]][i] = Path[a][i]
    BY <2>1, PathAssumption
  <2>3. \A i \in 1..k : Path[Path[b][k]][i] = Path[b][i]
    BY <2>1, PathAssumption
  <2> QED BY <1>2, <2>2, <2>3
<1> QED BY <1>1, <1>2

\* The k-th header of a path has height k - 1.
LEMMA HeightOnPath ==
  ASSUME NEW b \in Block, NEW k \in 1..Len(Path[b])
  PROVE  Path[b][k] \in Block /\ Height(Path[b][k]) = k - 1
BY PathAssumption, PathFacts DEF Height

\* Re-applying a path of which the first k leaves are already there yields it.
LEMMA ReappliedIsPath ==
  ASSUME NEW m, NEW b \in Block, NEW k \in Nat,
         \A i \in 1..Len(Path[b]) : i <= k => m[i] = Path[b][i]
  PROVE  Reapplied(m, b, k) = Path[b]
<1>1. Path[b] \in Seq(Block)
  BY PathFacts
<1>2. Reapplied(m, b, k) = [i \in 1..Len(Path[b]) |-> Path[b][i]]
  BY PathFacts DEF Reapplied
<1>3. Path[b] = [i \in 1..Len(Path[b]) |-> Path[b][i]]
  BY <1>1
<1> QED BY <1>2, <1>3

\* The fork point of the header MMR: up to it the path of a is that of b.
LEMMA HeaderForkAgrees ==
  ASSUME NEW a \in Block, NEW b \in Block, NEW h, NEW hs,
         NEW k \in 1..Len(Path[b]), HeaderForkApplies(b, Path[a], h, k, hs)
  PROVE  k <= Len(Path[a]) /\ \A i \in 1..k : Path[a][i] = Path[b][i]
<1>1. /\ k \in Nat /\ k >= 1 /\ k <= Len(Path[b]) /\ Len(Path[b]) \in Nat
      /\ Len(Path[a]) \in Nat /\ Len(Path[a]) >= 1
  BY PathFacts
<1>2. CASE k = 1
  BY <1>1, <1>2, PathFacts
<1>3. CASE k # 1
  <2>1. OnCurrentChain(Path[b][k], Path[a], h)
    BY <1>3 DEF HeaderForkApplies, ForkPoint
  <2>2. k <= Len(Path[a]) /\ Path[a][k] = Path[b][k]
    BY <1>1, <2>1, HeightOnPath DEF OnCurrentChain
  <2> QED BY <1>1, <2>2, PathsAgree
<1> QED BY <1>2, <1>3

\* rewind_and_apply_header_fork turns the MMR of any path into that of b.
LEMMA HeaderForkYieldsPath ==
  ASSUME NEW a \in Block, NEW b \in Block, NEW h, NEW hs,
         NEW k \in 1..Len(Path[b]), HeaderForkApplies(b, Path[a], h, k, hs)
  PROVE  Reapplied(Path[a], b, k) = Path[b]
<1>1. k \in Nat /\ \A i \in 1..Len(Path[b]) : i <= k => i \in 1..k
  BY PathFacts
<1> QED BY ZenonT(30), <1>1, HeaderForkAgrees, ReappliedIsPath

\* The fork point of the body: up to it the chain of a is that of b.
LEMMA ForkAgrees ==
  ASSUME NEW a \in Block, NEW b \in Block, NEW j \in 1..Len(Path[a]),
         ForkPoint(a, Path[b], Height(b), j)
  PROVE  j <= Len(Path[b]) /\ \A i \in 1..j : Path[a][i] = Path[b][i]
<1>1. j \in Nat /\ j >= 1 /\ j <= Len(Path[a]) /\ Len(Path[b]) \in Nat \ {0}
  BY PathFacts
<1>2. j <= Len(Path[b]) /\ (j = 1 \/ Path[a][j] = Path[b][j])
  <2>1. CASE j = 1
    BY <1>1, <2>1
  <2>2. CASE j # 1
    <3>1. OnCurrentChain(Path[a][j], Path[b], Height(b))
      BY <2>2 DEF ForkPoint
    <3> QED BY <1>1, <3>1, HeightOnPath DEF OnCurrentChain
  <2> QED BY <2>1, <2>2
<1>3. \A i \in 1..j : Path[a][i] = Path[b][i]
  BY <1>1, <1>2, PathsAgree
<1> QED BY <1>2, <1>3

\* rewind_and_apply_fork turns the body MMRs from the path of head to that of
\* b, once the header extension is the path of b.
LEMMA BodyForkYieldsPath ==
  ASSUME NEW a \in Block, NEW b \in Block, NEW j \in 1..Len(Path[a]),
         ForkPoint(a, Path[b], Height(b), j)
  PROVE  Reapplied(Path[a], b, j) = Path[b]
<1>1. j \in Nat /\ \A i \in 1..Len(Path[b]) : i <= j => i \in 1..j
  BY PathFacts
<1> QED BY <1>1, ForkAgrees, ReappliedIsPath

-----------------------------------------------------------------------------
(* The inductive invariant. *)

\* A header is only saved after its parent.
HeadersClosed == \A b \in headers : Leaves(Path[b]) \subseteq headers

\* The part of the invariant about the database and the MMRs.
ChainInv ==
    /\ DbTypeOK
    /\ HeadersClosed
    /\ \E a \in headers : header_pmmr = Path[a]
    /\ BodyMmrAtHead
    /\ head \in headers /\ header_head \in headers /\ blocks \subseteq headers
    /\ Work[head] <= Work[header_head]

\* The part about the threads: the header of the block a thread works on was
\* committed by its first step.  It is why a body that is rejected after a
\* reset cannot leave an unknown header in the header MMR.
ThreadInv ==
    /\ ThreadTypeOK
    /\ \A t \in Thread :
        pc[t] \in {"is_known", "check_orphan", "add_orphan", "body", "notify"}
            => blk[t] # Genesis /\ blk[t] \in headers

IInv == ChainInv /\ ThreadInv

\* The leaves of the path of a stored header are stored headers.
LEMMA ClosedUnderParent ==
  ASSUME HeadersClosed, headers \subseteq Block, NEW b \in headers
  PROVE  \A i \in 1..Len(Path[b]) : Path[b][i] \in headers
BY DEF HeadersClosed, Leaves

\* Saving a header whose parent is stored keeps the stored headers closed.
LEMMA ClosedStep ==
  ASSUME HeadersClosed, headers \subseteq Block,
         NEW b \in Block \ {Genesis}, Prev(b) \in headers
  PROVE  \A c \in headers \cup {b} : Leaves(Path[c]) \subseteq headers \cup {b}
<1> SUFFICES ASSUME NEW c \in headers \cup {b}, NEW i \in 1..Len(Path[c])
             PROVE  Path[c][i] \in headers \cup {b}
  BY DEF Leaves
<1>1. CASE c \in headers
  BY <1>1, ClosedUnderParent
<1>2. CASE c = b
  <2>1. Path[b] = Append(Path[Prev(b)], b) /\ Path[Prev(b)] \in Seq(Block)
    BY AppendPath, PathFacts
  <2>2. CASE i <= Len(Path[Prev(b)])
    <3>1. i \in 1..Len(Path[Prev(b)])
      BY <2>1, <2>2
    <3>2. Path[b][i] = Path[Prev(b)][i]
      BY <2>1, <3>1, AppendProperties
    <3> QED BY <1>2, <3>1, <3>2, ClosedUnderParent
  <2>3. CASE i > Len(Path[Prev(b)])
    <3>1. i = Len(Path[b])
      BY <1>2, <2>3, AppendPath, PathFacts
    <3> QED BY <1>2, <3>1, PathFacts
  <2> QED BY <1>2, <2>2, <2>3, PathFacts, AppendPath
<1> QED BY <1>1, <1>2

\* pipe::process_block_header: what it leaves behind is again a chain.
LEMMA HeaderStep ==
  ASSUME ChainInv, NEW b \in Block \ {Genesis}, NEW k \in HeaderForks(b), HeaderOk(b, k)
  PROVE  /\ NewHeaders(b, k) \subseteq Block /\ headers \subseteq NewHeaders(b, k)
         /\ \A c \in NewHeaders(b, k) : Leaves(Path[c]) \subseteq NewHeaders(b, k)
         /\ NewHeaderHead(b, k) \in NewHeaders(b, k)
         /\ Work[header_head] <= Work[NewHeaderHead(b, k)]
         /\ b \in NewHeaders(b, k)
         /\ ~CheckKnown(b) => Work[b] <= Work[NewHeaderHead(b, k)]
         /\ \E a \in NewHeaders(b, k) : NewHeaderPmmr(b, k) = Path[a]
<1> USE DEF ChainInv, DbTypeOK
<1>1. Work \in [Block -> Nat]
  BY WorkAssumption
<1>2. CASE k = 0
  <2>1. NewHeaders(b, k) = headers /\ NewHeaderHead(b, k) = header_head
        /\ NewHeaderPmmr(b, k) = header_pmmr
    BY <1>2 DEF NewHeaders, NewHeaderHead, NewHeaderPmmr
  <2>2. ~CheckKnown(b) => b \in headers /\ Work[b] <= Work[header_head]
    BY <1>1, <1>2 DEF HeaderOk, HeaderKnown, HasMoreWork
  <2>3. CheckKnown(b) => b \in headers
    <3>1. head # Genesis => Prev(head) \in headers
      <4> SUFFICES ASSUME head # Genesis PROVE Prev(head) \in headers
        OBVIOUS
      <4>1. Len(Path[head]) \in Nat /\ Len(Path[head]) >= 2
        BY PathAssumption, PathFacts
      <4>2. Len(Path[head]) - 1 \in 1..Len(Path[head])
        BY <4>1
      <4> QED BY <4>2, ClosedUnderParent DEF Prev
    <3> QED BY <3>1 DEF CheckKnown
  <2> QED BY <1>1, <2>1, <2>2, <2>3 DEF HeadersClosed
<1>3. CASE k # 0
  <2>1. k \in 1..Len(Path[Prev(b)]) /\ Prev(b) \in Block
    BY <1>3, AppendPath, PathFacts DEF HeaderForks
  <2>2. Prev(b) \in headers
        /\ Reapplied(header_pmmr, Prev(b), k) = Path[Prev(b)]
    BY <1>3 DEF HeaderOk
  <2>3. NewHeaders(b, k) = headers \cup {b}
    BY <1>3 DEF NewHeaders
  <2>4. \A c \in NewHeaders(b, k) : Leaves(Path[c]) \subseteq NewHeaders(b, k)
    BY <2>2, <2>3, ClosedStep
  <2>7. k > 0
    BY <2>1, PathFacts
  <2>5. CASE HasMoreWork(b, header_head)
    <3>1. NewHeaderPmmr(b, k) = Append(Path[Prev(b)], b)
      BY <2>2, <2>5, <2>7 DEF NewHeaderPmmr
    <3>2. NewHeaderHead(b, k) = b /\ NewHeaderPmmr(b, k) = Path[b]
      BY <2>5, <2>7, <3>1, AppendPath DEF NewHeaderHead
    <3> QED BY <1>1, <2>3, <2>4, <2>5, <3>2 DEF HasMoreWork
  <2>6. CASE ~HasMoreWork(b, header_head)
    <3>1. NewHeaderHead(b, k) = header_head /\ NewHeaderPmmr(b, k) = header_pmmr
      BY <2>6 DEF NewHeaderHead, NewHeaderPmmr
    <3> QED BY <1>1, <2>3, <2>4, <2>6, <3>1 DEF HasMoreWork
  <2> QED BY <2>5, <2>6
<1> QED BY <1>2, <1>3

-----------------------------------------------------------------------------
(* One lemma per kind of step. *)

\* The initial state, a node that has just stored genesis.
LEMMA InitInv == Init => IInv
<1> SUFFICES ASSUME Init PROVE IInv
  OBVIOUS
<1> USE DEF Init
<1>1. DbTypeOK
  <2>1. <<Genesis>> \in Seq(Block)
    BY PathAssumption
  <2> QED BY <2>1, PathAssumption DEF DbTypeOK
<1>2. ThreadTypeOK
  BY PathAssumption DEF ThreadTypeOK, NoResult
<1>3. HeadersClosed
  BY PathAssumption DEF HeadersClosed, Leaves
<1>4. ChainInv
  BY <1>1, <1>3, PathAssumption, WorkAssumption DEF ChainInv, BodyMmrAtHead
<1>5. ThreadInv
  BY <1>2 DEF ThreadInv
<1> QED BY <1>4, <1>5 DEF IInv

\* Steps of a thread that touch neither the database nor the MMRs.
LEMMA ChainStutter ==
  ASSUME ChainInv, UNCHANGED <<db, mmrs>>
  PROVE  ChainInv'
BY DEF ChainInv, DbTypeOK, HeadersClosed, BodyMmrAtHead, Leaves, db, mmrs

\* Chain::process_block_header.
LEMMA ProcessBlockHeaderInv ==
  ASSUME ChainInv, NEW b \in Block \ {Genesis}, NEW k \in HeaderForks(b),
         ProcessBlockHeader(b, k)
  PROVE  ChainInv' /\ headers \subseteq headers' /\ b \in headers'
<1>1. HeaderOk(b, k)
  BY DEF ProcessBlockHeader
<1> USE DEF ProcessBlockHeader
<1>2. headers' \subseteq Block /\ headers \subseteq headers' /\ b \in headers'
  BY <1>1, HeaderStep
<1>3. header_head' \in headers' /\ Work[header_head] <= Work[header_head']
  BY <1>1, HeaderStep
<1>4. HeadersClosed'
  BY <1>1, HeaderStep DEF HeadersClosed
<1>5. \E a \in headers' : header_pmmr' = Path[a]
  BY <1>1, HeaderStep
<1>6. DbTypeOK'
  BY <1>2, <1>3, <1>5, PathFacts DEF DbTypeOK, ChainInv
<1>7. Work[head'] <= Work[header_head']
  BY <1>2, <1>3, WorkAssumption DEF ChainInv, DbTypeOK
<1> QED BY <1>2, <1>3, <1>4, <1>5, <1>6, <1>7 DEF ChainInv, BodyMmrAtHead

\* The blocks applied on the way to b are blocks.
LEMMA AppliedInBlock ==
  ASSUME NEW b \in Block, NEW j \in Nat
  PROVE  AppliedFrom(b, j) \subseteq Block
<1> SUFFICES ASSUME NEW i \in (j + 1)..Len(Path[b]) PROVE Path[b][i] \in Block
  BY DEF AppliedFrom
<1>1. i \in 1..Len(Path[b])
  BY PathFacts
<1> QED BY <1>1, PathFacts

\* The locked section of process_block_single, when it succeeds.
LEMMA ProcessBodyInv ==
  ASSUME IInv, NEW t \in Thread, ProcessBody(t)
  PROVE  ChainInv' /\ headers \subseteq headers'
<1> DEFINE b == blk[t]
<1>0. pc[t] = "body" /\ ~CheckKnown(b) /\ ChainInv
  BY ZenonT(30) DEF ProcessBody, IInv
<1>1. b \in Block \ {Genesis}
  BY <1>0 DEF IInv, ThreadInv, ThreadTypeOK
<1>2. PICK h \in HeaderForks(b), k \in BodyForks(b), j \in HeadForks :
        HeaderOk(b, h) /\ BodyOk(b, h, k, j) /\ CommitBlock(b, h, j)
  BY ZenonT(30) DEF ProcessBody
<1>3. ~CheckKnown(b) /\ ChainInv
  BY <1>0
<1> HIDE DEF b
<1>4. headers' \subseteq Block /\ headers \subseteq headers' /\ b \in headers'
  BY <1>1, <1>2, <1>3, HeaderStep DEF CommitBlock
<1>5. /\ header_head' \in headers' /\ Work[header_head] <= Work[header_head']
      /\ Work[b] <= Work[header_head']
  BY <1>1, <1>2, <1>3, HeaderStep DEF CommitBlock
<1>6. HeadersClosed'
  BY <1>1, <1>2, <1>3, HeaderStep DEF CommitBlock, HeadersClosed
<1>7. \E a \in headers' : header_pmmr' = Path[a]
  BY <1>1, <1>2, <1>3, HeaderStep DEF CommitBlock
<1>8. blocks' \subseteq headers' /\ tail' \in Block \cup {NoBlock}
  BY <1>1, <1>2, <1>3, <1>4 DEF CommitBlock, ChainInv, DbTypeOK
<1>9. /\ head' \in headers' /\ sums' \subseteq Block /\ txhashset' = Path[head']
      /\ Work[head'] <= Work[header_head']
  <2>1. CASE HasMoreWork(b, head)
    <3>1. head' = b /\ sums' = sums \cup AppliedFrom(b, j)
          /\ txhashset' = Append(Reapplied(txhashset, Prev(b), j), b)
      BY <1>2, <2>1 DEF CommitBlock
    <3>2. Reapplied(txhashset, Prev(b), j) = Path[Prev(b)]
      BY <1>2 DEF BodyOk, BlockApplies
    <3>3. txhashset' = Path[b]
      BY <1>1, <3>1, <3>2, AppendPath
    <3>4. j \in Nat
      BY <1>3, PathFacts DEF HeadForks, ChainInv, DbTypeOK
    <3>5. AppliedFrom(b, j) \subseteq Block
      BY <1>1, <3>4, AppliedInBlock
    <3> QED BY <1>3, <1>4, <1>5, <3>1, <3>3, <3>5 DEF ChainInv, DbTypeOK
  <2>2. CASE ~HasMoreWork(b, head)
    <3>1. UNCHANGED <<head, sums, txhashset>>
      BY <1>2, <2>2 DEF CommitBlock
    <3> QED BY <1>3, <1>4, <1>5, <3>1, WorkAssumption DEF ChainInv, DbTypeOK, BodyMmrAtHead
  <2> QED BY <2>1, <2>2
<1>10. DbTypeOK'
  BY <1>4, <1>5, <1>7, <1>8, <1>9, PathFacts DEF DbTypeOK
<1> QED BY <1>4, <1>5, <1>6, <1>7, <1>8, <1>9, <1>10 DEF ChainInv, BodyMmrAtHead

\* The locked section when it fails: the header MMR may have moved, to the
\* path of a header that is stored.
LEMMA RejectBodyInv ==
  ASSUME IInv, NEW t \in Thread, RejectBody(t)
  PROVE  ChainInv' /\ UNCHANGED headers
<1> DEFINE b == blk[t]
<1>0. pc[t] = "body"
  BY ZenonT(30) DEF RejectBody
<1>1. b \in Block \ {Genesis} /\ b \in headers /\ ChainInv
  BY <1>0 DEF IInv, ThreadInv, ThreadTypeOK
<1>2. UNCHANGED <<headers, blocks, sums, head, header_head, tail, txhashset>>
  BY ZenonT(30) DEF RejectBody, db
<1>3. header_pmmr' = header_pmmr
      \/ \E h \in HeaderForks(b) : HeaderOk(b, h) /\ header_pmmr' = NewHeaderPmmr(b, h)
  BY DEF RejectBody
<1> HIDE DEF b
<1>4. \E a \in headers' : header_pmmr' = Path[a]
  <2>1. CASE header_pmmr' = header_pmmr
    BY <1>1, <1>2, <2>1 DEF ChainInv
  <2>2. CASE \E h \in HeaderForks(b) : HeaderOk(b, h) /\ header_pmmr' = NewHeaderPmmr(b, h)
    <3>1. PICK h \in HeaderForks(b) : HeaderOk(b, h) /\ header_pmmr' = NewHeaderPmmr(b, h)
      BY <2>2
    <3>2. \E a \in NewHeaders(b, h) : NewHeaderPmmr(b, h) = Path[a]
      BY <1>1, <3>1, HeaderStep
    <3>3. NewHeaders(b, h) = headers
      BY <1>1 DEF NewHeaders
    <3> QED BY <1>2, <3>1, <3>2, <3>3
  <2> QED BY <1>3, <2>1, <2>2
<1>5. DbTypeOK'
  <2>1. header_pmmr' \in Seq(Block)
    BY ZenonT(30), <1>1, <1>2, <1>4, PathFacts DEF ChainInv, DbTypeOK
  <2> QED BY ZenonT(30), <1>1, <1>2, <2>1 DEF ChainInv, DbTypeOK
<1> QED BY <1>1, <1>2, <1>4, <1>5 DEF ChainInv, HeadersClosed, BodyMmrAtHead, Leaves

\* Chain::sync_block_headers.
LEMMA SyncBlockHeadersInv ==
  ASSUME ChainInv, NEW b \in Block \ {Genesis}, NEW i \in 2..Len(Path[b]),
         SyncBlockHeaders(b, i)
  PROVE  ChainInv' /\ headers \subseteq headers'
<1> DEFINE chunk == {Path[b][n] : n \in i..Len(Path[b])}
<1>1. headers' = headers \cup chunk /\ Path[b][i - 1] \in headers
  BY DEF SyncBlockHeaders
<1>2. UNCHANGED <<blocks, sums, head, tail, txhashset>>
  BY DEF SyncBlockHeaders
<1>3. i \in Nat /\ i >= 2 /\ i <= Len(Path[b]) /\ Len(Path[b]) \in Nat
  BY PathFacts
<1>4. chunk \subseteq Block
  BY <1>3, PathFacts
<1>5. \A n \in 1..Len(Path[b]) : Path[b][n] \in headers'
  <2> SUFFICES ASSUME NEW n \in 1..Len(Path[b]) PROVE Path[b][n] \in headers'
    OBVIOUS
  <2>1. CASE n >= i
    BY <1>1, <1>3, <2>1
  <2>2. CASE n < i
    <3>1. i - 1 \in 1..Len(Path[b]) /\ n \in 1..(i - 1)
      BY <1>3, <2>2
    <3>2. Len(Path[Path[b][i - 1]]) = i - 1 /\ Path[Path[b][i - 1]][n] = Path[b][n]
      BY ZenonT(30), <3>1, SubPath
    <3>3. Path[Path[b][i - 1]][n] \in headers
      BY <1>1, <3>1, <3>2, ClosedUnderParent DEF ChainInv, DbTypeOK
    <3> QED BY <1>1, <3>2, <3>3
  <2> QED BY <1>3, <2>1, <2>2
<1>6. HeadersClosed'
  <2> SUFFICES ASSUME NEW c \in headers', NEW n \in 1..Len(Path[c])
               PROVE  Path[c][n] \in headers'
    BY DEF HeadersClosed, Leaves
  <2>1. CASE c \in headers
    BY <1>1, <2>1, ClosedUnderParent DEF ChainInv, DbTypeOK
  <2>2. CASE c \in chunk
    <3>1. PICK m \in i..Len(Path[b]) : c = Path[b][m]
      BY <2>2
    <3>2. m \in 1..Len(Path[b])
      BY <1>3
    <3>3. Len(Path[c]) = m /\ \A l \in 1..m : Path[c][l] = Path[b][l]
      BY <3>1, <3>2, SubPath
    <3>4. n \in 1..m /\ n \in 1..Len(Path[b])
      BY <1>3, <3>2, <3>3
    <3> QED BY <1>5, <3>3, <3>4
  <2> QED BY <1>1, <2>1, <2>2
<1>7. b \in headers'
  BY <1>3, <1>5, PathFacts
<1>8. /\ header_head' \in headers' /\ Work[head'] <= Work[header_head']
      /\ \E a \in headers' : header_pmmr' = Path[a]
  <2>1. CASE HasMoreWork(b, header_head)
    <3>1. PICK k \in 1..Len(Path[b]) :
            /\ HeaderForkApplies(b, header_pmmr, Len(header_pmmr) - 1, k, headers')
            /\ header_head' = b /\ header_pmmr' = Reapplied(header_pmmr, b, k)
      BY ZenonT(30), <2>1 DEF SyncBlockHeaders
    <3>2. PICK a \in headers : header_pmmr = Path[a]
      BY DEF ChainInv
    <3>3. a \in Block
      BY <3>2 DEF ChainInv, DbTypeOK
    <3>4. header_pmmr' = Path[b]
      BY <3>1, <3>2, <3>3, HeaderForkYieldsPath
    <3>5. Work[head'] <= Work[b]
      BY <1>2, <2>1, WorkAssumption DEF HasMoreWork, ChainInv, DbTypeOK
    <3> QED BY <1>7, <3>1, <3>4, <3>5
  <2>2. CASE ~HasMoreWork(b, header_head)
    <3>1. UNCHANGED <<header_head, header_pmmr>>
      BY <2>2 DEF SyncBlockHeaders
    <3> QED BY ZenonT(30), <1>1, <1>2, <3>1 DEF ChainInv
  <2> QED BY <2>1, <2>2
<1>9. DbTypeOK'
  <2>1. headers' \subseteq Block
    BY <1>1, <1>4 DEF ChainInv, DbTypeOK
  <2>2. header_pmmr' \in Seq(Block) /\ header_head' \in Block
    BY <1>8, <2>1, PathFacts
  <2> QED BY ZenonT(30), <1>2, <2>1, <2>2 DEF ChainInv, DbTypeOK
<1> QED BY <1>1, <1>2, <1>6, <1>8, <1>9 DEF ChainInv, BodyMmrAtHead

\* Chain::reset_chain_head.
LEMMA ResetChainHeadInv ==
  ASSUME ChainInv, NEW b \in Block, ResetChainHead(b)
  PROVE  ChainInv' /\ UNCHANGED headers
<1>1. PICK k \in 1..Len(Path[b]), n \in 1..Len(Path[b]), j \in HeadForks :
        /\ ForkApplies(b, header_pmmr, header_head, k, j)
        /\ HeaderForkApplies(b, header_pmmr, Len(header_pmmr) - 1, n, headers)
        /\ txhashset' = Reapplied(txhashset, b, j)
        /\ sums' = sums \cup AppliedFrom(b, j)
        /\ header_pmmr' = Reapplied(header_pmmr, b, n)
  BY DEF ResetChainHead
<1>2. b \in headers /\ head' = b /\ header_head' = b /\ UNCHANGED <<headers, blocks, tail>>
  BY DEF ResetChainHead
<1>3. PICK a \in headers : header_pmmr = Path[a]
  BY DEF ChainInv
<1>4. a \in Block /\ head \in Block /\ j \in 1..Len(Path[head]) /\ j \in Nat
  BY <1>3, PathFacts DEF ChainInv, DbTypeOK, HeadForks
<1>5. header_pmmr' = Path[b]
  BY <1>1, <1>3, <1>4, HeaderForkYieldsPath
<1>6. Reapplied(header_pmmr, b, k) = Path[b]
  BY ZenonT(30), <1>1, <1>3, <1>4, HeaderForkYieldsPath DEF ForkApplies
<1>7. ForkPoint(head, Path[b], Height(b), j)
  BY <1>1, <1>6 DEF ForkApplies
<1>8. txhashset' = Path[b]
  BY <1>1, <1>4, <1>7, BodyForkYieldsPath DEF ChainInv, BodyMmrAtHead
<1>9. AppliedFrom(b, j) \subseteq Block
  BY <1>4, AppliedInBlock
<1>10. DbTypeOK'
  BY ZenonT(30), <1>1, <1>2, <1>5, <1>8, <1>9, PathFacts DEF ChainInv, DbTypeOK
<1>11. Work[head'] <= Work[header_head']
  BY <1>2, WorkAssumption
<1> QED
  BY <1>2, <1>5, <1>8, <1>10, <1>11 DEF ChainInv, HeadersClosed, BodyMmrAtHead, Leaves

\* Chain::compact deletes blocks and moves the tail, nothing else.
LEMMA CompactInv ==
  ASSUME ChainInv, Compact
  PROVE  ChainInv' /\ UNCHANGED headers
<1>1. /\ UNCHANGED <<headers, head, header_head, header_pmmr, txhashset>>
      /\ blocks' \subseteq blocks /\ sums' \subseteq sums
  BY DEF Compact, mmrs
<1>2. tail' \in Block
  <2>1. Cutoff \in Nat /\ Cutoff + 1 \in 1..Len(header_pmmr)
    <3>1. Height(head) \in Nat
      BY PathFacts DEF ChainInv, DbTypeOK
    <3>2. SatSub(Height(head), Horizon) \in Nat /\ SatSub(Height(head), ArchiveLag) \in Nat
      BY <3>1, BoundAssumption DEF SatSub
    <3>3. ArchiveHeight \in Int
      BY <3>2, BoundAssumption DEF ArchiveHeight
    <3>4. Cutoff > 0 /\ SatSub(Height(head), Horizon) < Len(header_pmmr)
          /\ ArchiveHeight < Len(header_pmmr)
      BY DEF Compact
    <3>5. Len(header_pmmr) \in Nat
      BY DEF ChainInv, DbTypeOK
    <3>6. Cutoff \in Int /\ Cutoff < Len(header_pmmr)
      BY <3>2, <3>3, <3>4, <3>5 DEF Cutoff
    <3> QED BY <3>4, <3>5, <3>6
  <2> QED BY <2>1 DEF Compact, ChainInv, DbTypeOK
<1>3. DbTypeOK'
  BY <1>1, <1>2 DEF ChainInv, DbTypeOK
<1> QED BY <1>1, <1>3 DEF ChainInv, HeadersClosed, BodyMmrAtHead, Leaves

-----------------------------------------------------------------------------
(* The blocks of the body chain: what a fork stores and where compact cuts. *)

\* After rewind_and_apply_fork to p the chain of p is stored from the tail up: up to
\* the fork point because that of head is, above it because it was just applied.
LEMMA StoredAfterFork ==
  ASSUME RewindReady, head \in Block, NEW p \in Block, NEW j \in 1..Len(Path[head]),
         ForkPoint(head, Path[p], Height(p), j),
         \A i \in (j + 1)..Len(Path[p]) : Path[p][i] \in blocks
  PROVE  \A i \in 1..Len(Path[p]) :
            \/ Path[p][i] \in blocks \cap (sums \cup AppliedFrom(p, j))
            \/ tail # NoBlock /\ i - 1 < Height(tail)
<1> SUFFICES ASSUME NEW i \in 1..Len(Path[p])
             PROVE  \/ Path[p][i] \in blocks \cap (sums \cup AppliedFrom(p, j))
                    \/ tail # NoBlock /\ i - 1 < Height(tail)
  OBVIOUS
<1>1. j \in Nat /\ Len(Path[p]) \in Nat /\ Len(Path[head]) \in Nat
  BY PathFacts
<1>2. CASE i <= j
  <2>1. i \in 1..j /\ i \in 1..Len(Path[head])
    BY <1>1, <1>2
  <2>2. Path[p][i] = Path[head][i]
    BY <2>1, ForkAgrees
  <2> QED BY <2>1, <2>2 DEF RewindReady
<1>3. CASE i > j
  <2>1. i \in (j + 1)..Len(Path[p])
    BY <1>1, <1>3
  <2>2. Path[p][i] \in AppliedFrom(p, j)
    BY <2>1 DEF AppliedFrom
  <2> QED BY <2>1, <2>2
<1> QED BY <1>1, <1>2, <1>3

\* The fork points of a successful locked section.
LEMMA BodyForkPoint ==
  ASSUME ChainInv, NEW b \in Block \ {Genesis}, NEW h \in HeaderForks(b), HeaderOk(b, h),
         NEW k \in BodyForks(b), NEW j \in HeadForks, BodyOk(b, h, k, j)
  PROVE  /\ ForkPoint(head, Path[Prev(b)], Height(Prev(b)), j)
         /\ \A i \in (j + 1)..Len(Path[Prev(b)]) : Path[Prev(b)][i] \in blocks
<1>1. Prev(b) \in Block /\ k \in 1..Len(Path[Prev(b)])
  BY AppendPath DEF BodyForks
<1>2. PICK a \in Block : NewHeaderPmmr(b, h) = Path[a]
  BY HeaderStep
<1>3. ForkApplies(Prev(b), Path[a], NewHeaderHead(b, h), k, j)
  BY <1>2 DEF BodyOk
<1>4. Reapplied(Path[a], Prev(b), k) = Path[Prev(b)]
  BY ZenonT(30), <1>1, <1>2, <1>3, HeaderForkYieldsPath DEF ForkApplies
<1> QED BY ZenonT(30), <1>3, <1>4 DEF ForkApplies

\* compact cuts at the horizon, which is not above the archive header.
LEMMA CutoffIsHorizon ==
  ASSUME head \in Block
  PROVE  Cutoff = SatSub(Height(head), Horizon) /\ Cutoff \in Nat
<1> DEFINE H == Height(head)
           x == SatSub(H, ArchiveLag)
           y == SatSub(H, Horizon)
<1>1. H \in Nat
  BY PathFacts
<1>2. /\ Horizon \in Nat /\ ArchiveLag \in Nat /\ ArchiveInterval \in Nat \ {0}
      /\ ArchiveLag + ArchiveInterval <= Horizon
  BY BoundAssumption
<1> HIDE DEF H
<1>3. x \in Nat /\ y \in Nat /\ (y > 0 => x - ArchiveInterval >= y) /\ (y = 0 => x >= 0)
  BY <1>1, <1>2 DEF SatSub
<1> HIDE DEF x, y
<1>4. x % ArchiveInterval \in 0..(ArchiveInterval - 1) /\ x % ArchiveInterval <= x
  BY <1>2, <1>3
<1>5. ArchiveHeight = x - (x % ArchiveInterval)
  BY DEF ArchiveHeight, x, H
<1>6. ~(ArchiveHeight < y)
  BY <1>2, <1>3, <1>4, <1>5
<1> QED BY <1>3, <1>6 DEF Cutoff, y, H

\* compact moves the tail up to the cutoff.
LEMMA CompactTail ==
  ASSUME ChainInv, Compact
  PROVE  tail' # NoBlock /\ Height(tail') = Cutoff /\ (tail # NoBlock => Height(tail) <= Cutoff)
<1>1. head \in Block
  BY DEF ChainInv, DbTypeOK
<1>2. Cutoff = SatSub(Height(head), Horizon) /\ Cutoff \in Nat
  BY <1>1, CutoffIsHorizon
<1>3. PICK a \in Block : header_pmmr = Path[a]
  BY DEF ChainInv, DbTypeOK
<1>4. Height(tail') = Cutoff /\ tail' # NoBlock
  <2>1. Cutoff + 1 \in 1..Len(Path[a])
    BY <1>2, <1>3, PathFacts DEF Compact
  <2>2. tail' = Path[a][Cutoff + 1]
    BY <1>3 DEF Compact
  <2>3. Height(Path[a][Cutoff + 1]) = (Cutoff + 1) - 1 /\ Path[a][Cutoff + 1] \in Block
    BY <2>1, HeightOnPath, PathFacts
  <2>4. NoBlock \notin Block
    BY PathAssumption
  <2>5. Height(tail') = Height(Path[a][Cutoff + 1])
    BY <2>2
  <2> QED BY <1>2, <2>2, <2>3, <2>4, <2>5
<1>5. tail # NoBlock => Height(tail) <= Cutoff
  <2>1. tail # NoBlock => Height(tail) + Horizon + CompactSlack <= Height(head) /\ Height(tail) \in Nat
    BY PathFacts DEF Compact, ChainInv, DbTypeOK
  <2>2. Height(head) \in Nat /\ Horizon \in Nat /\ CompactSlack \in Nat
    BY <1>1, PathFacts, BoundAssumption
  <2> QED BY <1>2, <2>1, <2>2 DEF SatSub
<1> QED BY <1>4, <1>5
=============================================================================
