---------------------------- MODULE ReorgProofs -----------------------------
(***************************************************************************)
(* A valid block is accepted wherever it forks off, as long as the fork    *)
(* point is stored: compaction and earlier reorganisations never take away *)
(* what rewind_and_apply_fork needs.                                       *)
(***************************************************************************)
EXTENDS ForkProofs, WellFoundedInduction

\* The provers of a leaf that names none, in this order.
USE SMTT(30), ZenonT(30), SMTT(60)

-----------------------------------------------------------------------------
(* Fork points exist. *)

\* A nonempty set of numbers up to n has a largest one.
LEMMA LargestExists ==
  ASSUME NEW n \in Nat, NEW S \in SUBSET (1..n), S # {}
  PROVE  \E x \in S : \A y \in S : y <= x
<1> DEFINE R == OpToRel(<, Nat)
           T == {m \in Nat : n - m \in S}
<1>1. T \subseteq Nat /\ \A x \in S : n - x \in T /\ n - (n - x) = x
  OBVIOUS
<1>2. PICK y \in T : \A z \in T : ~(<<z, y>> \in R)
  <2>1. T # {}
    BY ZenonT(30), <1>1
  <2>2. IsWellFoundedOn(R, Nat)
    BY ZenonT(30), NatLessThanWellFounded DEF R
  <2> HIDE DEF T, R
  <2> QED BY ZenonT(30), <1>1, <2>1, <2>2, WFMin
<1>3. \A z \in T : ~(z < y)
  BY ZenonT(30), <1>1, <1>2 DEF OpToRel
<1>4. n - y \in S /\ \A x \in S : ~(n - x < y) /\ x \in 1..n
  BY <1>1, <1>3
<1>5. y \in Nat
  OBVIOUS
<1> HIDE DEF T
<1>6. \A x \in S : x <= n - y
  BY <1>4, <1>5
<1> QED BY ZenonT(30), <1>4, <1>6

\* The walk back from b along its path always ends.
LEMMA ForkPointExists ==
  ASSUME NEW b \in Block, NEW m, NEW h
  PROVE  \E k \in 1..Len(Path[b]) : ForkPoint(b, m, h, k)
<1> DEFINE n == Len(Path[b])
           S == {k \in 1..n : k = 1 \/ OnCurrentChain(Path[b][k], m, h)}
<1>1. n \in Nat /\ 1 \in 1..n
  BY PathFacts
<1>2. S \in SUBSET (1..n) /\ S # {}
  BY <1>1
<1>3. PICK k \in S : \A y \in S : y <= k
  <2> HIDE DEF S, n
  <2> QED BY ZenonT(30), <1>1, <1>2, LargestExists
<1>4. \A i \in (k + 1)..n : i \in 1..n /\ ~(i <= k) /\ i # 1
  BY <1>1
<1>5. \A i \in (k + 1)..n : ~OnCurrentChain(Path[b][i], m, h)
  BY <1>3, <1>4
<1> QED BY <1>5 DEF ForkPoint

-----------------------------------------------------------------------------
(* What is stored. *)

\* The lowest height with a block.  Until the first compaction it is that of genesis,
\* which the tail does not name.
Low == IF Genesis \in blocks THEN 0 ELSE Height(tail)

\* A stored block has a valid body and, from Low up, its whole chain is stored too: a
\* block is only saved on top of its parent, and compaction cuts every chain at the
\* same height.
StoredInv ==
    /\ blocks \subseteq ValidBody /\ sums \subseteq blocks
    /\ Genesis \in blocks => Genesis \in sums /\ (tail # NoBlock => Height(tail) <= 1)
    /\ tail = NoBlock => blocks = {Genesis}
    /\ \A c \in blocks : /\ Height(c) >= Low
                         /\ \A i \in 1..Len(Path[c]) : i - 1 >= Low => Path[c][i] \in blocks

\* Steps that leave the blocks and the tail alone.
LEMMA StoredStutter ==
  ASSUME StoredInv, UNCHANGED <<blocks, sums, tail>>
  PROVE  StoredInv'
BY DEF StoredInv, Low, Height

\* Low is a height.
LEMMA LowIsHeight ==
  ASSUME StoredInv, DbTypeOK
  PROVE  Low \in Nat /\ (Genesis \notin blocks => tail \in Block)
<1>1. Genesis \notin blocks => tail # NoBlock
  BY DEF StoredInv
<1> QED BY <1>1, PathFacts DEF DbTypeOK, Low

\* A block that is accepted is stored on top of its parent.
LEMMA ProcessBodyStored ==
  ASSUME IInv, StoredInv, NEW t \in Thread, ProcessBody(t)
  PROVE  StoredInv'
<1> DEFINE b == blk[t]
           p == Prev(b)
<1>1. b \in Block \ {Genesis} /\ ChainInv /\ DbTypeOK
  BY DEF IInv, ThreadInv, ThreadTypeOK, ProcessBody, ChainInv
<1>2. PICK h \in HeaderForks(b), k \in BodyForks(b), j \in HeadForks :
        HeaderOk(b, h) /\ BodyOk(b, h, k, j) /\ CommitBlock(b, h, j)
  BY DEF ProcessBody
<1> HIDE DEF b
<1>3. /\ p \in Block /\ Len(Path[p]) = Len(Path[b]) - 1 /\ Append(Path[p], b) = Path[b]
      /\ Len(Path[p]) \in Nat \ {0} /\ Len(Path[b]) \in Nat /\ Path[p][Len(Path[p])] = p
      /\ Path[b][Len(Path[b])] = b /\ Path[p] \in Seq(Block)
  BY <1>1, AppendPath, PathFacts
<1>4. j \in Nat /\ j >= 1 /\ head \in Block
  BY <1>1, PathFacts DEF HeadForks, DbTypeOK
<1>5. \A i \in (j + 1)..Len(Path[p]) : Path[p][i] \in blocks
  BY <1>1, <1>2, BodyForkPoint
<1>6. p \in blocks
  <2>1. CASE j < Len(Path[p])
    <3>1. Len(Path[p]) \in (j + 1)..Len(Path[p])
      BY <1>3, <1>4, <2>1
    <3> QED BY <1>3, <1>5, <3>1
  <2>2. CASE ~(j < Len(Path[p]))
    <3>1. j >= Len(Path[p])
      BY <1>3, <1>4, <2>2
    <3>2. p \in sums
      BY <1>2, <3>1 DEF BodyOk, BlockApplies
    <3> QED BY <3>2 DEF StoredInv
  <2> QED BY <2>1, <2>2
<1>7. b \in ValidBody
  BY <1>2 DEF BodyOk, BlockApplies
<1>8. blocks' = blocks \cup {b} /\ tail' = IF tail = NoBlock THEN b ELSE tail
  BY <1>2 DEF CommitBlock
<1>9. sums' \subseteq sums \cup AppliedFrom(b, j)
  BY <1>2 DEF CommitBlock
<1>10. \A i \in 1..Len(Path[p]) : Path[b][i] = Path[p][i]
  <2>1. b \in Block /\ Path[p] \in Seq(Block)
    BY ZenonT(30), <1>1, <1>3
  <2>2. \A i \in 1..Len(Path[p]) : Append(Path[p], b)[i] = Path[p][i]
    BY <2>1
  <2> QED BY ZenonT(30), <1>3, <2>2
<1>11. AppliedFrom(b, j) \subseteq blocks'
  <2> SUFFICES ASSUME NEW i \in (j + 1)..Len(Path[b]) PROVE Path[b][i] \in blocks'
    BY DEF AppliedFrom
  <2>1. CASE i = Len(Path[b])
    BY <1>3, <1>8, <2>1
  <2>2. CASE i # Len(Path[b])
    <3>1. i \in (j + 1)..Len(Path[p]) /\ i \in 1..Len(Path[p])
      BY <1>3, <1>4, <2>2
    <3> QED BY <1>5, <1>8, <1>10, <3>1
  <2> QED BY <2>1, <2>2
<1>12. Low \in Nat /\ Height(b) = Height(p) + 1 /\ Height(p) \in Nat /\ Height(p) >= Low
  BY <1>1, <1>3, <1>6, LowIsHeight, PathFacts DEF Height, StoredInv
<1>13. tail = NoBlock => Height(b) = 1
  <2>1. tail = NoBlock => p = Genesis
    BY <1>6 DEF StoredInv
  <2>2. Height(Genesis) = 0
    BY PathAssumption DEF Height
  <2>3. p = Genesis => Height(p) = 0
    BY <2>2
  <2> QED BY <1>12, <2>1, <2>3
<1>14. Low' = Low
  <2>1. CASE Genesis \in blocks
    BY <1>8, <2>1 DEF Low
  <2>2. CASE Genesis \notin blocks
    <3>1. tail # NoBlock /\ Genesis \notin blocks' /\ tail' = tail
      BY <1>1, <1>8, <2>2 DEF StoredInv
    <3> QED BY <2>2, <3>1 DEF Low, Height
  <2> QED BY <2>1, <2>2
<1>15. blocks' \subseteq ValidBody /\ sums' \subseteq blocks'
  BY <1>7, <1>8, <1>9, <1>11 DEF StoredInv
<1>16. Genesis \in blocks' => Genesis \in sums' /\ (tail' # NoBlock => Height(tail') <= 1)
  <2> SUFFICES ASSUME Genesis \in blocks'
               PROVE  Genesis \in sums' /\ (tail' # NoBlock => Height(tail') <= 1)
    OBVIOUS
  <2>1. Genesis \in blocks
    BY <1>1, <1>8
  <2>2. sums \subseteq sums'
    BY <1>2 DEF CommitBlock
  <2>3. tail = NoBlock => tail' = b
    BY <1>8
  <2>4. tail # NoBlock => tail' = tail
    BY <1>8
  <2>5. Height(b) <= 1 \/ tail # NoBlock
    BY <1>13
  <2> QED BY <2>1, <2>2, <2>3, <2>4, <2>5 DEF StoredInv, Height
<1>17. tail' # NoBlock
  BY <1>1, <1>8, PathAssumption
<1>18. ASSUME NEW c \in blocks'
       PROVE  /\ Height(c) >= Low
              /\ \A i \in 1..Len(Path[c]) : i - 1 >= Low => Path[c][i] \in blocks'
  <2>1. CASE c \in blocks
    BY <1>8, <2>1 DEF StoredInv
  <2>2. CASE c = b
    <3>1. Height(c) >= Low
      BY <1>12, <2>2
    <3>2. ASSUME NEW i \in 1..Len(Path[b]), i - 1 >= Low PROVE Path[b][i] \in blocks'
      <4>1. CASE i = Len(Path[b])
        BY <1>3, <1>8, <4>1
      <4>2. CASE i # Len(Path[b])
        <5>1. i \in 1..Len(Path[p])
          BY <1>3, <4>2
        <5>2. Path[p][i] \in blocks
          BY <1>6, <3>2, <5>1 DEF StoredInv
        <5> QED BY <1>8, <1>10, <5>1, <5>2
      <4> QED BY <4>1, <4>2
    <3> QED BY <2>2, <3>1, <3>2
  <2> QED BY <1>8, <2>1, <2>2
<1> QED BY <1>14, <1>15, <1>16, <1>17, <1>18 DEF StoredInv, Height

\* compact cuts all chains at the new tail.
LEMMA CompactStored ==
  ASSUME ChainInv, StoredInv, Compact
  PROVE  StoredInv'
<1> DEFINE old == {b \in blocks : Height(b) < Cutoff}
<1>1. head \in Block /\ blocks \subseteq Block /\ DbTypeOK
  BY DEF ChainInv, DbTypeOK
<1>2. Cutoff = SatSub(Height(head), Horizon) /\ Cutoff \in Nat /\ Cutoff > 0
  BY <1>1, CutoffIsHorizon DEF Compact
<1>3. blocks' = blocks \ old /\ sums' = sums \ old
  BY DEF Compact
<1>4. Genesis \notin blocks'
  <2>1. Height(Genesis) = 0
    BY PathAssumption DEF Height
  <2> QED BY <1>2, <1>3, <2>1
<1>5. tail' # NoBlock /\ Height(tail') = Cutoff
  BY CompactTail
<1>6. Low' = Cutoff
  BY <1>4, <1>5 DEF Low, Height
<1>7. Low <= Cutoff
  <2>1. CASE Genesis \in blocks
    BY <1>2, <2>1 DEF Low
  <2>2. CASE Genesis \notin blocks
    <3>1. tail # NoBlock /\ Low = Height(tail)
      BY <2>2 DEF StoredInv, Low
    <3> QED BY <3>1, CompactTail
  <2> QED BY <2>1, <2>2
<1>8. Low \in Nat
  BY <1>1, LowIsHeight
<1>9. ASSUME NEW c \in blocks'
      PROVE  /\ Height(c) >= Cutoff
             /\ \A i \in 1..Len(Path[c]) : i - 1 >= Cutoff => Path[c][i] \in blocks'
  <2>1. c \in blocks /\ c \in Block /\ Height(c) \in Nat /\ ~(Height(c) < Cutoff)
    BY <1>1, <1>3, PathFacts
  <2>2. ASSUME NEW i \in 1..Len(Path[c]), i - 1 >= Cutoff PROVE Path[c][i] \in blocks'
    <3>1. i \in Nat /\ Height(Path[c][i]) = i - 1
      BY <2>1, HeightOnPath, PathFacts
    <3>2. i - 1 >= Low
      BY <1>2, <1>7, <1>8, <2>2, <3>1
    <3>3. Path[c][i] \in blocks
      BY <2>1, <3>2 DEF StoredInv
    <3>4. ~(Height(Path[c][i]) < Cutoff)
      BY <1>2, <2>2, <3>1
    <3> QED BY <1>3, <3>3, <3>4
  <2> QED BY <1>2, <2>1, <2>2
<1>10. blocks' \subseteq ValidBody /\ sums' \subseteq blocks'
  BY <1>3 DEF StoredInv
<1> QED BY <1>4, <1>5, <1>6, <1>9, <1>10 DEF StoredInv, Height

\* Every step keeps the chains stored.
LEMMA StoredStep ==
  ASSUME IInv, StoredInv, [Next]_vars
  PROVE  StoredInv'
<1>1. ASSUME UNCHANGED <<blocks, sums, tail>> PROVE StoredInv'
  BY <1>1, StoredStutter
<1>2. ASSUME UNCHANGED db PROVE StoredInv'
  BY <1>1, <1>2 DEF db
<1>3. ASSUME NEW t \in Thread, ThreadStep(t) PROVE StoredInv'
  <2>1. ASSUME NEW b \in Block, StartBlock(t, b) \/ NextOrphan(t, b) PROVE StoredInv'
    <3>1. CASE StartBlock(t, b)
      BY ZenonT(30), <1>1, <3>1 DEF StartBlock, ProcessBlockHeader
    <3>2. CASE NextOrphan(t, b)
      BY ZenonT(30), <1>1, <1>2, <3>2 DEF NextOrphan, ProcessBlockHeader
    <3> QED BY ZenonT(30), <2>1, <3>1, <3>2
  <2>2. CASE IsKnown(t) \/ CheckOrphan(t) \/ DeferOrphan(t) \/ RejectBody(t) \/ Notify(t)
             \/ TakeOrphans(t) \/ EndOfHeight(t)
    BY <1>2, <2>2 DEF IsKnown, CheckOrphan, DeferOrphan, RejectBody, Notify, TakeOrphans, EndOfHeight
  <2>3. CASE ProcessBody(t)
    BY <2>3, ProcessBodyStored
  <2> QED BY ZenonT(30), <1>3, <2>1, <2>2, <2>3 DEF ThreadStep
<1>4. ASSUME NEW b \in Block, ProcessHeader(b) PROVE StoredInv'
  BY <1>1, <1>4 DEF ProcessHeader, ProcessBlockHeader
<1>5. ASSUME NEW b \in Block, NEW i \in 2..Len(Path[b]), SyncBlockHeaders(b, i) PROVE StoredInv'
  BY ZenonT(30), <1>1, <1>5 DEF SyncBlockHeaders
<1>6. ASSUME NEW b \in Block, InvalidateHeader(b) PROVE StoredInv'
  BY ZenonT(30), <1>2, <1>6 DEF InvalidateHeader
<1>7. ASSUME NEW b \in Block, ResetChainHead(b) PROVE StoredInv'
  <2>1. PICK k \in 1..Len(Path[b]), j \in HeadForks :
            ForkApplies(b, header_pmmr, header_head, k, j) /\ sums' = sums \cup AppliedFrom(b, j)
    BY ZenonT(30), <1>7 DEF ResetChainHead
  <2>2. AppliedFrom(b, j) \subseteq blocks
    BY ZenonT(30), <2>1 DEF ForkApplies, AppliedFrom
  <2>3. UNCHANGED <<blocks, tail>>
    BY <1>7 DEF ResetChainHead
  <2> QED BY <2>1, <2>2, <2>3 DEF StoredInv, Low, Height
<1>8. CASE Compact
  BY <1>8, CompactStored DEF IInv
<1>9. CASE UNCHANGED vars
  BY <1>2, <1>9 DEF vars
<1> QED BY <1>3, <1>4, <1>5, <1>6, <1>7, <1>8, <1>9 DEF Next

-----------------------------------------------------------------------------
(* The locked section of a valid block. *)

\* A block of the body chain that is stored has its sums.
LEMMA StoredHasSums ==
  ASSUME IInv, RewindReady, StoredInv, NEW i \in 1..Len(Path[head]), Path[head][i] \in blocks
  PROVE  /\ Path[head][i] \in sums
         /\ \A n \in (i + 1)..Len(Path[head]) : Path[head][n] \in blocks \cap sums
<1>1. head \in Block /\ DbTypeOK
  BY DEF IInv, ChainInv, DbTypeOK
<1>2. Len(Path[head]) \in Nat /\ i \in Nat /\ Height(Path[head][i]) = i - 1
  BY <1>1, HeightOnPath, PathFacts
<1>3. Low \in Nat /\ i - 1 >= Low
  BY ZenonT(30), <1>1, <1>2, LowIsHeight DEF StoredInv
<1>4. CASE Genesis \in blocks
  <2>1. tail # NoBlock => Height(tail) \in Nat /\ Height(tail) <= 1
    BY ZenonT(30), <1>1, <1>4, PathFacts DEF StoredInv, DbTypeOK
  <2>2. \A n \in 1..Len(Path[head]) : n # 1 => Path[head][n] \in blocks \cap sums
    BY <1>2, <2>1 DEF RewindReady
  <2>3. Path[head][1] \in sums
    BY <1>1, <1>4, PathFacts DEF StoredInv
  <2>4. \A n \in (i + 1)..Len(Path[head]) : n \in 1..Len(Path[head]) /\ n # 1
    BY <1>2
  <2> QED BY ZenonT(30), <2>2, <2>3, <2>4
<1>5. CASE Genesis \notin blocks
  <2>1. tail # NoBlock /\ Low = Height(tail)
    BY <1>5 DEF StoredInv, Low
  <2>2. \A n \in 1..Len(Path[head]) : n >= i => Path[head][n] \in blocks \cap sums
    BY <1>2, <1>3, <2>1 DEF RewindReady
  <2>3. \A n \in (i + 1)..Len(Path[head]) : n \in 1..Len(Path[head]) /\ n >= i
    BY <1>2
  <2> QED BY <1>2, <2>2, <2>3
<1> QED BY <1>4, <1>5

\* Without resets the header of the block is known and the header MMR is the chain of
\* header_head, so that the header extension is rewound to the parent.
LEMMA HeaderSideApplies ==
  ASSUME IInv, ForksInv, "reset" \notin Ops, NEW t \in Thread, pc[t] = "body",
         Leaves(Path[blk[t]]) \cap denylist = {}, Prev(blk[t]) \in blocks
  PROVE  /\ 0 \in HeaderForks(blk[t]) /\ HeaderOk(blk[t], 0)
         /\ NewHeaderPmmr(blk[t], 0) = Path[header_head] /\ NewHeaderHead(blk[t], 0) = header_head
         /\ \E k \in BodyForks(blk[t]) :
                HeaderForkApplies(Prev(blk[t]), Path[header_head], Height(header_head), k, headers)
<1> DEFINE b == blk[t]
           p == Prev(b)
<1>1. /\ b \in Block \ {Genesis} /\ b \in headers /\ p \in headers /\ header_head \in Block
      /\ HeadersClosed
  BY ZenonT(30) DEF IInv, ThreadInv, ThreadTypeOK, ChainInv, DbTypeOK
<1>2. Work[b] <= Work[header_head] /\ header_pmmr = Path[header_head]
  BY ZenonT(30) DEF ForksInv, HeaderBehind, ForksConsistent, HeaderMmrAtHeaderHead
<1>h. pc[t] = "body" /\ Leaves(Path[b]) \cap denylist = {}
  BY ZenonT(30)
<1> HIDE DEF b
<1>3. /\ p \in Block /\ Len(Path[p]) = Len(Path[b]) - 1 /\ Append(Path[p], b) = Path[b]
      /\ Len(Path[p]) \in Nat \ {0} /\ Len(Path[b]) \in Nat /\ Path[p] \in Seq(Block)
  BY ZenonT(30), <1>1, AppendPath, PathFacts
<1>4. HeaderKnown(b)
  BY <1>1, <1>2, WorkAssumption DEF HeaderKnown, HasMoreWork
<1>5. 0 \in HeaderForks(b) /\ HeaderOk(b, 0)
  BY <1>3, <1>4 DEF HeaderForks, HeaderOk
<1>6. NewHeaderPmmr(b, 0) = Path[header_head] /\ NewHeaderHead(b, 0) = header_head
  BY <1>2 DEF NewHeaderPmmr, NewHeaderHead
<1>7. PICK k \in 1..Len(Path[p]) : ForkPoint(p, Path[header_head], Height(header_head), k)
  BY ZenonT(30), <1>3, ForkPointExists
<1>8. k \in Nat /\ k >= 1 /\ \A i \in k..Len(Path[p]) : i \in 1..Len(Path[p]) /\ i \in 1..Len(Path[b])
  BY <1>3
<1>9. \A i \in k..Len(Path[p]) : Path[p][i] \in headers
  BY <1>1, <1>8 DEF HeadersClosed, Leaves
<1>10. Readable(p, Path[header_head], Height(header_head))
  BY <1>1, PathFacts DEF Readable, Height
<1>11. \A i \in (k + 1)..Len(Path[p]) : Path[p][i] \notin denylist
  <2> SUFFICES ASSUME NEW i \in (k + 1)..Len(Path[p]) PROVE Path[p][i] \notin denylist
    OBVIOUS
  <2>1. i \in 1..Len(Path[p]) /\ i \in 1..Len(Path[b])
    BY <1>3, <1>8
  <2>2. Path[p][i] = Path[b][i]
    BY ZenonT(30), <1>1, <2>1, ParentAgrees
  <2> QED BY ZenonT(30), <1>h, <2>1, <2>2 DEF Leaves
<1>12. RootsMatch(Path[header_head], p, k)
  <2>1. CASE k = 1
    <3>1. Path[header_head][1] = Path[p][1]
      <4>1. header_head \in Block /\ p \in Block
        BY ZenonT(30), <1>1, <1>3
      <4>2. \A c \in Block : Path[c][1] = Genesis
        BY PathAssumption
      <4> HIDE DEF p
      <4> QED BY <4>1, <4>2
    <3>2. \A i \in 1..k : i = 1
      BY <2>1
    <3> QED BY ZenonT(30), <3>1, <3>2 DEF RootsMatch
  <2>2. CASE k # 1
    <3>1. OnCurrentChain(Path[p][k], Path[header_head], Height(header_head))
      BY <1>7, <2>2 DEF ForkPoint
    <3>2. Height(Path[p][k]) = k - 1 /\ Len(Path[header_head]) \in Nat
      BY ZenonT(30), <1>1, <1>3, HeightOnPath, PathFacts
    <3>3. k <= Len(Path[header_head]) /\ Path[header_head][k] = Path[p][k]
      BY <1>8, <3>1, <3>2 DEF OnCurrentChain
    <3>4. \A i \in 1..k : Path[header_head][i] = Path[p][i]
      BY <1>1, <1>3, <1>8, <3>3, PathsAgree
    <3> QED BY ZenonT(30), <3>4 DEF RootsMatch
  <2> QED BY <2>1, <2>2
<1>13. HeaderForkApplies(p, Path[header_head], Height(header_head), k, headers)
  BY ZenonT(30), <1>7, <1>9, <1>10, <1>11, <1>12 DEF HeaderForkApplies
<1>14. k \in BodyForks(b)
  BY ZenonT(30) DEF BodyForks
<1> QED BY ZenonT(30), <1>5, <1>6, <1>13, <1>14 DEF b

\* The body side: from a stored fork point both chains are stored up to their ends.
LEMMA BodySideApplies ==
  ASSUME IInv, RewindReady, StoredInv, NEW b \in Block \ {Genesis}, b \in ValidBody,
         Prev(b) \in blocks,
         \A i \in CommonPrefix(Prev(b), head) :
            (\A n \in CommonPrefix(Prev(b), head) : n <= i) => Path[b][i] \in blocks
  PROVE  \E j \in HeadForks :
            /\ ForkPoint(head, Path[Prev(b)], Height(Prev(b)), j)
            /\ \A i \in (j + 1)..Len(Path[head]) : Path[head][i] \in blocks \cap sums
            /\ \A i \in (j + 1)..Len(Path[Prev(b)]) : Path[Prev(b)][i] \in blocks \cap ValidBody
            /\ j < Len(Path[Prev(b)]) => Path[Prev(b)][j] \in sums
            /\ RootsMatch(txhashset, Prev(b), j)
            /\ BlockApplies(b, j)
<1> DEFINE p == Prev(b)
<1>1. /\ p \in Block /\ head \in Block /\ DbTypeOK /\ txhashset = Path[head]
      /\ Len(Path[p]) \in Nat \ {0} /\ Len(Path[head]) \in Nat \ {0}
  BY ZenonT(30), AppendPath, PathFacts DEF IInv, ChainInv, DbTypeOK, BodyMmrAtHead
<1>2. PICK j \in 1..Len(Path[head]) : ForkPoint(head, Path[p], Height(p), j)
  BY <1>1, ForkPointExists
<1>3. j <= Len(Path[p]) /\ \A i \in 1..j : Path[head][i] = Path[p][i]
  BY <1>1, <1>2, ForkAgrees
<1>4. j \in Nat /\ j >= 1 /\ j \in 1..j /\ j \in 1..Len(Path[p])
  BY <1>1, <1>3
<1>5. /\ j \in CommonPrefix(p, head) /\ \A n \in CommonPrefix(p, head) : n <= j
      /\ Path[b][j] = Path[p][j] /\ Path[head][j] = Path[p][j]
  BY ZenonT(30), <1>1, <1>2, CommonIsForkPoint
<1>6. Path[head][j] \in blocks
  BY ZenonT(30), <1>5
<1>7. /\ Path[head][j] \in sums
      /\ \A n \in (j + 1)..Len(Path[head]) : Path[head][n] \in blocks \cap sums
  BY ZenonT(30), <1>6, StoredHasSums
<1>8. \A i \in (j + 1)..Len(Path[p]) : Path[p][i] \in blocks \cap ValidBody
  <2> SUFFICES ASSUME NEW i \in (j + 1)..Len(Path[p]) PROVE Path[p][i] \in blocks
    BY ZenonT(30) DEF StoredInv
  <2>1. Height(Path[head][j]) = j - 1 /\ Low \in Nat
    BY ZenonT(30), <1>1, HeightOnPath, LowIsHeight
  <2>2. j - 1 >= Low
    BY <1>6, <2>1 DEF StoredInv
  <2>3. i \in 1..Len(Path[p]) /\ i - 1 >= Low
    BY <1>1, <1>4, <2>1, <2>2
  <2> QED BY ZenonT(30), <2>3 DEF StoredInv
<1>9. Path[p][j] \in sums
  BY <1>5, <1>7
<1>10. RootsMatch(txhashset, p, j)
  BY ZenonT(30), <1>1, <1>3 DEF RootsMatch
<1>11. BlockApplies(b, j)
  <2>1. j < Len(Path[p]) \/ p \in sums
    <3>1. ~(j < Len(Path[p])) => j = Len(Path[p])
      BY <1>1, <1>3, <1>4
    <3>2. Path[p][Len(Path[p])] = p
      BY ZenonT(30), <1>1, PathFacts
    <3> QED BY ZenonT(30), <1>9, <3>1, <3>2
  <2>2. \A i \in 1..Len(Path[p]) : i <= j => txhashset[i] = Path[p][i]
    BY <1>1, <1>3, <1>4
  <2>3. Reapplied(txhashset, p, j) = Path[p]
    BY <1>1, <1>4, <2>2, ReappliedIsPath
  <2> QED BY <2>1, <2>3 DEF BlockApplies
<1> QED BY ZenonT(30), <1>2, <1>7, <1>8, <1>9, <1>10, <1>11 DEF HeadForks

\* The locked section of a valid block with a stored fork point succeeds.
LEMMA AcceptedState ==
  ASSUME IInv, RewindReady, StoredInv, ForksInv, "reset" \notin Ops
  PROVE  ValidBlockAccepted
<1> SUFFICES ASSUME NEW t \in Thread, pc[t] = "body", blk[t] \in ValidBody,
                    Leaves(Path[blk[t]]) \cap denylist = {}, Prev(blk[t]) \in blocks,
                    \A i \in CommonPrefix(Prev(blk[t]), head) :
                        (\A n \in CommonPrefix(Prev(blk[t]), head) : n <= i) => Path[blk[t]][i] \in blocks
             PROVE  \E h \in HeaderForks(blk[t]), k \in BodyForks(blk[t]), j \in HeadForks :
                        HeaderOk(blk[t], h) /\ BodyOk(blk[t], h, k, j)
  BY ZenonT(30) DEF ValidBlockAccepted
<1> DEFINE b == blk[t]
           p == Prev(b)
<1>1. b \in Block \ {Genesis} /\ header_head \in Block
  BY ZenonT(30) DEF IInv, ThreadInv, ThreadTypeOK, ChainInv, DbTypeOK
<1>2. /\ 0 \in HeaderForks(b) /\ HeaderOk(b, 0)
      /\ NewHeaderPmmr(b, 0) = Path[header_head] /\ NewHeaderHead(b, 0) = header_head
  BY HeaderSideApplies
<1>3. PICK k \in BodyForks(b) :
        HeaderForkApplies(p, Path[header_head], Height(header_head), k, headers)
  BY HeaderSideApplies
<1>4. PICK j \in HeadForks :
        /\ ForkPoint(head, Path[p], Height(p), j)
        /\ \A i \in (j + 1)..Len(Path[head]) : Path[head][i] \in blocks \cap sums
        /\ \A i \in (j + 1)..Len(Path[p]) : Path[p][i] \in blocks \cap ValidBody
        /\ j < Len(Path[p]) => Path[p][j] \in sums
        /\ RootsMatch(txhashset, p, j)
        /\ BlockApplies(b, j)
  BY ZenonT(30), <1>1, BodySideApplies
<1> HIDE DEF b
<1>5. p \in Block /\ k \in 1..Len(Path[p])
  BY ZenonT(30), <1>1, AppendPath DEF BodyForks
<1>6. Reapplied(Path[header_head], p, k) = Path[p]
  BY <1>1, <1>3, <1>5, HeaderForkYieldsPath
<1>7. BodyOk(b, 0, k, j)
  BY ZenonT(30), <1>2, <1>3, <1>4, <1>6 DEF BodyOk, ForkApplies
<1> QED BY ZenonT(30), <1>2, <1>7 DEF b

\* Compaction and reorganisations never take away what a valid block needs: from the
\* tail up the body chain is stored with its sums, and, where no reset interferes, a
\* valid block whose fork point is stored is accepted (Chain::compact,
\* pipe::rewind_and_apply_fork).
THEOREM CompactionCorrect == Spec => []CompactionKeepsBlocks
<1>1. Init => StoredInv
  BY PathAssumption, WorkAssumption DEF Init, StoredInv, Low, Height
<1>2. IInv /\ RewindReady /\ StoredInv /\ ForksInv => CompactionKeepsBlocks
  BY AcceptedState DEF CompactionKeepsBlocks
<1> QED BY <1>1, <1>2, Invariance, RewindCorrect, ForksInvariance, StoredStep, PTL DEF Spec
=============================================================================
