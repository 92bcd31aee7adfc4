----------------------------- MODULE ChainProofs -----------------------------
(***************************************************************************)
(* Proofs about Chain, for every block tree, every number of threads and   *)
(* every pool size: the MMRs never hold a mix of two forks.                *)
(***************************************************************************)
EXTENDS ChainLemmas

\* The provers of a leaf that names none, in this order.
USE SMTT(30), ZenonT(30), SMTT(60)

-----------------------------------------------------------------------------
(* The threads. *)

\* A step that leaves the threads alone and forgets no header.
LEMMA ThreadStutter ==
  ASSUME ThreadInv, headers \subseteq headers', UNCHANGED <<orphans, threads>>,
         denylist' \subseteq Block
  PROVE  ThreadInv'
BY DEF ThreadInv, ThreadTypeOK, threads

\* Updating a Boolean-valued function.
LEMMA ExceptBoolean ==
  ASSUME NEW f \in [Thread -> BOOLEAN], NEW t \in Thread
  PROVE  /\ [f EXCEPT ![t] = TRUE] \in [Thread -> BOOLEAN]
         /\ [f EXCEPT ![t] = FALSE] \in [Thread -> BOOLEAN]
BY ZenonT(30)

\* Updating a function at one thread.
LEMMA ExceptIn ==
  ASSUME NEW S, NEW f \in [Thread -> S], NEW t \in Thread, NEW x \in S
  PROVE  [f EXCEPT ![t] = x] \in [Thread -> S]
BY ZenonT(30)

\* The types of the thread variables, action by action.
LEMMA ThreadTypes ==
  ASSUME IInv, NEW t \in Thread, ThreadStep(t)
  PROVE  ThreadTypeOK'
<1> USE DEF IInv, ChainInv, DbTypeOK, ThreadInv, ThreadTypeOK
<1> DEFINE Labels == {"idle", "is_known", "check_orphan", "add_orphan",
                      "body", "notify", "check_orphans", "next"}
<1>g. Genesis \in Block /\ blk \in [Thread -> Block] /\ pc \in [Thread -> Labels]
  BY ZenonT(30), PathAssumption
<1>l. "idle" \in Labels /\ "next" \in Labels /\ "check_orphan" \in Labels /\ "is_known" \in Labels
  OBVIOUS
<1>1. ASSUME NEW b \in Block \ {Genesis}, StartBlock(t, b) PROVE ThreadTypeOK'
  BY ZenonT(30), <1>1 DEF StartBlock, ProcessBlockHeader, Goto
<1>2. ASSUME NEW b \in Block \ {Genesis}, NextOrphan(t, b) PROVE ThreadTypeOK'
  <2>1. denylist' = denylist /\ orphans' = orphans /\ level' = level
        /\ accepted' = accepted /\ result' = result
    BY ZenonT(30), <1>2 DEF NextOrphan, ProcessBlockHeader
  <2>2. todo' \in [Thread -> SUBSET Block]
    BY ZenonT(30), <1>2 DEF NextOrphan
  <2>3. (pc' = pc \/ pc' = [pc EXCEPT ![t] = "is_known"])
        /\ (blk' = blk \/ blk' = [blk EXCEPT ![t] = b])
    BY <1>2 DEF NextOrphan, Goto
  <2>4. pc' \in [Thread -> Labels] /\ blk' \in [Thread -> Block]
    <3> HIDE DEF IInv, ChainInv, DbTypeOK, ThreadInv, ThreadTypeOK, Labels
    <3> QED BY ZenonT(30), <1>g, <1>l, <2>3, ExceptIn
  <2> QED BY ZenonT(30), <2>1, <2>2, <2>4
<1>3. CASE IsKnown(t)
  <2>1. UNCHANGED <<denylist, orphans, level, todo, accepted, result>>
    BY ZenonT(30), <1>3 DEF IsKnown
  <2>2. /\ \/ pc' = [pc EXCEPT ![t] = "idle"]
           \/ pc' = [pc EXCEPT ![t] = "next"]
           \/ pc' = [pc EXCEPT ![t] = "check_orphan"]
        /\ blk' = blk \/ blk' = [blk EXCEPT ![t] = Genesis]
    BY <1>3 DEF IsKnown, SingleFailed, Goto
  <2>3. pc' \in [Thread -> Labels] /\ blk' \in [Thread -> Block]
    <3> HIDE DEF IInv, ChainInv, DbTypeOK, ThreadInv, ThreadTypeOK, Labels
    <3> QED BY ZenonT(30), <1>g, <1>l, <2>2, ExceptIn
  <2> QED BY <2>1, <2>3
<1>4. CASE CheckOrphan(t)
  BY <1>4 DEF CheckOrphan, Goto
<1>5. CASE DeferOrphan(t)
  <2>1. orphans' \subseteq Block
    BY <1>5 DEF DeferOrphan, AddOrphan
  <2> QED BY <1>5, <1>g, <2>1 DEF DeferOrphan, SingleFailed, Goto
<1>6. CASE ProcessBody(t)
  <2>1. PICK j \in HeadForks : result' = [result EXCEPT ![t] =
              [updated |-> HasMoreWork(blk[t], head), prev_head |-> head,
               fork_point |-> Path[head][j]]]
    BY ZenonT(30), <1>6 DEF ProcessBody
  <2>2. Path[head][j] \in Block
    BY PathFacts DEF HeadForks
  <2>3. HasMoreWork(blk[t], head) \in BOOLEAN
    BY DEF HasMoreWork
  <2>4. result' \in [Thread -> [updated : BOOLEAN, prev_head : Block, fork_point : Block]]
    BY <2>1, <2>2, <2>3
  <2> QED BY ZenonT(30), <1>6, <2>4 DEF ProcessBody, Goto
<1>7. CASE RejectBody(t)
  BY ZenonT(30), <1>7, <1>g DEF RejectBody, SingleFailed, Goto
<1>8. CASE Notify(t)
  <2>1. level' \in [Thread -> Nat]
    <3>1. Height(blk[t]) + 1 \in Nat
      BY PathFacts
    <3>2. level' = level \/ level' = [level EXCEPT ![t] = Height(blk[t]) + 1]
      BY <1>8 DEF Notify
    <3> QED BY <3>1, <3>2
  <2>2. result' \in [Thread -> [updated : BOOLEAN, prev_head : Block, fork_point : Block]]
    BY <1>8, <1>g DEF Notify, NoResult
  <2>3. accepted' \in [Thread -> BOOLEAN]
    <3>1. accepted' = accepted \/ accepted' = [accepted EXCEPT ![t] = TRUE]
      BY ZenonT(30), <1>8 DEF Notify
    <3> QED BY ZenonT(30), <3>1, ExceptBoolean
  <2>4. pc' = [pc EXCEPT ![t] = "check_orphans"] \/ pc' = [pc EXCEPT ![t] = "next"]
    BY <1>8 DEF Notify, Goto
  <2> QED BY ZenonT(30), <1>8, <1>g, <2>1, <2>2, <2>3, <2>4 DEF Notify
<1>9. CASE TakeOrphans(t)
  BY <1>9 DEF TakeOrphans, AtHeight, TakeHeight, Goto
<1>10. CASE EndOfHeight(t)
  <2>1. accepted' \in [Thread -> BOOLEAN]
    <3>1. accepted' = [accepted EXCEPT ![t] = FALSE]
      BY <1>10 DEF EndOfHeight
    <3> QED BY <3>1, ExceptBoolean
  <2>2. level' \in [Thread -> Nat]
    <3>1. level' = [level EXCEPT ![t] = level[t] + 1] \/ level' = [level EXCEPT ![t] = 0]
      BY <1>10 DEF EndOfHeight
    <3>2. level[t] + 1 \in Nat
      OBVIOUS
    <3> HIDE DEF IInv
    <3>3. level \in [Thread -> Nat]
      BY DEF IInv
    <3> QED BY <3>1, <3>2, <3>3
  <2>3. pc' = [pc EXCEPT ![t] = "check_orphans"] \/ pc' = [pc EXCEPT ![t] = "idle"]
    BY <1>10 DEF EndOfHeight, Goto
  <2> QED BY ZenonT(30), <1>10, <2>1, <2>2, <2>3 DEF EndOfHeight
<1> QED
  BY ZenonT(30), <1>1, <1>2, <1>3, <1>4, <1>5, <1>6, <1>7, <1>8, <1>9, <1>10 DEF ThreadStep

\* The header of the block a thread works on is stored, action by action.
LEMMA ThreadBlocks ==
  ASSUME IInv, NEW t \in Thread, ThreadStep(t), headers \subseteq headers'
  PROVE  \A s \in Thread :
            pc'[s] \in {"is_known", "check_orphan", "add_orphan", "body", "notify"}
                => blk'[s] # Genesis /\ blk'[s] \in headers'
<1> DEFINE Busy == {"is_known", "check_orphan", "add_orphan", "body", "notify"}
           Goal == \A s \in Thread : pc'[s] \in Busy => blk'[s] # Genesis /\ blk'[s] \in headers'
<1> SUFFICES Goal
  BY ZenonT(30)
<1> USE DEF IInv, ThreadInv, ThreadTypeOK
\* Going on with the same block, returning, or starting with a stored header.
<1>a. ASSUME NEW l, pc[t] \in Busy, pc' = [pc EXCEPT ![t] = l], blk' = blk PROVE Goal
  BY <1>a
<1>b. ASSUME NEW l, l \notin Busy, pc' = [pc EXCEPT ![t] = l],
             blk' = blk \/ blk' = [blk EXCEPT ![t] = Genesis]
      PROVE  Goal
  BY <1>b
<1>c. ASSUME NEW b, b # Genesis, b \in headers', NEW l, pc' = [pc EXCEPT ![t] = l],
             blk' = [blk EXCEPT ![t] = b]
      PROVE  Goal
  BY <1>c
<1>1. ASSUME NEW b \in Block \ {Genesis}, StartBlock(t, b) PROVE Goal
  <2>1. PICK k \in HeaderForks(b) : ProcessBlockHeader(b, k)
    BY <1>1 DEF StartBlock
  <2>2. b \in headers'
    BY <2>1, ProcessBlockHeaderInv
  <2> HIDE DEF Goal
  <2> QED BY ZenonT(30), <1>1, <1>c, <2>2 DEF StartBlock, Goto
<1>2. ASSUME NEW b \in Block \ {Genesis}, NextOrphan(t, b) PROVE Goal
  <2>1. CASE HeaderRejected(b) /\ UNCHANGED <<db, mmrs, denylist, pc, blk>>
    BY <2>1
  <2>2. CASE (\E k \in HeaderForks(b) : ProcessBlockHeader(b, k))
             /\ Goto(t, "is_known") /\ blk' = [blk EXCEPT ![t] = b]
    <3>1. b \in headers'
      BY <2>2, ProcessBlockHeaderInv
    <3> HIDE DEF Goal
    <3> QED BY ZenonT(30), <1>c, <2>2, <3>1 DEF Goto
  <2> QED BY <1>2, <2>1, <2>2 DEF NextOrphan
<1>3. ASSUME SingleFailed(t) PROVE Goal
  <2>1. \E l : l \notin Busy /\ pc' = [pc EXCEPT ![t] = l]
    BY ZenonT(30), <1>3 DEF SingleFailed, Goto
  <2> HIDE DEF Goal, Busy
  <2> QED BY ZenonT(30), <1>3, <1>b, <2>1 DEF SingleFailed
<1>4. CASE IsKnown(t)
  <2>1. CASE SingleFailed(t)
    BY <1>3, <2>1
  <2>2. CASE Goto(t, "check_orphan") /\ UNCHANGED blk
    <3>1. pc[t] \in Busy
      BY <1>4 DEF IsKnown
    <3> HIDE DEF Goal, Busy
    <3> QED BY ZenonT(30), <1>a, <2>2, <3>1 DEF Goto
  <2> QED BY ZenonT(30), <1>4, <2>1, <2>2 DEF IsKnown
<1>5. CASE CheckOrphan(t)
  <2>1. pc[t] \in Busy /\ blk' = blk /\ \E l : pc' = [pc EXCEPT ![t] = l]
    BY ZenonT(30), <1>5 DEF CheckOrphan, Goto
  <2> HIDE DEF Goal, Busy
  <2> QED BY ZenonT(30), <1>a, <2>1
<1>6. CASE DeferOrphan(t)
  BY <1>3, <1>6 DEF DeferOrphan
<1>7. CASE ProcessBody(t)
  <2>1. pc[t] \in Busy /\ blk' = blk /\ pc' = [pc EXCEPT ![t] = "notify"]
    BY ZenonT(30), <1>7 DEF ProcessBody, Goto
  <2> HIDE DEF Goal, Busy
  <2> QED BY ZenonT(30), <1>a, <2>1
<1>8. CASE RejectBody(t)
  BY ZenonT(30), <1>3, <1>8 DEF RejectBody
<1>9. CASE Notify(t) \/ TakeOrphans(t) \/ EndOfHeight(t)
  <2>1. \E l \in {"check_orphans", "next", "idle"} : pc' = [pc EXCEPT ![t] = l]
    BY <1>9 DEF Notify, TakeOrphans, AtHeight, TakeHeight, EndOfHeight, Goto
  <2>2. blk' = blk \/ blk' = [blk EXCEPT ![t] = Genesis]
    BY <1>9 DEF Notify, TakeOrphans, EndOfHeight
  <2>3. \A l \in {"check_orphans", "next", "idle"} : l \notin Busy
    OBVIOUS
  <2> HIDE DEF Goal, Busy
  <2> QED BY ZenonT(30), <1>b, <2>1, <2>2, <2>3
<1> QED
  BY ZenonT(30), <1>1, <1>2, <1>4, <1>5, <1>6, <1>7, <1>8, <1>9 DEF ThreadStep

\* A step of a thread leaves the database and the MMRs a chain.
LEMMA ThreadStepChain ==
  ASSUME IInv, NEW t \in Thread, ThreadStep(t)
  PROVE  ChainInv' /\ headers \subseteq headers'
<1>1. ASSUME NEW b \in Block \ {Genesis}, StartBlock(t, b) \/ NextOrphan(t, b)
      PROVE  ChainInv' /\ headers \subseteq headers'
  <2>1. (\E k \in HeaderForks(b) : ProcessBlockHeader(b, k)) \/ UNCHANGED <<db, mmrs>>
    BY <1>1 DEF StartBlock, NextOrphan
  <2>2. UNCHANGED <<db, mmrs>> => UNCHANGED headers
    BY DEF db
  <2> QED BY <2>1, <2>2, ChainStutter, ProcessBlockHeaderInv DEF IInv
<1>2. ASSUME UNCHANGED <<db, mmrs>> PROVE ChainInv' /\ headers \subseteq headers'
  BY <1>2, ChainStutter DEF IInv, db
<1>3. CASE IsKnown(t) \/ CheckOrphan(t) \/ DeferOrphan(t) \/ Notify(t)
           \/ TakeOrphans(t) \/ EndOfHeight(t)
  BY ZenonT(30), <1>2, <1>3 DEF IsKnown, CheckOrphan, DeferOrphan, Notify, TakeOrphans, EndOfHeight
<1>4. CASE ProcessBody(t)
  BY <1>4, ProcessBodyInv
<1>5. CASE RejectBody(t)
  BY <1>5, RejectBodyInv
<1> QED BY <1>1, <1>3, <1>4, <1>5 DEF ThreadStep

-----------------------------------------------------------------------------
(* The blocks of the body chain. *)

\* A block that was accepted, on the body chain or beside it.
LEMMA ProcessBodyReady ==
  ASSUME IInv, RewindReady, NEW t \in Thread, ProcessBody(t)
  PROVE  RewindReady'
<1> DEFINE b == blk[t]
           p == Prev(b)
<1>1. b \in Block \ {Genesis}
  BY ZenonT(30) DEF IInv, ThreadInv, ThreadTypeOK, ProcessBody
<1>2. PICK h \in HeaderForks(b), k \in BodyForks(b), j \in HeadForks :
        HeaderOk(b, h) /\ BodyOk(b, h, k, j) /\ CommitBlock(b, h, j)
  BY ZenonT(30) DEF ProcessBody
<1>3. ChainInv /\ head \in Block
  BY DEF IInv, ChainInv, DbTypeOK
<1> HIDE DEF b
<1>4. blocks' = blocks \cup {b} /\ tail' = IF tail = NoBlock THEN b ELSE tail
  BY <1>2 DEF CommitBlock
<1>5. CASE HasMoreWork(b, head)
  <2>1. head' = b /\ sums' = sums \cup AppliedFrom(b, j)
    BY <1>2, <1>5 DEF CommitBlock
  <2>2. j \in 1..Len(Path[head]) /\ p \in Block
    BY <1>1, AppendPath DEF HeadForks
  <2>3. /\ ForkPoint(head, Path[p], Height(p), j)
        /\ \A i \in (j + 1)..Len(Path[p]) : Path[p][i] \in blocks
    BY <1>1, <1>2, <1>3, BodyForkPoint
  <2>4. \A i \in 1..Len(Path[p]) : \/ Path[p][i] \in blocks \cap (sums \cup AppliedFrom(p, j))
                                   \/ tail # NoBlock /\ i - 1 < Height(tail)
    BY <1>3, <2>2, <2>3, StoredAfterFork
  <2>5. j <= Len(Path[p])
    BY <1>3, <2>2, <2>3, ForkAgrees
  <2>6. /\ Len(Path[p]) \in Nat /\ Len(Path[b]) = Len(Path[p]) + 1 /\ j \in Nat
        /\ \A i \in 1..Len(Path[p]) : Path[b][i] = Path[p][i]
        /\ Path[b][Len(Path[b])] = b
    <3>1. Path[p] \in Seq(Block) /\ Append(Path[p], b) = Path[b]
          /\ Len(Path[p]) = Len(Path[b]) - 1 /\ Len(Path[b]) \in Nat
      BY <1>1, <2>2, AppendPath, PathFacts
    <3>2. \A i \in 1..Len(Path[p]) : Append(Path[p], b)[i] = Path[p][i]
      BY <3>1, AppendProperties
    <3>3. Path[b][Len(Path[b])] = b /\ j \in Nat /\ Len(Path[p]) \in Nat
      BY <1>1, <1>3, <2>2, PathFacts
    <3> QED BY <3>1, <3>2, <3>3
  <2>7. AppliedFrom(p, j) \cup {b} \subseteq AppliedFrom(b, j)
    <3>1. \A i \in (j + 1)..Len(Path[p]) : i \in (j + 1)..Len(Path[b]) /\ Path[p][i] = Path[b][i]
      BY <2>6
    <3>2. Len(Path[b]) \in (j + 1)..Len(Path[b])
      BY <2>5, <2>6
    <3> QED BY ZenonT(30), <2>6, <3>1, <3>2 DEF AppliedFrom
  <2> SUFFICES ASSUME NEW i \in 1..Len(Path[b])
               PROVE  \/ Path[b][i] \in blocks' \cap sums'
                      \/ tail' # NoBlock /\ i - 1 < Height(tail')
    BY ZenonT(30), <2>1 DEF RewindReady, Height
  <2>8. CASE i = Len(Path[b])
    BY ZenonT(30), <1>4, <2>1, <2>6, <2>7, <2>8
  <2>9. CASE i \in 1..Len(Path[p])
    BY ZenonT(30), <1>4, <2>1, <2>4, <2>6, <2>7, <2>9
  <2> QED BY <2>6, <2>8, <2>9
<1>6. CASE ~HasMoreWork(b, head)
  <2>1. head' = head /\ sums' = sums
    BY <1>2, <1>6 DEF CommitBlock
  <2> QED BY <1>4, <2>1 DEF RewindReady, Height
<1> QED BY <1>5, <1>6

\* reset_chain_head.
LEMMA ResetReady ==
  ASSUME ChainInv, RewindReady, NEW b \in Block, ResetChainHead(b)
  PROVE  RewindReady'
<1>1. PICK k \in 1..Len(Path[b]), j \in HeadForks :
        ForkApplies(b, header_pmmr, header_head, k, j) /\ sums' = sums \cup AppliedFrom(b, j)
  BY DEF ResetChainHead
<1>2. head' = b /\ UNCHANGED <<blocks, tail>>
  BY DEF ResetChainHead
<1>3. PICK a \in Block : header_pmmr = Path[a]
  BY DEF ChainInv, DbTypeOK
<1>4. head \in Block /\ j \in 1..Len(Path[head])
  BY DEF ChainInv, DbTypeOK, HeadForks
<1>5. Reapplied(header_pmmr, b, k) = Path[b]
  BY ZenonT(30), <1>1, <1>3, HeaderForkYieldsPath DEF ForkApplies
<1>6. /\ ForkPoint(head, Path[b], Height(b), j)
      /\ \A i \in (j + 1)..Len(Path[b]) : Path[b][i] \in blocks
  BY ZenonT(30), <1>1, <1>5 DEF ForkApplies
<1>7. \A i \in 1..Len(Path[b]) : \/ Path[b][i] \in blocks \cap (sums \cup AppliedFrom(b, j))
                                 \/ tail # NoBlock /\ i - 1 < Height(tail)
  BY ZenonT(30), <1>4, <1>6, StoredAfterFork
<1> QED BY <1>1, <1>2, <1>7 DEF RewindReady, Height

\* compact deletes blocks below the new tail only.
LEMMA CompactReady ==
  ASSUME ChainInv, RewindReady, Compact
  PROVE  RewindReady'
<1>1. head' = head /\ head \in Block
  BY DEF Compact, ChainInv, DbTypeOK
<1>2. Cutoff \in Nat
  BY <1>1, CutoffIsHorizon
<1>4. Height(tail') = Cutoff /\ tail' # NoBlock
  BY CompactTail
<1>5. tail # NoBlock => Height(tail) <= Cutoff
  BY CompactTail
<1>6. /\ blocks' = blocks \ {b \in blocks : Height(b) < Cutoff}
      /\ sums' = sums \ {b \in blocks : Height(b) < Cutoff}
  BY DEF Compact
<1> SUFFICES ASSUME NEW i \in 1..Len(Path[head])
             PROVE  Path[head][i] \in blocks' \cap sums' \/ i - 1 < Cutoff
  BY <1>1, <1>4 DEF RewindReady
<1>7. Height(Path[head][i]) = i - 1 /\ i \in Nat
  BY <1>1, HeightOnPath, PathFacts
<1>8. CASE Path[head][i] \in blocks \cap sums
  BY <1>2, <1>6, <1>7, <1>8
<1>9. CASE tail # NoBlock /\ i - 1 < Height(tail)
  <2>1. Height(tail) \in Nat
    BY <1>9, PathFacts DEF ChainInv, DbTypeOK
  <2> QED BY <1>2, <1>5, <1>7, <1>9, <2>1
<1> QED BY <1>8, <1>9 DEF RewindReady

\* Every step keeps the body chain stored from the tail up.
LEMMA ReadyStep ==
  ASSUME IInv, RewindReady, [Next]_vars
  PROVE  RewindReady'
<1> USE DEF IInv
<1>1. ASSUME UNCHANGED <<blocks, sums, head, tail>> PROVE RewindReady'
  BY <1>1 DEF RewindReady, Height
<1>2. ASSUME UNCHANGED db PROVE RewindReady'
  BY <1>1, <1>2 DEF db
<1>3. ASSUME NEW t \in Thread, ThreadStep(t) PROVE RewindReady'
  <2>1. ASSUME NEW b \in Block, StartBlock(t, b) \/ NextOrphan(t, b) PROVE RewindReady'
    BY <1>1, <2>1 DEF StartBlock, NextOrphan, ProcessBlockHeader, db
  <2>2. CASE IsKnown(t) \/ CheckOrphan(t) \/ DeferOrphan(t) \/ RejectBody(t) \/ Notify(t)
             \/ TakeOrphans(t) \/ EndOfHeight(t)
    BY ZenonT(30), <1>2, <2>2 DEF IsKnown, CheckOrphan, DeferOrphan, RejectBody, Notify, TakeOrphans, EndOfHeight
  <2>3. CASE ProcessBody(t)
    BY <2>3, ProcessBodyReady
  <2> QED BY <1>3, <2>1, <2>2, <2>3 DEF ThreadStep
<1>4. ASSUME NEW b \in Block, ProcessHeader(b) PROVE RewindReady'
  BY <1>1, <1>4 DEF ProcessHeader, ProcessBlockHeader
<1>5. ASSUME NEW b \in Block, NEW i \in 2..Len(Path[b]), SyncBlockHeaders(b, i) PROVE RewindReady'
  BY ZenonT(30), <1>1, <1>5 DEF SyncBlockHeaders
<1>6. ASSUME NEW b \in Block, InvalidateHeader(b) PROVE RewindReady'
  BY <1>2, <1>6 DEF InvalidateHeader
<1>7. ASSUME NEW b \in Block, ResetChainHead(b) PROVE RewindReady'
  BY <1>7, ResetReady
<1>8. CASE Compact
  BY <1>8, CompactReady
<1>9. CASE UNCHANGED vars
  BY <1>2, <1>9 DEF vars
<1> QED BY <1>3, <1>4, <1>5, <1>6, <1>7, <1>8, <1>9 DEF Next

-----------------------------------------------------------------------------
(* The theorems. *)

\* Every step of the node preserves the inductive invariant.
LEMMA NextInv ==
  ASSUME IInv, [Next]_vars
  PROVE  IInv'
<1>1. ASSUME NEW t \in Thread, ThreadStep(t) PROVE IInv'
  BY <1>1, ThreadStepChain, ThreadTypes, ThreadBlocks DEF IInv, ThreadInv
<1>2. ASSUME NEW b \in Block \ {Genesis}, ProcessHeader(b) PROVE IInv'
  <2>1. denylist' \subseteq Block /\ UNCHANGED <<orphans, threads>>
    BY <1>2 DEF ProcessHeader, ProcessBlockHeader, IInv, ThreadInv, ThreadTypeOK
  <2>2. PICK k \in HeaderForks(b) : ProcessBlockHeader(b, k)
    BY <1>2 DEF ProcessHeader
  <2> QED BY <2>1, <2>2, ProcessBlockHeaderInv, ThreadStutter DEF IInv
<1>3. ASSUME NEW b \in Block \ {Genesis}, NEW i \in 2..Len(Path[b]), SyncBlockHeaders(b, i)
      PROVE  IInv'
  <2>1. denylist' \subseteq Block /\ UNCHANGED <<orphans, threads>>
    BY ZenonT(30), <1>3 DEF SyncBlockHeaders, IInv, ThreadInv, ThreadTypeOK
  <2> QED BY <1>3, <2>1, SyncBlockHeadersInv, ThreadStutter DEF IInv
<1>4. ASSUME NEW b \in Block \ {Genesis}, InvalidateHeader(b) PROVE IInv'
  <2>1. denylist' \subseteq Block /\ UNCHANGED <<orphans, threads>> /\ UNCHANGED <<db, mmrs>>
    BY <1>4 DEF InvalidateHeader, IInv, ThreadInv, ThreadTypeOK
  <2>2. UNCHANGED headers
    BY <2>1 DEF db
  <2> QED BY <2>1, <2>2, ChainStutter, ThreadStutter DEF IInv
<1>5. ASSUME NEW b \in Block, ResetChainHead(b) PROVE IInv'
  <2>1. denylist' \subseteq Block /\ UNCHANGED <<orphans, threads>>
    BY <1>5 DEF ResetChainHead, IInv, ThreadInv, ThreadTypeOK
  <2> QED BY <1>5, <2>1, ResetChainHeadInv, ThreadStutter DEF IInv
<1>6. CASE Compact
  <2>1. denylist' \subseteq Block /\ UNCHANGED <<orphans, threads>>
    BY <1>6 DEF Compact, IInv, ThreadInv, ThreadTypeOK
  <2> QED BY <1>6, <2>1, CompactInv, ThreadStutter DEF IInv
<1>7. CASE UNCHANGED vars
  <2>1. UNCHANGED <<db, mmrs>> /\ UNCHANGED <<orphans, threads>> /\ denylist' = denylist
    BY <1>7 DEF vars
  <2>2. UNCHANGED headers
    BY <2>1 DEF db
  <2> QED BY <2>1, <2>2, ChainStutter, ThreadStutter DEF IInv, ThreadInv, ThreadTypeOK
<1> QED BY <1>1, <1>2, <1>3, <1>4, <1>5, <1>6, <1>7 DEF Next

\* IInv is an invariant of Chain.
THEOREM Invariance == Spec => []IInv
BY InitInv, NextInv, PTL DEF Spec

\* The variables keep their types.
THEOREM TypeCorrect == Spec => []TypeOK
<1>1. IInv => TypeOK
  BY DEF IInv, ChainInv, ThreadInv, TypeOK
<1> QED BY <1>1, Invariance, PTL

\* The output, rangeproof and kernel MMRs always hold exactly the blocks from
\* genesis to the body head (process_block, reset_chain_head).
THEOREM BodyMmrCorrect == Spec => []BodyMmrAtHead
<1>1. IInv => BodyMmrAtHead
  BY DEF IInv, ChainInv
<1> QED BY <1>1, Invariance, PTL

\* The header MMR is always the path of one stored header, also when a reset
\* and a rejected block interleave.
THEOREM HeaderMmrCorrect == Spec => []HeaderMmrIsPath
<1>1. IInv => HeaderMmrIsPath
  BY DEF IInv, ChainInv, HeaderMmrIsPath, HeadersClosed
<1> QED BY <1>1, Invariance, PTL

\* The body head never has more work than header_head.
THEOREM HeadsCorrect == Spec => []HeadsInOrder
<1>1. IInv => HeadsInOrder
  BY DEF IInv, ChainInv, HeadsInOrder, HeadersClosed
<1> QED BY <1>1, Invariance, PTL

\* Whatever was reorganised, reset and compacted, the body chain is stored with its
\* sums from the tail up, so that it can be rewound and extended.
THEOREM RewindCorrect == Spec => []RewindReady
<1>1. Init => RewindReady
  BY PathAssumption DEF Init, RewindReady
<1> QED BY <1>1, Invariance, ReadyStep, PTL DEF Spec

-----------------------------------------------------------------------------
(* What may enter the header MMR. *)

\* The header MMR after rewind_and_apply_header_fork to b: a denied header in it was
\* there before, as the leaves above the fork point are validated again.
LEMMA ForkAddsNoDenied ==
  ASSUME NEW a \in Block, NEW b \in Block, NEW h, NEW hs, NEW k \in 1..Len(Path[b]),
         HeaderForkApplies(b, Path[a], h, k, hs)
  PROVE  Leaves(Path[b]) \cap denylist \subseteq Leaves(Path[a])
<1> SUFFICES ASSUME NEW i \in 1..Len(Path[b]), Path[b][i] \in denylist
             PROVE  Path[b][i] \in Leaves(Path[a])
  BY ZenonT(30) DEF Leaves
<1>1. k \in Nat /\ k >= 1 /\ Len(Path[b]) \in Nat /\ Len(Path[a]) \in Nat /\ Len(Path[a]) >= 1
  BY PathFacts
<1>2. i <= k
  <2>1. i > k => i \in (k + 1)..Len(Path[b])
    BY <1>1
  <2> QED BY <1>1, <2>1 DEF HeaderForkApplies
<1>3. k <= Len(Path[a]) /\ \A n \in 1..k : Path[a][n] = Path[b][n]
  BY ZenonT(30), HeaderForkAgrees
<1>4. i \in 1..k /\ i \in 1..Len(Path[a])
  BY <1>1, <1>2, <1>3
<1> QED BY <1>3, <1>4 DEF Leaves

\* pipe::process_block_header adds no denied header either.
LEMMA HeaderAddsNoDenied ==
  ASSUME ChainInv, NEW b \in Block \ {Genesis}, NEW k \in HeaderForks(b), HeaderOk(b, k)
  PROVE  Leaves(NewHeaderPmmr(b, k)) \cap denylist \subseteq Leaves(header_pmmr)
<1>1. CASE ~(k > 0 /\ HasMoreWork(b, header_head))
  BY <1>1 DEF NewHeaderPmmr
<1>2. CASE k > 0 /\ HasMoreWork(b, header_head)
  <2>1. k # 0 /\ Prev(b) \in Block /\ k \in 1..Len(Path[Prev(b)])
    BY <1>2, AppendPath, PathFacts DEF HeaderForks
  <2>2. PICK a \in Block : header_pmmr = Path[a]
    BY DEF ChainInv, DbTypeOK
  <2>3. /\ b \notin denylist
        /\ HeaderForkApplies(Prev(b), Path[a], Len(header_pmmr) - 1, k, headers)
        /\ Reapplied(header_pmmr, Prev(b), k) = Path[Prev(b)]
    BY <2>1, <2>2 DEF HeaderOk
  <2>4. Leaves(Path[Prev(b)]) \cap denylist \subseteq Leaves(header_pmmr)
    BY ZenonT(30), <2>1, <2>2, <2>3, ForkAddsNoDenied
  <2>5. NewHeaderPmmr(b, k) = Append(Path[Prev(b)], b) /\ Path[Prev(b)] \in Seq(Block)
    BY ZenonT(30), <1>2, <2>1, <2>3, PathFacts DEF NewHeaderPmmr
  <2>6. Leaves(Append(Path[Prev(b)], b)) \subseteq Leaves(Path[Prev(b)]) \cup {b}
    BY <2>5 DEF Leaves
  <2> QED BY <2>3, <2>4, <2>5, <2>6
<1> QED BY <1>1, <1>2

\* No step moves a denied header into the header MMR.
LEMMA DeniedStep ==
  ASSUME IInv, [Next]_vars
  PROVE  Leaves(header_pmmr') \cap denylist \subseteq Leaves(header_pmmr)
<1> DEFINE Goal == Leaves(header_pmmr') \cap denylist \subseteq Leaves(header_pmmr)
<1> SUFFICES Goal
  OBVIOUS
<1>0. ChainInv
  BY DEF IInv
<1>a. ASSUME UNCHANGED header_pmmr PROVE Goal
  BY <1>a
<1>b. ASSUME UNCHANGED mmrs PROVE Goal
  BY <1>b, <1>a DEF mmrs
<1>c. ASSUME NEW b \in Block \ {Genesis}, NEW k \in HeaderForks(b), ProcessBlockHeader(b, k)
      PROVE  Goal
  <2>1. HeaderOk(b, k) /\ header_pmmr' = NewHeaderPmmr(b, k)
    BY <1>c DEF ProcessBlockHeader
  <2> QED BY <1>0, <2>1, HeaderAddsNoDenied
<1> HIDE DEF Goal
<1>1. ASSUME NEW t \in Thread, ThreadStep(t) PROVE Goal
  <2>1. ASSUME NEW b \in Block \ {Genesis}, StartBlock(t, b) PROVE Goal
    BY ZenonT(30), <1>c, <2>1 DEF StartBlock
  <2>2. ASSUME NEW b \in Block \ {Genesis}, NextOrphan(t, b) PROVE Goal
    BY ZenonT(30), <1>b, <1>c, <2>2 DEF NextOrphan
  <2>3. CASE IsKnown(t) \/ CheckOrphan(t) \/ DeferOrphan(t) \/ Notify(t)
             \/ TakeOrphans(t) \/ EndOfHeight(t)
    BY <1>b, <2>3 DEF IsKnown, CheckOrphan, DeferOrphan, Notify, TakeOrphans, EndOfHeight
  <2>4. ASSUME pc[t] = "body" PROVE blk[t] \in Block \ {Genesis}
    BY <2>4 DEF IInv, ThreadInv, ThreadTypeOK
  <2>5. CASE ProcessBody(t)
    <3>1. pc[t] = "body" /\ \E h \in HeaderForks(blk[t]) :
            HeaderOk(blk[t], h) /\ header_pmmr' = NewHeaderPmmr(blk[t], h)
      BY ZenonT(30), <2>5 DEF ProcessBody, CommitBlock
    <3> QED BY ZenonT(30), <1>0, <2>4, <3>1, HeaderAddsNoDenied DEF Goal
  <2>6. CASE RejectBody(t)
    <3>1. /\ pc[t] = "body"
          /\ \/ UNCHANGED header_pmmr
             \/ \E h \in HeaderForks(blk[t]) :
                   HeaderOk(blk[t], h) /\ header_pmmr' = NewHeaderPmmr(blk[t], h)
      BY ZenonT(30), <2>6 DEF RejectBody
    <3>2. ASSUME NEW h \in HeaderForks(blk[t]), HeaderOk(blk[t], h),
                 header_pmmr' = NewHeaderPmmr(blk[t], h)
          PROVE  Goal
      <4>1. blk[t] \in Block \ {Genesis}
        BY ZenonT(30), <2>4, <3>1
      <4> QED BY ZenonT(30), <1>0, <3>2, <4>1, HeaderAddsNoDenied DEF Goal
    <3> QED BY ZenonT(30), <1>a, <3>1, <3>2
  <2> QED BY ZenonT(30), <1>1, <2>1, <2>2, <2>3, <2>5, <2>6 DEF ThreadStep
<1>2. ASSUME NEW b \in Block \ {Genesis}, ProcessHeader(b) PROVE Goal
  BY <1>c, <1>2 DEF ProcessHeader
<1>3. ASSUME NEW b \in Block \ {Genesis}, NEW i \in 2..Len(Path[b]), SyncBlockHeaders(b, i)
      PROVE  Goal
  <2>1. PICK k \in 1..Len(Path[b]) :
          /\ HeaderForkApplies(b, header_pmmr, Len(header_pmmr) - 1, k, headers')
          /\ \/ header_pmmr' = Reapplied(header_pmmr, b, k)
             \/ UNCHANGED header_pmmr
    BY ZenonT(30), <1>3 DEF SyncBlockHeaders
  <2>2. PICK a \in Block : header_pmmr = Path[a]
    BY <1>0 DEF ChainInv, DbTypeOK
  <2>3. Reapplied(header_pmmr, b, k) = Path[b] /\ Leaves(Path[b]) \cap denylist \subseteq Leaves(header_pmmr)
    BY ZenonT(30), <2>1, <2>2, HeaderForkYieldsPath, ForkAddsNoDenied
  <2> QED BY ZenonT(30), <1>a, <2>1, <2>3 DEF Goal
<1>4. ASSUME NEW b \in Block, ResetChainHead(b) PROVE Goal
  <2>1. PICK k \in 1..Len(Path[b]) :
          /\ HeaderForkApplies(b, header_pmmr, Len(header_pmmr) - 1, k, headers)
          /\ header_pmmr' = Reapplied(header_pmmr, b, k)
    BY <1>4 DEF ResetChainHead
  <2>2. PICK a \in Block : header_pmmr = Path[a]
    BY <1>0 DEF ChainInv, DbTypeOK
  <2>3. Reapplied(header_pmmr, b, k) = Path[b] /\ Leaves(Path[b]) \cap denylist \subseteq Leaves(header_pmmr)
    BY ZenonT(30), <2>1, <2>2, HeaderForkYieldsPath, ForkAddsNoDenied
  <2> QED BY ZenonT(30), <2>1, <2>3 DEF Goal
<1>5. ASSUME NEW b \in Block, InvalidateHeader(b) PROVE Goal
  BY <1>b, <1>5 DEF InvalidateHeader
<1>6. CASE Compact
  BY <1>b, <1>6 DEF Compact
<1>7. CASE UNCHANGED vars
  BY <1>b, <1>7 DEF vars
<1> QED BY <1>1, <1>2, <1>3, <1>4, <1>5, <1>6, <1>7 DEF Next

\* No header enters the header MMR while it is on the denylist, by whichever entry
\* point it comes and however often the chain is reorganised.
THEOREM DeniedStaysOut == Spec => DeniedNeverJoinsHeaderChain
<1>1. IInv /\ [Next]_vars => [Leaves(header_pmmr') \cap denylist \subseteq Leaves(header_pmmr)]_vars
  BY DeniedStep
<1> QED BY <1>1, Invariance, PTL DEF Spec, DeniedNeverJoinsHeaderChain
=============================================================================
