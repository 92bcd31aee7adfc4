---------------------------- MODULE ForkProofs -----------------------------
(***************************************************************************)
(* More about Chain, on top of the invariant of ChainProofs: the fork      *)
(* point that is reported, header_head and the header MMR between two      *)
(* locked sections, and the orphans that a single thread in process_block  *)
(* picks up.                                                               *)
(***************************************************************************)
EXTENDS ChainProofs

\* The provers of a leaf that names none, in this order.
USE SMTT(30), ZenonT(30), SMTT(60)

-----------------------------------------------------------------------------
(* The fork point, and header_head against the header MMR. *)

\* A block in process_block_single is not above header_head.  Only a reset takes
\* header_head back, so without one its header is known in the locked section too.
HeaderBehind ==
    \A t \in Thread : pc[t] \in {"is_known", "check_orphan", "add_orphan", "body"}
                        => Work[blk[t]] <= Work[header_head]

ForksInv == ForksConsistent /\ ("reset" \notin Ops => HeaderBehind)

\* The statement of ForkPointIsLastCommon for one thread.
LastCommon(b, r) ==
    \E i \in CommonPrefix(Prev(b), r.prev_head) :
        /\ r.fork_point = Path[b][i]
        /\ \A n \in CommonPrefix(Prev(b), r.prev_head) : n <= i

\* The fork point of the body is the last block the parent and head have in common.
LEMMA CommonIsForkPoint ==
  ASSUME head \in Block, NEW b \in Block \ {Genesis}, NEW j \in 1..Len(Path[head]),
         ForkPoint(head, Path[Prev(b)], Height(Prev(b)), j)
  PROVE  /\ j \in CommonPrefix(Prev(b), head) /\ \A n \in CommonPrefix(Prev(b), head) : n <= j
         /\ Path[b][j] = Path[Prev(b)][j] /\ Path[head][j] = Path[Prev(b)][j]
<1> DEFINE p == Prev(b)
<1>1. p \in Block
  BY AppendPath
<1>2. ForkPoint(head, Path[p], Height(p), j)
  OBVIOUS
<1>3. j <= Len(Path[p]) /\ \A i \in 1..j : Path[head][i] = Path[p][i]
  BY <1>1, <1>2, ForkAgrees
<1>4. j \in Nat /\ j >= 1 /\ Len(Path[p]) \in Nat /\ Len(Path[head]) \in Nat
  BY <1>1, PathFacts
<1>5. j \in 1..j /\ j \in 1..Len(Path[p]) /\ j <= Len(Path[head])
  BY <1>3, <1>4
<1>6. j \in CommonPrefix(p, head) /\ Path[head][j] = Path[p][j]
  BY <1>3, <1>5 DEF CommonPrefix
<1>7. Path[p][j] = Path[b][j]
  <2>1. Path[p] \in Seq(Block) /\ Path[b] = Append(Path[p], b)
    BY <1>1, AppendPath, PathFacts
  <2> QED BY <1>5, <2>1, AppendProperties
<1>8. ASSUME NEW n \in CommonPrefix(p, head), n > j PROVE FALSE
  <2>1. n \in Nat /\ n \in 1..Len(Path[p]) /\ n <= Len(Path[head]) /\ Path[p][n] = Path[head][n]
    BY <1>4, <1>8 DEF CommonPrefix
  <2>2. n \in 1..Len(Path[head]) /\ n \in (j + 1)..Len(Path[head])
    BY <1>4, <1>8, <2>1
  <2>3. Height(Path[head][n]) = n - 1 /\ Height(p) = Len(Path[p]) - 1
    BY <1>1, <2>2, HeightOnPath DEF Height
  <2>4. OnCurrentChain(Path[head][n], Path[p], Height(p))
    BY <1>4, <2>1, <2>3 DEF OnCurrentChain
  <2> QED BY <1>2, <2>2, <2>4 DEF ForkPoint
<1>9. \A n \in CommonPrefix(p, head) : n <= j
  <2>1. \A n \in CommonPrefix(p, head) : n \in Nat
    BY <1>4 DEF CommonPrefix
  <2> QED BY <1>4, <1>8, <2>1
<1> QED BY <1>6, <1>7, <1>9

\* A successful locked section hands on the last common block.
LEMMA BodyForkIsLastCommon ==
  ASSUME ChainInv, NEW b \in Block \ {Genesis}, NEW h \in HeaderForks(b), HeaderOk(b, h),
         NEW k \in BodyForks(b), NEW j \in HeadForks, BodyOk(b, h, k, j), NEW u
  PROVE  LastCommon(b, [updated |-> u, prev_head |-> head, fork_point |-> Path[head][j]])
<1> DEFINE p == Prev(b)
           r == [updated |-> u, prev_head |-> head, fork_point |-> Path[head][j]]
<1>1. head \in Block /\ j \in 1..Len(Path[head])
  BY DEF ChainInv, DbTypeOK, HeadForks
<1>2. ForkPoint(head, Path[p], Height(p), j)
  BY BodyForkPoint
<1>3. /\ j \in CommonPrefix(p, head) /\ \A n \in CommonPrefix(p, head) : n <= j
      /\ Path[b][j] = Path[p][j] /\ Path[head][j] = Path[p][j]
  BY <1>1, <1>2, CommonIsForkPoint
<1>4. r.prev_head = head /\ r.fork_point = Path[head][j]
  OBVIOUS
<1> QED BY <1>3, <1>4 DEF LastCommon

\* ForkPointIsLastCommon is kept: only ProcessBody sets a result and gets to Notify.
LEMMA ForkPointStep ==
  ASSUME IInv, ForkPointIsLastCommon, [Next]_vars
  PROVE  ForkPointIsLastCommon'
<1> DEFINE Goal == \A s \in Thread : pc'[s] = "notify" => LastCommon(blk'[s], result'[s])
           Hyp == \A s \in Thread : pc[s] = "notify" => LastCommon(blk[s], result[s])
<1>h. Hyp
  BY ZenonT(30) DEF ForkPointIsLastCommon, LastCommon
<1> SUFFICES Goal
  BY DEF ForkPointIsLastCommon, LastCommon, CommonPrefix, Prev
<1>t. DOMAIN pc = Thread /\ DOMAIN blk = Thread /\ DOMAIN result = Thread
  BY DEF IInv, ThreadInv, ThreadTypeOK
<1>a. ASSUME UNCHANGED <<pc, blk, result>> PROVE Goal
  BY <1>a, <1>h
<1>b. ASSUME NEW t \in Thread, NEW l, l # "notify", pc' = [pc EXCEPT ![t] = l],
             NEW b, blk' = blk \/ blk' = [blk EXCEPT ![t] = b],
             NEW r, result' = result \/ result' = [result EXCEPT ![t] = r]
      PROVE  Goal
  BY ZenonT(30), <1>b, <1>h, <1>t
<1>1. ASSUME NEW t \in Thread, ThreadStep(t) PROVE Goal
  <2>1. ASSUME NEW b \in Block \ {Genesis}, StartBlock(t, b) PROVE Goal
    BY ZenonT(30), <1>b, <2>1 DEF StartBlock, Goto
  <2>2. ASSUME NEW b \in Block \ {Genesis}, NextOrphan(t, b) PROVE Goal
    BY ZenonT(30), <1>a, <1>b, <2>2 DEF NextOrphan, Goto
  <2>3. CASE IsKnown(t)
    BY <1>b, <2>3 DEF IsKnown, SingleFailed, Goto
  <2>4. CASE CheckOrphan(t)
    BY ZenonT(30), <1>b, <2>4 DEF CheckOrphan, Goto
  <2>5. CASE DeferOrphan(t)
    BY ZenonT(30), <1>b, <2>5 DEF DeferOrphan, SingleFailed, Goto
  <2>6. CASE ProcessBody(t)
    <3>1. blk[t] \in Block \ {Genesis} /\ ChainInv
      BY <2>6 DEF IInv, ThreadInv, ThreadTypeOK, ProcessBody
    <3>2. PICK h \in HeaderForks(blk[t]), k \in BodyForks(blk[t]), j \in HeadForks :
            /\ HeaderOk(blk[t], h) /\ BodyOk(blk[t], h, k, j)
            /\ result' = [result EXCEPT ![t] = [updated |-> HasMoreWork(blk[t], head),
                              prev_head |-> head, fork_point |-> Path[head][j]]]
      BY ZenonT(30), <2>6 DEF ProcessBody
    <3>3. LastCommon(blk[t], [updated |-> HasMoreWork(blk[t], head),
                              prev_head |-> head, fork_point |-> Path[head][j]])
      BY ZenonT(30), <3>1, <3>2, BodyForkIsLastCommon
    <3>4. LastCommon(blk[t], result'[t]) /\ \A s \in Thread \ {t} : result'[s] = result[s]
      BY <1>t, <3>2, <3>3
    <3>5. blk' = blk /\ \A s \in Thread \ {t} : pc'[s] = pc[s]
      BY <1>t, <2>6 DEF ProcessBody, Goto
    <3> QED BY <1>h, <3>4, <3>5
  <2>7. CASE RejectBody(t)
    BY ZenonT(30), <1>b, <2>7 DEF RejectBody, SingleFailed, Goto
  <2>8. CASE Notify(t)
    BY ZenonT(30), <1>b, <2>8 DEF Notify, Goto
  <2>9. CASE TakeOrphans(t)
    BY ZenonT(30), <1>b, <2>9 DEF TakeOrphans, Goto
  <2>10. CASE EndOfHeight(t)
    BY <1>b, <2>10 DEF EndOfHeight, Goto
  <2> QED BY <1>1, <2>1, <2>2, <2>3, <2>4, <2>5, <2>6, <2>7, <2>8, <2>9, <2>10 DEF ThreadStep
<1>2. CASE UNCHANGED threads
  BY ZenonT(30), <1>a, <1>2 DEF threads
<1>3. ASSUME NEW b \in Block, ProcessHeader(b) \/ InvalidateHeader(b) \/ ResetChainHead(b) PROVE Goal
  BY ZenonT(30), <1>2, <1>3 DEF ProcessHeader, InvalidateHeader, ResetChainHead
<1>4. ASSUME NEW b \in Block, NEW i \in 2..Len(Path[b]), SyncBlockHeaders(b, i) PROVE Goal
  BY <1>2, <1>4 DEF SyncBlockHeaders
<1>5. CASE Compact
  BY <1>2, <1>5 DEF Compact
<1>6. CASE UNCHANGED vars
  BY <1>2, <1>6 DEF vars
<1> QED BY <1>1, <1>3, <1>4, <1>5, <1>6 DEF Next
\* A locked section that starts with a known header leaves the header MMR alone.
LEMMA KnownHeaderKept ==
  ASSUME ChainInv, NEW b \in headers \ {Genesis}, Work[b] <= Work[header_head],
         NEW h \in HeaderForks(b), HeaderOk(b, h)
  PROVE  NewHeaderPmmr(b, h) = header_pmmr /\ NewHeaderHead(b, h) = header_head
<1>1. b \in Block /\ header_head \in Block /\ Work[b] \in Nat /\ Work[header_head] \in Nat
  BY WorkAssumption DEF ChainInv, DbTypeOK
<1>2. ~HasMoreWork(b, header_head)
  BY <1>1 DEF HasMoreWork
<1> QED BY <1>2 DEF NewHeaderPmmr, NewHeaderHead

\* process_block_header keeps the header MMR at header_head, and puts header_head at
\* least where the block is.
LEMMA HeaderStepAtHead ==
  ASSUME ChainInv, HeaderMmrAtHeaderHead, NEW b \in Block \ {Genesis},
         NEW k \in HeaderForks(b), ProcessBlockHeader(b, k)
  PROVE  /\ HeaderMmrAtHeaderHead'
         /\ Work[header_head] <= Work[header_head'] /\ Work[b] <= Work[header_head']
<1>1. /\ HeaderOk(b, k) /\ header_head' = NewHeaderHead(b, k)
      /\ header_pmmr' = NewHeaderPmmr(b, k)
  BY DEF ProcessBlockHeader
<1>2. Work[header_head] <= Work[header_head']
  BY <1>1, HeaderStep
<1>3. Work[b] <= Work[header_head']
  <2>1. CASE ~CheckKnown(b)
    BY <1>1, <2>1, HeaderStep
  <2>2. CASE CheckKnown(b)
    <3>1. Work[b] <= Work[head] /\ Work[head] <= Work[header_head]
      BY <2>2 DEF CheckKnown, ChainInv
    <3>2. /\ Work[b] \in Nat /\ Work[head] \in Nat /\ Work[header_head] \in Nat
          /\ Work[header_head'] \in Nat
      <4>1. header_head' \in Block
        BY <1>1, HeaderStep
      <4> QED BY ZenonT(30), <4>1, WorkAssumption DEF ChainInv, DbTypeOK
    <3> QED BY <1>2, <3>1, <3>2
  <2> QED BY ZenonT(30), <2>1, <2>2
<1>4. header_pmmr' = Path[header_head']
  <2>1. CASE k > 0 /\ HasMoreWork(b, header_head)
    <3>1. header_head' = b /\ k # 0 /\ header_pmmr' = Append(Reapplied(header_pmmr, Prev(b), k), b)
      BY <1>1, <2>1 DEF NewHeaderHead, NewHeaderPmmr, HeaderForks
    <3>2. Reapplied(header_pmmr, Prev(b), k) = Path[Prev(b)]
      BY <1>1, <3>1 DEF HeaderOk
    <3> QED BY <3>1, <3>2, AppendPath
  <2>2. CASE ~(k > 0 /\ HasMoreWork(b, header_head))
    BY ZenonT(30), <1>1, <2>2 DEF NewHeaderHead, NewHeaderPmmr, HeaderMmrAtHeaderHead
  <2> QED BY <2>1, <2>2
<1> QED BY <1>2, <1>3, <1>4 DEF HeaderMmrAtHeaderHead

\* Every step that is not a reset keeps the header MMR at header_head.
LEMMA AtHeaderHeadStep ==
  ASSUME IInv, HeaderMmrAtHeaderHead, HeaderBehind, [Next]_vars, "reset" \notin Ops
  PROVE  HeaderMmrAtHeaderHead' /\ HeaderBehind'
<1> DEFINE Early == {"is_known", "check_orphan", "add_orphan", "body"}
           Kept == HeaderMmrAtHeaderHead' /\ Work[header_head] <= Work[header_head']
           Behind == \A s \in Thread : pc'[s] \in Early => Work[blk'[s]] <= Work[header_head']
<1>0. ChainInv /\ DOMAIN pc = Thread /\ DOMAIN blk = Thread
  BY DEF IInv, ThreadInv, ThreadTypeOK
<1> SUFFICES Kept /\ Behind
  BY DEF HeaderBehind
<1>a. ASSUME UNCHANGED <<header_head, header_pmmr>> PROVE Kept
  BY <1>a, WorkAssumption DEF HeaderMmrAtHeaderHead, IInv, ChainInv, DbTypeOK
<1>b. ASSUME UNCHANGED <<db, mmrs>> PROVE Kept
  BY <1>a, <1>b DEF db, mmrs
<1>w. ASSUME Kept, NEW b \in Block, Work[b] <= Work[header_head] PROVE Work[b] <= Work[header_head']
  <2>1. ChainInv'
    BY NextInv DEF IInv
  <2>2. Work[b] \in Nat /\ Work[header_head] \in Nat /\ Work[header_head'] \in Nat
    BY <2>1, WorkAssumption DEF IInv, ChainInv, DbTypeOK
  <2> QED BY <1>w, <2>2
<1>c. ASSUME Kept, UNCHANGED <<pc, blk>> PROVE Kept /\ Behind
  BY <1>c, <1>w DEF HeaderBehind, IInv, ThreadInv, ThreadTypeOK
<1>d. ASSUME Kept, NEW t \in Thread, NEW l, l \notin Early \/ pc[t] \in Early,
             pc' = [pc EXCEPT ![t] = l], blk' = blk
      PROVE  Kept /\ Behind
  <2>1. \A s \in Thread : pc'[s] \in Early => pc[s] \in Early
    BY ZenonT(30), <1>0, <1>d
  <2> QED BY <1>d, <1>w, <2>1 DEF HeaderBehind, IInv, ThreadInv, ThreadTypeOK
<1>e. ASSUME Kept, NEW t \in Thread, NEW l, l \notin Early, pc' = [pc EXCEPT ![t] = l],
             blk' = [blk EXCEPT ![t] = Genesis]
      PROVE  Kept /\ Behind
  <2>1. \A s \in Thread : pc'[s] \in Early => pc[s] \in Early /\ blk'[s] = blk[s]
    BY <1>0, <1>e
  <2> QED BY <1>e, <1>w, <2>1 DEF HeaderBehind, IInv, ThreadInv, ThreadTypeOK
<1>s. ASSUME Kept, NEW t \in Thread, SingleFailed(t) PROVE Kept /\ Behind
  <2>1. blk' = [blk EXCEPT ![t] = Genesis]
    BY <1>s DEF SingleFailed
  <2>2. CASE level[t] = 0
    <3>1. pc' = [pc EXCEPT ![t] = "idle"]
      BY <1>s, <2>2 DEF SingleFailed, Goto
    <3> QED BY ZenonT(30), <1>e, <1>s, <2>1, <3>1
  <2>3. CASE level[t] # 0
    <3>1. pc' = [pc EXCEPT ![t] = "next"]
      BY <1>s, <2>3 DEF SingleFailed, Goto
    <3> QED BY ZenonT(30), <1>e, <1>s, <2>1, <3>1
  <2> QED BY <2>2, <2>3
<1>f. ASSUME NEW t \in Thread, NEW b \in Block \ {Genesis}, NEW k \in HeaderForks(b),
             ProcessBlockHeader(b, k), NEW l, pc' = [pc EXCEPT ![t] = l],
             blk' = [blk EXCEPT ![t] = b]
      PROVE  Kept /\ Behind
  <2>1. Kept /\ Work[b] <= Work[header_head']
    BY <1>0, <1>f, HeaderStepAtHead
  <2>2. \A s \in Thread \ {t} : pc'[s] = pc[s] /\ blk'[s] = blk[s]
    BY <1>0, <1>f
  <2>3. blk'[t] = b
    BY <1>0, <1>f
  <2>4. \A s \in Thread \ {t} : pc'[s] \in Early => Work[blk'[s]] <= Work[header_head']
    BY <1>w, <2>1, <2>2 DEF HeaderBehind, IInv, ThreadInv, ThreadTypeOK
  <2> QED BY <2>1, <2>3, <2>4
<1>1. ASSUME NEW t \in Thread, ThreadStep(t) PROVE Kept /\ Behind
  <2>1. ASSUME NEW b \in Block \ {Genesis}, StartBlock(t, b) PROVE Kept /\ Behind
    BY ZenonT(30), <1>f, <2>1 DEF StartBlock, Goto
  <2>2. ASSUME NEW b \in Block \ {Genesis}, NextOrphan(t, b) PROVE Kept /\ Behind
    <3>1. CASE UNCHANGED <<db, mmrs, pc, blk>>
      BY <1>b, <1>c, <3>1
    <3> QED BY ZenonT(30), <1>f, <2>2, <3>1 DEF NextOrphan, Goto
  <2>3. CASE IsKnown(t)
    BY <1>b, <1>d, <1>e, <2>3 DEF IsKnown, SingleFailed, Goto
  <2>4. CASE CheckOrphan(t)
    BY ZenonT(30), <1>b, <1>d, <2>4 DEF CheckOrphan, Goto
  <2>5. CASE DeferOrphan(t)
    BY ZenonT(30), <1>b, <1>s, <2>5 DEF DeferOrphan
  <2>6. ASSUME ProcessBody(t) \/ RejectBody(t)
        PROVE  /\ blk[t] \in headers \ {Genesis} /\ Work[blk[t]] <= Work[header_head]
               /\ pc[t] = "body"
    <3>1. pc[t] = "body"
      BY ZenonT(30), <2>6 DEF ProcessBody, RejectBody
    <3> QED BY <3>1 DEF HeaderBehind, IInv, ThreadInv
  <2>7. CASE ProcessBody(t)
    <3>1. PICK h \in HeaderForks(blk[t]) : HeaderOk(blk[t], h)
            /\ header_pmmr' = NewHeaderPmmr(blk[t], h) /\ header_head' = NewHeaderHead(blk[t], h)
      BY ZenonT(30), <2>7 DEF ProcessBody, CommitBlock
    <3>2. Kept
      BY ZenonT(30), <1>0, <1>a, <2>6, <2>7, <3>1, KnownHeaderKept
    <3> QED BY ZenonT(30), <1>d, <2>7, <3>2 DEF ProcessBody, Goto
  <2>8. CASE RejectBody(t)
    <3>1. header_head' = header_head
      BY <2>8 DEF RejectBody, db
    <3>2. header_pmmr' = header_pmmr
      BY ZenonT(30), <1>0, <2>6, <2>8, KnownHeaderKept DEF RejectBody
    <3>3. Kept
      BY <1>a, <3>1, <3>2
    <3> QED BY ZenonT(30), <1>s, <2>8, <3>3 DEF RejectBody
  <2>9. CASE Notify(t)
    BY ZenonT(30), <1>b, <1>e, <2>9 DEF Notify, Goto
  <2>10. CASE TakeOrphans(t)
    BY ZenonT(30), <1>b, <1>d, <2>10 DEF TakeOrphans, Goto
  <2>11. CASE EndOfHeight(t)
    BY ZenonT(30), <1>b, <1>d, <2>11 DEF EndOfHeight, Goto
  <2> QED BY ZenonT(30), <1>1, <2>1, <2>2, <2>3, <2>4, <2>5, <2>7, <2>8, <2>9, <2>10, <2>11 DEF ThreadStep
<1>2. ASSUME NEW b \in Block \ {Genesis}, ProcessHeader(b) PROVE Kept /\ Behind
  <2>1. PICK k \in HeaderForks(b) : ProcessBlockHeader(b, k)
    BY ZenonT(30), <1>2 DEF ProcessHeader
  <2>2. Kept
    BY ZenonT(30), <1>0, <2>1, HeaderStepAtHead
  <2> QED BY <1>2, <1>c, <2>2 DEF ProcessHeader, threads
<1>3. ASSUME NEW b \in Block \ {Genesis}, NEW i \in 2..Len(Path[b]), SyncBlockHeaders(b, i)
      PROVE  Kept /\ Behind
  <2>1. PICK k \in 1..Len(Path[b]) :
          /\ HeaderForkApplies(b, header_pmmr, Len(header_pmmr) - 1, k, headers')
          /\ IF HasMoreWork(b, header_head)
             THEN header_head' = b /\ header_pmmr' = Reapplied(header_pmmr, b, k)
             ELSE UNCHANGED <<header_head, header_pmmr>>
    BY ZenonT(30), <1>3 DEF SyncBlockHeaders
  <2>2. PICK a \in Block : header_pmmr = Path[a]
    BY ZenonT(30), <1>0 DEF ChainInv, DbTypeOK
  <2>3. CASE HasMoreWork(b, header_head)
    <3>1. header_head' = b /\ header_pmmr' = Path[b]
      BY <2>1, <2>2, <2>3, HeaderForkYieldsPath
    <3>2. Work[b] \in Nat /\ Work[header_head] \in Nat
      BY ZenonT(30), WorkAssumption DEF IInv, ChainInv, DbTypeOK
    <3> QED BY <1>3, <1>c, <2>3, <3>1, <3>2 DEF SyncBlockHeaders, threads, HasMoreWork, HeaderMmrAtHeaderHead
  <2>4. CASE ~HasMoreWork(b, header_head)
    BY ZenonT(30), <1>3, <1>a, <1>c, <2>1, <2>4 DEF SyncBlockHeaders, threads
  <2> QED BY <2>3, <2>4
<1>4. ASSUME NEW b \in Block, InvalidateHeader(b) PROVE Kept /\ Behind
  BY <1>4, <1>b, <1>c DEF InvalidateHeader, threads
<1>5. ASSUME NEW b \in Block PROVE ~ResetChainHead(b)
  BY ZenonT(30) DEF ResetChainHead
<1>6. CASE Compact
  BY ZenonT(30), <1>6, <1>a, <1>c DEF Compact, mmrs, threads
<1>7. CASE UNCHANGED vars
  BY <1>7, <1>b, <1>c DEF vars, threads
<1> QED BY <1>1, <1>2, <1>3, <1>4, <1>5, <1>6, <1>7 DEF Next

\* ForksInv is an invariant of Chain.
LEMMA ForksInvariance == Spec => []ForksInv
<1>1. Init => ForksInv
  BY PathAssumption DEF Init, ForksInv, ForksConsistent, ForkPointIsLastCommon,
                        HeaderMmrAtHeaderHead, HeaderBehind
<1>2. IInv /\ ForksInv /\ [Next]_vars => ForksInv'
  BY ForkPointStep, AtHeaderHeadStep DEF ForksInv, ForksConsistent
<1> QED BY <1>1, <1>2, Invariance, PTL DEF Spec

\* The fork point reported with a block is the last common block, and without resets the
\* header MMR is the chain of header_head, for any number of threads in process_block.
THEOREM ForksCorrect == Spec => []ForksConsistent
<1>1. ForksInv => ForksConsistent
  BY DEF ForksInv
<1> QED BY <1>1, ForksInvariance, PTL

-----------------------------------------------------------------------------
(* Orphans, with one thread in process_block. *)

Busy == {"is_known", "check_orphan", "add_orphan", "body", "notify"}

\* An orphan whose parent is stored is about to be picked up: by the loop of
\* check_orphans at its height, now or when the loop goes on to the next height.
Awaited(p, b, l, acc, o) ==
    CASE p = "notify" -> Prev(o) = b \/ (acc = TRUE /\ Height(o) = l + 1)
      [] p = "check_orphans" -> Height(o) = l
      [] OTHER -> acc = TRUE /\ Height(o) = l + 1

\* The thread at p with block b, at height l of the loop (0: not in the loop) with the
\* orphans td left to do and acc telling whether one was accepted; S: the pool, B: the
\* stored blocks.
LoopInv(p, b, l, td, acc, S, B) ==
    /\ S \subseteq Block \ {Genesis} /\ td \subseteq Block \ {Genesis}
    /\ p = "idle" => l = 0
    /\ p \in {"check_orphans", "next"} => l # 0
    /\ l = 0 => td = {} /\ acc = FALSE
    /\ l # 0 => \A o \in td : Height(o) = l
    /\ l # 0 /\ p \in Busy => Height(b) = l
    /\ p = "add_orphan" => Prev(b) \notin B
    /\ \A o \in S : Prev(o) \in B => Awaited(p, b, l, acc, o)

OrphanInv ==
    \A t \in Thread : LoopInv(pc[t], blk[t], level[t], todo[t], accepted[t], orphans, blocks)

\* A block is one above its parent.
LEMMA PrevHeight ==
  ASSUME NEW b \in Block \ {Genesis}
  PROVE  Height(b) = Height(Prev(b)) + 1 /\ Height(b) \in Nat
BY AppendPath, PathFacts DEF Height

\* A step of the only thread keeps the invariant of its loop.
LEMMA LoopStep ==
  ASSUME IInv, NEW t \in Thread, ThreadStep(t),
         LoopInv(pc[t], blk[t], level[t], todo[t], accepted[t], orphans, blocks)
  PROVE  LoopInv(pc'[t], blk'[t], level'[t], todo'[t], accepted'[t], orphans', blocks')
<1> DEFINE p == pc[t]
           b == blk[t]
           l == level[t]
           td == todo[t]
           acc == accepted[t]
           Goal == LoopInv(pc'[t], blk'[t], level'[t], todo'[t], accepted'[t], orphans', blocks')
<1> SUFFICES Goal
  BY ZenonT(30)
<1>d. /\ DOMAIN pc = Thread /\ DOMAIN blk = Thread /\ DOMAIN level = Thread
      /\ DOMAIN todo = Thread /\ DOMAIN accepted = Thread
      /\ l \in Nat /\ b \in Block /\ (p \in Busy => b # Genesis)
      /\ orphans \subseteq Block /\ acc \in BOOLEAN
  BY DEF IInv, ThreadInv, ThreadTypeOK, Busy
<1>h. LoopInv(p, b, l, td, acc, orphans, blocks)
  OBVIOUS
<1> HIDE DEF p, b, l, td, acc
\* Returning from process_block_single with an error.
<1>f. ASSUME p \in Busy \ {"notify"}, SingleFailed(t), NEW S, orphans' = S, S \subseteq orphans \cup {b},
             b \in S => b \in orphans \/ Prev(b) \notin blocks,
             blocks' = blocks, UNCHANGED <<level, todo, accepted>>
      PROVE  Goal
  <2>1. blk'[t] = Genesis /\ pc'[t] = IF l = 0 THEN "idle" ELSE "next"
    BY <1>d, <1>f DEF SingleFailed, Goto, l
  <2>2. level'[t] = l /\ todo'[t] = td /\ accepted'[t] = acc
    BY <1>f DEF l, td, acc
  <2>3. \A o \in S : Prev(o) \in blocks => o \in orphans
    BY <1>f
  <2>4. CASE l = 0
    <3>1. LoopInv("idle", Genesis, l, td, acc, S, blocks)
      BY <1>d, <1>f, <1>h, <2>3, <2>4 DEF LoopInv, Awaited, Busy
    <3> QED BY ZenonT(30), <1>f, <2>1, <2>2, <2>4, <3>1
  <2>5. CASE l # 0
    <3>1. LoopInv("next", Genesis, l, td, acc, S, blocks)
      BY <1>d, <1>f, <1>h, <2>3, <2>5 DEF LoopInv, Awaited, Busy
    <3> QED BY <1>f, <2>1, <2>2, <2>5, <3>1
  <2> QED BY <2>4, <2>5
<1>1. ASSUME NEW c \in Block \ {Genesis}, StartBlock(t, c) PROVE Goal
  <2>1. p = "idle" /\ pc'[t] = "is_known" /\ blk'[t] = c
    BY <1>1, <1>d DEF StartBlock, Goto, p
  <2>2. level'[t] = l /\ todo'[t] = td /\ accepted'[t] = acc /\ orphans' = orphans /\ blocks' = blocks
    BY ZenonT(30), <1>1 DEF StartBlock, ProcessBlockHeader, l, td, acc
  <2>3. LoopInv("is_known", c, l, td, acc, orphans, blocks)
    BY <1>h, <2>1 DEF LoopInv, Awaited, Busy
  <2> QED BY ZenonT(30), <2>1, <2>2, <2>3
<1>2. ASSUME NEW c \in Block \ {Genesis}, NextOrphan(t, c) PROVE Goal
  <2>1. p = "next" /\ c \in td /\ todo'[t] = td \ {c}
    BY ZenonT(30), <1>2, <1>d DEF NextOrphan, p, td
  <2>2. level'[t] = l /\ accepted'[t] = acc /\ orphans' = orphans /\ blocks' = blocks
    BY ZenonT(30), <1>2 DEF NextOrphan, ProcessBlockHeader, l, acc, db
  <2>3. (pc'[t] = "is_known" /\ blk'[t] = c) \/ (pc'[t] = p /\ blk'[t] = b)
    BY <1>2, <1>d DEF NextOrphan, Goto, p, b
  <2>4. /\ LoopInv("is_known", c, l, td \ {c}, acc, orphans, blocks)
        /\ LoopInv(p, b, l, td \ {c}, acc, orphans, blocks)
    BY <1>h, <2>1 DEF LoopInv, Awaited, Busy
  <2> QED BY ZenonT(30), <2>1, <2>2, <2>3, <2>4
<1>3. CASE IsKnown(t)
  <2>1. p = "is_known" /\ UNCHANGED <<orphans, blocks, level, todo, accepted>>
    BY <1>3 DEF IsKnown, db, p
  <2>2. CASE SingleFailed(t)
    BY ZenonT(30), <1>f, <2>1, <2>2 DEF Busy
  <2>3. CASE pc'[t] = "check_orphan" /\ blk' = blk
    <3>1. LoopInv("check_orphan", b, l, td, acc, orphans, blocks)
      BY <1>h, <2>1 DEF LoopInv, Awaited, Busy
    <3> QED BY ZenonT(30), <2>1, <2>3, <3>1 DEF b, l, td, acc
  <2> QED BY ZenonT(30), <1>3, <1>d, <2>2, <2>3 DEF IsKnown, Goto
<1>4. CASE CheckOrphan(t)
  <2>1. p = "check_orphan" /\ UNCHANGED <<orphans, blocks, blk, level, todo, accepted>>
    BY ZenonT(30), <1>4 DEF CheckOrphan, db, p
  <2>2. \/ pc'[t] = "body"
        \/ pc'[t] = "add_orphan" /\ Prev(b) \notin blocks
    BY ZenonT(30), <1>4, <1>d DEF CheckOrphan, Goto, b
  <2>3. /\ LoopInv("body", b, l, td, acc, orphans, blocks)
        /\ Prev(b) \notin blocks => LoopInv("add_orphan", b, l, td, acc, orphans, blocks)
    BY <1>h, <2>1 DEF LoopInv, Awaited, Busy
  <2> QED BY <2>1, <2>2, <2>3 DEF b, l, td, acc
<1>5. CASE DeferOrphan(t)
  <2>1. p = "add_orphan" /\ SingleFailed(t) /\ UNCHANGED <<blocks, level, todo, accepted>>
    BY ZenonT(30), <1>5 DEF DeferOrphan, db, p
  <2>2. orphans' \subseteq orphans \cup {b}
    BY <1>5 DEF DeferOrphan, AddOrphan, b
  <2>3. Prev(b) \notin blocks
    BY ZenonT(30), <1>h, <2>1 DEF LoopInv
  <2> QED BY ZenonT(30), <1>f, <2>1, <2>2, <2>3 DEF Busy
<1>6. CASE ProcessBody(t)
  <2>1. p = "body" /\ pc'[t] = "notify" /\ UNCHANGED <<orphans, blk, level, todo, accepted>>
    BY ZenonT(30), <1>6, <1>d DEF ProcessBody, Goto, p
  <2>2. blocks' = blocks \cup {b}
    BY ZenonT(30), <1>6 DEF ProcessBody, CommitBlock, b
  <2>3. LoopInv("notify", b, l, td, acc, orphans, blocks \cup {b})
    BY <1>h, <2>1 DEF LoopInv, Awaited, Busy
  <2> QED BY ZenonT(30), <2>1, <2>2, <2>3 DEF b, l, td, acc
<1>7. CASE RejectBody(t)
  <2>1. p = "body" /\ SingleFailed(t) /\ UNCHANGED <<orphans, blocks, level, todo, accepted>>
    BY ZenonT(30), <1>7 DEF RejectBody, db, p
  <2> QED BY ZenonT(30), <1>f, <2>1 DEF Busy
<1>8. CASE Notify(t)
  <2>1. p = "notify" /\ blk'[t] = Genesis /\ UNCHANGED <<orphans, blocks, todo>>
    BY <1>8, <1>d DEF Notify, db, p
  <2>2. b # Genesis /\ Height(b) \in Nat
    BY ZenonT(30), <1>d, <2>1, PathFacts DEF Busy
  <2>3. \A o \in orphans : Height(o) = Height(Prev(o)) + 1
    BY ZenonT(30), <1>h, PrevHeight DEF LoopInv
  <2>4. CASE l = 0
    <3>1. pc'[t] = "check_orphans" /\ level'[t] = Height(b) + 1 /\ accepted' = accepted
      BY <1>8, <1>d, <2>4 DEF Notify, Goto, b, l
    <3>2. td = {}
      BY <1>h, <2>4 DEF LoopInv
    <3>3. LoopInv("check_orphans", Genesis, Height(b) + 1, td, acc, orphans, blocks)
      BY <1>h, <2>1, <2>2, <2>3, <2>4, <3>2 DEF LoopInv, Awaited, Busy
    <3> QED BY ZenonT(30), <2>1, <3>1, <3>3 DEF td, acc
  <2>5. CASE l # 0
    <3>1. pc'[t] = "next" /\ level' = level /\ accepted'[t] = TRUE
      BY <1>8, <1>d, <2>5 DEF Notify, Goto, l
    <3>2. Height(b) = l
      BY <1>h, <2>1, <2>5 DEF LoopInv, Busy
    <3>3. LoopInv("next", Genesis, l, td, TRUE, orphans, blocks)
      BY <1>h, <2>1, <2>2, <2>3, <2>5, <3>2 DEF LoopInv, Awaited, Busy
    <3> QED BY ZenonT(30), <2>1, <3>1, <3>3 DEF td, l
  <2> QED BY <2>4, <2>5
<1>9. CASE TakeOrphans(t)
  <2>1. p = "check_orphans" /\ pc'[t] = "next" /\ UNCHANGED <<blocks, blk, level, accepted>>
    BY ZenonT(30), <1>9, <1>d DEF TakeOrphans, Goto, db, p
  <2>2. todo'[t] = AtHeight(l) /\ orphans' = orphans \ AtHeight(l)
    BY ZenonT(30), <1>9, <1>d DEF TakeOrphans, TakeHeight, l
  <2>3. LoopInv("next", b, l, AtHeight(l), acc, orphans \ AtHeight(l), blocks)
    BY <1>h, <2>1 DEF LoopInv, Awaited, AtHeight, Busy
  <2> QED BY <2>1, <2>2, <2>3 DEF b, l, acc
<1>10. CASE EndOfHeight(t)
  <2>1. /\ p = "next" /\ td = {} /\ accepted'[t] = FALSE /\ UNCHANGED <<orphans, blocks, blk, todo>>
    BY <1>10, <1>d DEF EndOfHeight, db, p, td
  <2>2. CASE acc = TRUE
    <3>1. level'[t] = l + 1 /\ pc'[t] = "check_orphans"
      BY <1>10, <1>d, <2>2 DEF EndOfHeight, Goto, l, acc
    <3>2. LoopInv("check_orphans", b, l + 1, td, FALSE, orphans, blocks)
      BY <1>d, <1>h, <2>1, <2>2 DEF LoopInv, Awaited, Busy
    <3> QED BY ZenonT(30), <2>1, <3>1, <3>2 DEF b, td
  <2>3. CASE acc = FALSE
    <3>1. level'[t] = 0 /\ pc'[t] = "idle"
      BY <1>10, <1>d, <2>3 DEF EndOfHeight, Goto, acc
    <3>2. LoopInv("idle", b, 0, td, FALSE, orphans, blocks)
      BY <1>d, <1>h, <2>1, <2>3 DEF LoopInv, Awaited, Busy
    <3> QED BY ZenonT(30), <2>1, <3>1, <3>2 DEF b, td
  <2> QED BY ZenonT(30), <1>d, <2>2, <2>3
<1> QED
  BY ZenonT(30), <1>1, <1>2, <1>3, <1>4, <1>5, <1>6, <1>7, <1>8, <1>9, <1>10 DEF ThreadStep

\* Every step keeps it, if there is one thread.
LEMMA OrphanStep ==
  ASSUME IInv, OrphanInv, [Next]_vars, OneThread
  PROVE  OrphanInv'
<1>1. ASSUME NEW t \in Thread, ThreadStep(t) PROVE OrphanInv'
  <2>1. LoopInv(pc'[t], blk'[t], level'[t], todo'[t], accepted'[t], orphans', blocks')
    BY <1>1, LoopStep DEF OrphanInv
  <2>2. \A s \in Thread : LoopInv(pc'[s], blk'[s], level'[s], todo'[s], accepted'[s], orphans', blocks')
    BY ZenonT(30), <2>1 DEF OneThread
  <2> QED BY <2>2 DEF OrphanInv, LoopInv, Awaited, Busy, Prev, Height
<1>2. ASSUME UNCHANGED <<orphans, threads>>, blocks' \subseteq blocks PROVE OrphanInv'
  <2>1. \A s \in Thread : LoopInv(pc[s], blk[s], level[s], todo[s], accepted[s], orphans, blocks')
    BY ZenonT(30), <1>2 DEF OrphanInv, LoopInv
  <2>2. \A s \in Thread : LoopInv(pc'[s], blk'[s], level'[s], todo'[s], accepted'[s], orphans', blocks')
    BY <1>2, <2>1 DEF threads
  <2> QED BY <2>2 DEF OrphanInv, LoopInv, Awaited, Busy, Prev, Height
<1>3. ASSUME NEW b \in Block, ProcessHeader(b) \/ InvalidateHeader(b) \/ ResetChainHead(b)
      PROVE  OrphanInv'
  BY <1>2, <1>3 DEF ProcessHeader, ProcessBlockHeader, InvalidateHeader, ResetChainHead, db
<1>4. ASSUME NEW b \in Block, NEW i \in 2..Len(Path[b]), SyncBlockHeaders(b, i) PROVE OrphanInv'
  BY ZenonT(30), <1>2, <1>4 DEF SyncBlockHeaders
<1>5. CASE Compact
  BY <1>2, <1>5 DEF Compact
<1>6. CASE UNCHANGED vars
  BY <1>2, <1>6 DEF vars, db
<1> QED BY <1>1, <1>3, <1>4, <1>5, <1>6 DEF Next

\* With one thread in process_block no orphan stays in the pool once its parent is stored
\* and the call has returned.
THEOREM OrphansPickedUp == Spec => []NoOrphanLeft
<1>1. Init => OrphanInv
  BY DEF Init, OrphanInv, LoopInv, Busy
<1>2. ASSUME OneThread, OrphanInv PROVE NoStuckOrphan
  <2> SUFFICES ASSUME \A t \in Thread : pc[t] = "idle", NEW o \in orphans, Prev(o) \in blocks
               PROVE  FALSE
    BY DEF NoStuckOrphan
  <2>1. PICK t \in Thread : LoopInv("idle", blk[t], level[t], todo[t], accepted[t], orphans, blocks)
    BY ZenonT(30), <1>2 DEF OneThread, OrphanInv
  <2>2. Awaited("idle", blk[t], level[t], accepted[t], o) /\ accepted[t] = FALSE
    BY ZenonT(30), <2>1 DEF LoopInv
  <2> QED BY <2>2 DEF Awaited
<1>3. CASE OneThread
  <2>1. IInv /\ OrphanInv /\ [Next]_vars => OrphanInv'
    BY <1>3, OrphanStep
  <2>2. OrphanInv => NoOrphanLeft
    BY <1>2, <1>3 DEF NoOrphanLeft
  <2> QED BY <1>1, <2>1, <2>2, Invariance, PTL DEF Spec
<1>4. CASE ~OneThread
  <2>1. NoOrphanLeft
    BY <1>4 DEF NoOrphanLeft
  <2> QED BY <2>1, PTL
<1> QED BY <1>3, <1>4
=============================================================================
