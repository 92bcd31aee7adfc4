---------------------------- MODULE PoolsProofs -----------------------------
(***************************************************************************)
(* Two places where a node keeps what others wait for.                     *)
(*                                                                         *)
(* No valid work of a miner is wasted and no coinbase key goes into two    *)
(* blocks, for any number of workers and any order of their requests with  *)
(* the main loop: Stratum!WorkCounts holds in every reachable state.  The  *)
(* head only grows, so a hash the loop remembers is that of the head       *)
(* exactly when no block came in since; versions of one height have one    *)
(* parent; and a key that was used is only the current one while its       *)
(* handler has yet to reset it.                                            *)
(*                                                                         *)
(* And OrphanPool implements OrphanSet, for every set of blocks and every  *)
(* size.                                                                   *)
(***************************************************************************)
EXTENDS OrphanPool, Stratum, TLAPS

\* The provers of a leaf that names none, in this order.
USE SMTT(30), ZenonT(30), SMTT(60)


WorkHash == Nat \X Int
WorkHead == [height : Nat, id : WorkHash]
WorkBlock == [prev : WorkHash, height : Nat, key : Nat, fees : Fees \union {0}, raced : BOOLEAN, id : WorkHash]
WorkJob == [height : Nat, job : Nat, block : WorkBlock, torn : BOOLEAN]

StratumTypeOK ==
  /\ head \in WorkHead /\ accepted \in Seq(WorkBlock)
  /\ versions \in Seq(WorkBlock) /\ Len(versions) >= 1
  /\ keyId \in Nat /\ nextKey \in Nat /\ curDiff \in Int /\ others \in Nat
  /\ runPc \in {"start", "idle", "due", "build", "broadcast"}
  /\ runHead \in WorkHead /\ currentHash \in WorkHash
  /\ pc \in [Workers -> {"off", "idle", "template", "process", "reset", "gone"}]
  /\ job \in [Workers -> WorkJob] /\ share \in [Workers -> WorkJob]
  /\ header \in [Workers -> WorkBlock] /\ listed \subseteq Workers

(* The head the loop read is an earlier one, or still the head.             *)
HeadsGrow ==
  /\ head.height >= 1 /\ head.id[1] = head.height
  /\ runHead.height >= 1 /\ runHead.id[1] = runHead.height
  /\ runHead.height <= head.height /\ (runHead.height = head.height => runHead = head)
  /\ currentHash[1] <= head.height

(* Versions are in the order of their heights, each on the one head there   *)
(* was of its height.                                                       *)
VersionsInOrder ==
  /\ Last(versions).height <= head.height + 1
  /\ \A i \in 1..Len(versions) :
       /\ versions[i].id[1] = versions[i].height
       /\ versions[i].height <= Last(versions).height
       /\ versions[i].height = head.height + 1 => versions[i].prev = head.id
  /\ \A i, j \in 1..Len(versions) :
       versions[i].height = versions[j].height => versions[i].prev = versions[j].prev

(* What the loop built for the head it saw.                                 *)
BuiltOnHead ==
  /\ currentHash = head.id =>
       /\ curDiff = 1
       /\ \A i \in 1..Len(versions) : versions[i].prev = head.id /\ versions[i].height = head.height + 1
  /\ currentHash = NoHash => curDiff > 1
  /\ currentHash # NoHash => \A i \in 1..Len(versions) : versions[i].key >= 1

(* A key is used for the first time when it is new.                         *)
KeysKnown ==
  /\ nextKey >= 1 /\ keyId < nextKey
  /\ \A i \in 1..Len(versions) : versions[i].key < nextKey
  /\ \A i \in 1..Len(accepted) : accepted[i].key >= 1 /\ accepted[i].key < nextKey

(* A used key is still the current one only while its handler runs, and of  *)
(* the versions that can still be accepted only those built meanwhile, or   *)
(* on the same head, have it.                                               *)
KeysReset ==
  /\ \A i \in 1..Len(accepted) : accepted[i].key = keyId => \E w \in Workers : pc[w] = "reset"
  /\ \A i \in 1..Len(accepted), j \in 1..Len(versions) :
       versions[j].key = accepted[i].key =>
         \/ versions[j].raced \/ versions[j].prev = accepted[i].prev
         \/ versions[j].height < Last(versions).height

Whole(j) == j.job <= Len(versions) /\ versions[j.job] = j.block

(* Jobs are those of the versions, and a share that is handled has the read *)
(* lock, so that the version it names stays.                                *)
JobsNamed ==
  /\ \A w \in Workers : job[w] # NoJob => job[w].job >= 1 /\ job[w].height = job[w].block.height
  /\ \A w \in Workers : pc[w] = "off" => job[w] = NoJob /\ w \notin listed
  /\ runPc # "broadcast" => \A w \in listed : job[w] = NoJob \/ job[w].torn \/ Whole(job[w])
  /\ \A w \in Workers : pc[w] = "process" =>
       /\ runPc # "build" /\ currentHash # NoHash
       /\ share[w].job \in 1..Len(versions)
       /\ share[w].height = share[w].block.height
       /\ share[w].height = Last(versions).height

StratumInv == /\ StratumTypeOK /\ HeadsGrow /\ VersionsInOrder /\ BuiltOnHead
        /\ KeysKnown /\ KeysReset /\ JobsNamed /\ KeyUsedOnce

-----------------------------------------------------------------------------
(* The last version is one of them, also after one is appended.             *)
LEMMA LastOfAppend ==
  ASSUME NEW S, NEW s \in Seq(S), NEW e \in S
  PROVE  /\ Append(s, e) \in Seq(S) /\ Len(Append(s, e)) = Len(s) + 1
         /\ Last(Append(s, e)) = e
         /\ \A i \in 1..Len(s) : Append(s, e)[i] = s[i]
         /\ Append(s, e)[Len(s) + 1] = e
BY DEF Last

(* The constants of the model have their types.                             *)
LEMMA Constants ==
  /\ NoHash \in WorkHash /\ NoBlock \in WorkBlock /\ NoJob \in WorkJob
  /\ NoBlock.height = 0 /\ NoBlock.key = 0 /\ NoBlock.id[1] = 0 /\ NoJob.job = 0
  /\ NoHash[1] = 0
BY DEF NoHash, NoBlock, NoJob, WorkHash, WorkBlock, WorkJob

(* So have the versions and their fields.                                   *)
LEMMA VersionTypes ==
  ASSUME StratumTypeOK
  PROVE  /\ Len(versions) \in Nat /\ Last(versions) = versions[Len(versions)]
         /\ Last(versions) \in WorkBlock /\ Last(versions).height \in Nat
         /\ \A i \in 1..Len(versions) : /\ versions[i] \in WorkBlock /\ versions[i].height \in Nat
                                         /\ versions[i].key \in Nat
         /\ \A w \in Workers : header[w] \in WorkBlock /\ header[w].height \in Nat
<1>1. \A b \in WorkBlock : b.height \in Nat /\ b.key \in Nat
  BY DEF WorkBlock
<1> QED BY <1>1 DEF StratumTypeOK, Last

(* And so have the blocks that were found.                                  *)
LEMMA AcceptedTypes ==
  ASSUME StratumTypeOK
  PROVE  Len(accepted) \in Nat /\ \A i \in 1..Len(accepted) : accepted[i].key \in Nat
<1>1. \A b \in WorkBlock : b.key \in Nat
  BY DEF WorkBlock
<1> QED BY <1>1 DEF StratumTypeOK

(* The initial state satisfies the invariant.                               *)
LEMMA InitInv == StratumInit => StratumInv
<1> SUFFICES ASSUME StratumInit PROVE StratumInv OBVIOUS
<1>0. /\ NoHash \in WorkHash /\ NoBlock \in WorkBlock /\ NoJob \in WorkJob
      /\ NoBlock.height = 0 /\ NoBlock.key = 0 /\ NoBlock.id[1] = 0 /\ NoJob.job = 0
      /\ NoHash[1] = 0
  BY Constants
<1>1. versions \in Seq(WorkBlock) /\ Len(versions) = 1 /\ versions[1] = NoBlock
  BY <1>0 DEF StratumInit
<1>2. accepted \in Seq(WorkBlock) /\ Len(accepted) = 0
  BY DEF StratumInit
<1>3. head = [height |-> 1, id |-> <<1, 0>>] /\ head \in WorkHead /\ head.height = 1 /\ head.id[1] = 1
  BY DEF StratumInit, WorkHead, WorkHash
<1>4. StratumTypeOK
  BY <1>0, <1>1, <1>2, <1>3 DEF StratumInit, StratumTypeOK
<1>5. HeadsGrow
  BY <1>0, <1>3 DEF StratumInit, HeadsGrow
<1>6. VersionsInOrder
  BY <1>0, <1>1, <1>3 DEF VersionsInOrder, Last
<1>7. BuiltOnHead
  BY <1>0, <1>1, <1>3 DEF BuiltOnHead, StratumInit
<1>8. KeysKnown /\ KeysReset /\ KeyUsedOnce
  BY <1>0, <1>1, <1>2 DEF KeysKnown, KeysReset, KeyUsedOnce, StratumInit
<1>9. JobsNamed
  BY <1>0, <1>1 DEF JobsNamed, StratumInit
<1> QED BY <1>4, <1>5, <1>6, <1>7, <1>8, <1>9 DEF StratumInv

(* A step that leaves the chain, the versions, the keys and the loop's hash *)
(* alone disturbs only the jobs.                                            *)
LEMMA QuietStep ==
  ASSUME StratumInv, UNCHANGED <<head, accepted, versions, keyId, curDiff, currentHash, nextKey>>,
         runHead' \in {runHead, head},
         \A w \in Workers : pc[w] = "reset" => pc'[w] = "reset",
         StratumTypeOK', JobsNamed'
  PROVE  StratumInv'
<1>1. HeadsGrow'
  BY DEF StratumInv, HeadsGrow, StratumTypeOK, WorkHead
<1>2. VersionsInOrder' /\ BuiltOnHead' /\ KeysKnown' /\ KeyUsedOnce'
  BY DEF StratumInv, VersionsInOrder, BuiltOnHead, KeysKnown, KeyUsedOnce, Last
<1>3. KeysReset'
  BY DEF StratumInv, KeysReset, Last
<1> QED BY <1>1, <1>2, <1>3 DEF StratumInv

(* The main loop between two builds, and the connections that only read.    *)
LEMMA QuietActions ==
  ASSUME StratumInv, \/ SyncDone \/ run_loop \/ ReadHead \/ LockState \/ broadcast_job
               \/ \E w \in Workers : Connection(w)
  PROVE  StratumInv'
<1> USE DEF chainVars, stateVars, loopVars, taskVars, bounds
<1>0. /\ StratumTypeOK /\ JobsNamed /\ NoBlock \in WorkBlock /\ NoJob \in WorkJob /\ NoJob.job = 0
      /\ Last(versions) \in WorkBlock
  BY Constants, VersionTypes DEF StratumInv
<1>1. CASE SyncDone \/ run_loop \/ ReadHead \/ LockState
  <2>1. UNCHANGED <<head, accepted, versions, keyId, curDiff, currentHash, nextKey, taskVars, others>>
        /\ runHead' \in {runHead, head}
    BY <1>1 DEF SyncDone, run_loop, ReadHead, LockState
  <2>2. runPc' \in {runPc, "idle", "due", "build"} /\ (runPc' # runPc => runPc # "broadcast")
        /\ (runPc' = "build" => runPc' = runPc \/ \A w \in Workers : pc[w] # "process")
    BY <1>1 DEF SyncDone, run_loop, ReadHead, LockState, Reading
  <2>3. StratumTypeOK'
    BY <1>0, <2>1, <2>2 DEF StratumTypeOK
  <2>4. JobsNamed'
    <3>1. (\A w \in Workers : job[w] # NoJob => job[w].job >= 1 /\ job[w].height = job[w].block.height)'
      BY <1>0, <2>1 DEF JobsNamed
    <3>4. (\A w \in Workers : pc[w] = "off" => job[w] = NoJob /\ w \notin listed)'
      BY <1>0, <2>1 DEF JobsNamed
    <3>2. (runPc # "broadcast" => \A w \in listed : job[w] = NoJob \/ job[w].torn \/ Whole(job[w]))'
      BY <1>0, <2>1, <2>2 DEF JobsNamed, Whole
    <3>3. (\A w \in Workers : pc[w] = "process" =>
             /\ runPc # "build" /\ currentHash # NoHash
             /\ share[w].job \in 1..Len(versions)
             /\ share[w].height = share[w].block.height
             /\ share[w].height = Last(versions).height)'
      BY <1>0, <2>1, <2>2 DEF JobsNamed, Last
    <3> QED BY <3>1, <3>2, <3>3, <3>4 DEF JobsNamed
  <2> QED BY <2>1, <2>3, <2>4, QuietStep
<1>2. CASE broadcast_job
  <2>1. UNCHANGED <<head, accepted, versions, keyId, curDiff, currentHash, nextKey, runHead, pc,
                    share, header, listed, others>>
        /\ runPc = "broadcast" /\ runPc' = "idle"
        /\ job' = [w \in Workers |-> IF w \in listed THEN build_block_template ELSE job[w]]
    BY <1>2 DEF broadcast_job
  <2>2. /\ build_block_template \in WorkJob /\ build_block_template.job = Len(versions)
        /\ build_block_template.height = build_block_template.block.height
        /\ build_block_template.block = versions[Len(versions)]
    BY <1>0, VersionTypes DEF build_block_template, WorkJob
  <2>3. StratumTypeOK'
    BY <1>0, <2>1, <2>2 DEF StratumTypeOK
  <2>4. JobsNamed'
    BY <1>0, <2>1, <2>2 DEF JobsNamed, Whole, StratumTypeOK, Last
  <2> QED BY <2>1, <2>3, <2>4, QuietStep
<1>3. CASE \E w \in Workers : Connection(w)
  <2> PICK w \in Workers : Connection(w) BY <1>3
  <2>0. UNCHANGED <<head, accepted, versions, keyId, curDiff, currentHash, nextKey, runHead, runPc, others>>
    BY ZenonT(30) DEF Connection, add_worker, remove_worker, TemplateHeader, TemplateId, handle_submit
  <2>1. CASE add_worker(w)
    <3>1. StratumTypeOK'
      BY <1>0, <2>0, <2>1 DEF StratumTypeOK, add_worker
    <3>2. JobsNamed'
      BY <1>0, <2>0, <2>1 DEF JobsNamed, add_worker, StratumTypeOK, Whole, Last
    <3> QED BY <2>0, <2>1, <3>1, <3>2, QuietStep DEF add_worker, StratumTypeOK
  <2>2. CASE remove_worker(w)
    <3>1. StratumTypeOK'
      BY <1>0, <2>0, <2>2 DEF StratumTypeOK, remove_worker
    <3>2. JobsNamed'
      BY <1>0, <2>0, <2>2 DEF JobsNamed, remove_worker, StratumTypeOK, Whole, Last
    <3> QED BY <1>0, <2>0, <2>2, <3>1, <3>2, QuietStep DEF remove_worker, StratumTypeOK
  <2>3. CASE TemplateHeader(w)
    <3>1. StratumTypeOK'
      BY <1>0, <2>0, <2>3 DEF StratumTypeOK, TemplateHeader
    <3>2. JobsNamed'
      BY <1>0, <2>0, <2>3 DEF JobsNamed, TemplateHeader, StratumTypeOK, Whole, Last
    <3> QED BY <1>0, <2>0, <2>3, <3>1, <3>2, QuietStep DEF TemplateHeader, StratumTypeOK
  <2>4. CASE TemplateId(w)
    <3> DEFINE j == [height |-> header[w].height, job |-> Len(versions),
                     block |-> header[w], torn |-> Last(versions) # header[w]]
    <3>0. /\ j \in WorkJob /\ j.job = Len(versions) /\ j.height = j.block.height
          /\ (~ j.torn => j.block = versions[Len(versions)])
      BY ZenonT(30), <1>0, VersionTypes DEF WorkJob
    <3>1. job' = [job EXCEPT ![w] = j] /\ pc' = [pc EXCEPT ![w] = "idle"]
          /\ header' = [header EXCEPT ![w] = NoBlock] /\ UNCHANGED <<share, listed>> /\ pc[w] = "template"
      BY <2>4 DEF TemplateId
    <3> HIDE DEF j
    <3>2. StratumTypeOK'
      BY <1>0, <2>0, <3>0, <3>1 DEF StratumTypeOK
    <3>3. JobsNamed'
      BY <1>0, <2>0, <3>0, <3>1 DEF JobsNamed, StratumTypeOK, Whole, Last
    <3> QED BY <1>0, <2>0, <3>1, <3>2, <3>3, QuietStep DEF StratumTypeOK
  <2>5. CASE handle_submit(w)
    <3>0. /\ pc[w] = "idle" /\ job[w] # NoJob /\ runPc # "build" /\ UNCHANGED <<job, header, listed>>
          /\ \/ UNCHANGED <<pc, share>>
             \/ /\ ~ TooLate(job[w]) /\ ~ (curDiff > 1)
                /\ pc' = [pc EXCEPT ![w] = "process"]
                /\ share' = [share EXCEPT ![w] = job[w]]
      BY <2>5 DEF handle_submit, Writing
    <3>1. StratumTypeOK'
      BY <1>0, <2>0, <3>0 DEF StratumTypeOK
    <3>2. ~ (curDiff > 1) => currentHash # NoHash
      BY DEF StratumInv, BuiltOnHead
    <3>3. ~ TooLate(job[w]) => /\ job[w].height = Last(versions).height
                              /\ job[w].job \in 1..Len(versions)
                              /\ job[w].height = job[w].block.height
      BY <1>0, <3>0 DEF TooLate, JobsNamed, StratumTypeOK, WorkJob
    <3>4. JobsNamed'
      BY <1>0, <2>0, <3>0, <3>2, <3>3 DEF JobsNamed, StratumTypeOK, Whole, Last
    <3> QED BY <1>0, <2>0, <3>0, <3>1, <3>4, QuietStep DEF StratumTypeOK
  <2> QED BY <2>1, <2>2, <2>3, <2>4, <2>5 DEF Connection
<1> QED BY <1>1, <1>2, <1>3

(* Another miner's block: what was built is no longer on the head.          *)
LEMMA OtherBlockInv == ASSUME StratumInv, OtherBlock PROVE StratumInv'
<1> USE DEF chainVars, stateVars, loopVars, taskVars, bounds
<1> DEFINE h == [height |-> head.height + 1, id |-> <<head.height + 1, -1 - others>>]
<1>1. /\ head' = h /\ others' = others + 1
      /\ UNCHANGED <<accepted, versions, keyId, curDiff, runPc, runHead, currentHash, pc, job, share,
                     header, listed, nextKey>>
  BY DEF OtherBlock
<1>2. h \in WorkHead /\ h.height = head.height + 1 /\ h.id[1] = h.height /\ head.height \in Nat
  <2>1. head.height \in Nat /\ others \in Nat
    BY ZenonT(30) DEF StratumInv, StratumTypeOK, WorkHead
  <2> QED BY <2>1 DEF WorkHead, WorkHash
<1> HIDE DEF h
<1>3. StratumTypeOK'
  BY <1>1, <1>2 DEF StratumInv, StratumTypeOK
<1>4. HeadsGrow'
  <2>1. /\ head' = h /\ UNCHANGED <<runHead, currentHash>> /\ HeadsGrow
        /\ runHead.height \in Nat /\ currentHash[1] \in Nat
    BY ZenonT(30), <1>1 DEF StratumInv, StratumTypeOK, WorkHead, WorkHash
  <2> QED BY <1>2, <2>1 DEF HeadsGrow
<1>5. VersionsInOrder'
  <2>1. \A i \in 1..Len(versions) : versions[i].height <= head.height + 1
    <3>1. head.height \in Nat /\ Last(versions).height \in Nat /\ VersionsInOrder
      BY ZenonT(30), <1>2, VersionTypes DEF StratumInv
    <3>2. \A i \in 1..Len(versions) : versions[i].height \in Nat
      BY ZenonT(30), VersionTypes DEF StratumInv
    <3> QED BY <3>1, <3>2 DEF VersionsInOrder
  <2>2. VersionsInOrder /\ UNCHANGED versions
    BY ZenonT(30), <1>1 DEF StratumInv
  <2>3. Last(versions)' = Last(versions)
    BY ZenonT(30), <2>2 DEF Last
  <2>4. head'.height = head.height + 1 /\ head.height \in Nat
    BY ZenonT(30), <1>1, <1>2
  <2>5. Last(versions).height <= head'.height + 1
    <3>1. Last(versions).height \in Nat /\ Last(versions).height <= head.height + 1
      BY ZenonT(30), <2>2, VersionTypes DEF StratumInv, VersionsInOrder
    <3> QED BY <2>4, <3>1
  <2>6. \A i \in 1..Len(versions) : versions[i].height # head'.height + 1
    <3>1. \A i \in 1..Len(versions) : versions[i].height \in Nat
      BY ZenonT(30), VersionTypes DEF StratumInv
    <3> QED BY <2>1, <2>4, <3>1
  <2> QED BY ZenonT(30), <2>2, <2>3, <2>5, <2>6 DEF VersionsInOrder
<1>6. BuiltOnHead'
  <2>1. currentHash' # head'.id
    BY <1>1, <1>2 DEF StratumInv, HeadsGrow, StratumTypeOK, WorkHash
  <2> QED BY <1>1, <2>1 DEF StratumInv, BuiltOnHead
<1>7. KeysKnown' /\ KeysReset' /\ KeyUsedOnce'
  BY <1>1 DEF StratumInv, KeysKnown, KeysReset, KeyUsedOnce, Last
<1>8. JobsNamed'
  BY <1>1 DEF StratumInv, JobsNamed, Whole, Last
<1> QED BY <1>3, <1>4, <1>5, <1>6, <1>7, <1>8 DEF StratumInv

(* The handler that found a block gives its key up.                         *)
LEMMA ResetKeyInv == ASSUME StratumInv, NEW w \in Workers, ResetKey(w) PROVE StratumInv'
<1> USE DEF chainVars, stateVars, loopVars, taskVars, bounds
<1>1. /\ keyId' = 0 /\ pc' = [pc EXCEPT ![w] = "idle"] /\ pc[w] = "reset"
      /\ UNCHANGED <<head, accepted, versions, curDiff, runPc, runHead, currentHash, job, share,
                     header, listed, nextKey, others>>
  BY DEF ResetKey
<1>2. StratumTypeOK'
  BY ZenonT(30), <1>1 DEF StratumInv, StratumTypeOK
<1>3. HeadsGrow' /\ VersionsInOrder' /\ BuiltOnHead' /\ KeyUsedOnce'
  BY <1>1 DEF StratumInv, HeadsGrow, VersionsInOrder, BuiltOnHead, KeyUsedOnce, Last
<1>4. KeysKnown' /\ \A i \in 1..Len(accepted) : accepted[i].key # 0
  BY <1>1 DEF StratumInv, KeysKnown, StratumTypeOK
<1>5. KeysReset'
  BY ZenonT(30), <1>1, <1>4 DEF StratumInv, KeysReset, Last
<1>6. JobsNamed'
  BY <1>1 DEF StratumInv, JobsNamed, StratumTypeOK, Whole, Last
<1> QED BY <1>2, <1>3, <1>4, <1>5, <1>6 DEF StratumInv

(* A share is refused, or its block becomes the newest of its height.       *)
LEMMA ProcessBlockInv == ASSUME StratumInv, NEW w \in Workers, process_block(w) PROVE StratumInv'
<1> USE DEF chainVars, stateVars, loopVars, taskVars, bounds
<1> DEFINE b == Named(share[w])
<1>0. /\ pc[w] = "process" /\ share' = [share EXCEPT ![w] = NoJob]
      /\ UNCHANGED <<versions, keyId, curDiff, runPc, runHead, currentHash, job, header, listed,
                     nextKey, others>>
  BY ZenonT(30) DEF process_block
<1>1. /\ b \in WorkBlock /\ b.height \in Nat /\ b.key \in Nat /\ b.id \in WorkHash /\ b.id[1] = b.height
      /\ b.key >= 1 /\ b.key < nextKey /\ b.height <= head.height + 1
      /\ share[w].job \in 1..Len(versions) /\ b = versions[share[w].job]
      /\ (b = share[w].block => b.height = Last(versions).height)
  <2>1. share[w].job \in 1..Len(versions) /\ b = versions[share[w].job]
    BY <1>0 DEF StratumInv, JobsNamed, Named
  <2>2. b \in WorkBlock /\ b.height \in Nat /\ b.key \in Nat
    BY ZenonT(30), <2>1, VersionTypes DEF StratumInv
  <2>3. b.id \in WorkHash /\ b.id[1] = b.height /\ b.key >= 1 /\ b.key < nextKey
    <3>1. currentHash # NoHash
      BY ZenonT(30), <1>0 DEF StratumInv, JobsNamed
    <3>2. b.id[1] = b.height /\ b.key >= 1 /\ b.key < nextKey
      BY ZenonT(30), <2>1, <3>1 DEF StratumInv, VersionsInOrder, BuiltOnHead, KeysKnown
    <3> QED BY <2>2, <3>2 DEF WorkBlock
  <2>4. b.height <= Last(versions).height /\ Last(versions).height <= head.height + 1
    BY <2>1 DEF StratumInv, VersionsInOrder
  <2>5. b.height <= head.height + 1
    BY <2>2, <2>4, VersionTypes DEF StratumInv, StratumTypeOK, WorkHead
  <2>6. b = share[w].block => b.height = Last(versions).height
    BY ZenonT(30), <1>0 DEF StratumInv, JobsNamed
  <2> QED BY ZenonT(30), <2>1, <2>2, <2>3, <2>5, <2>6
<1> HIDE DEF b
<1>2. \/ pc' = [pc EXCEPT ![w] = "idle"] /\ UNCHANGED <<head, accepted>>
      \/ /\ b = share[w].block /\ accepted' = Append(accepted, b)
         /\ head' = IF b.height > head.height THEN [height |-> b.height, id |-> b.id] ELSE head
         /\ pc' = [pc EXCEPT ![w] = "reset"]
  BY ZenonT(30) DEF process_block, b
<1>3. JobsNamed'
  <2>1. pc' \in {[pc EXCEPT ![w] = "idle"], [pc EXCEPT ![w] = "reset"]}
    BY <1>2
  <2>2. Last(versions)' = Last(versions)
    BY ZenonT(30), <1>0 DEF Last
  <2> QED BY <1>0, <2>1, <2>2 DEF StratumInv, JobsNamed, StratumTypeOK, Whole
<1>4. CASE pc' = [pc EXCEPT ![w] = "idle"] /\ UNCHANGED <<head, accepted>>
  <2>1. StratumTypeOK'
    BY <1>0, <1>4, Constants DEF StratumInv, StratumTypeOK
  <2> QED BY ZenonT(30), <1>0, <1>3, <1>4, <2>1, QuietStep DEF StratumInv, StratumTypeOK
<1>5. CASE /\ b = share[w].block /\ accepted' = Append(accepted, b)
           /\ head' = IF b.height > head.height THEN [height |-> b.height, id |-> b.id] ELSE head
           /\ pc' = [pc EXCEPT ![w] = "reset"]
  <2>0. b.height = Last(versions).height
    BY <1>1, <1>5
  <2>1. /\ accepted' \in Seq(WorkBlock) /\ Len(accepted') = Len(accepted) + 1 /\ Len(accepted) \in Nat
        /\ \A i \in 1..Len(accepted) : accepted'[i] = accepted[i]
        /\ accepted'[Len(accepted) + 1] = b
    BY <1>1, <1>5, LastOfAppend DEF StratumInv, StratumTypeOK
  <2>2. head \in WorkHead /\ head.height \in Nat
    BY ZenonT(30) DEF StratumInv, StratumTypeOK, WorkHead
  <2>3. \/ head' = head
        \/ /\ head' \in WorkHead /\ head'.height = b.height /\ head'.id = b.id
           /\ b.height = head.height + 1
    <3>1. CASE b.height > head.height
      <4>1. b.height = head.height + 1
        BY <1>1, <2>2, <3>1
      <4> QED BY <1>1, <1>5, <3>1, <4>1 DEF WorkHead
    <3>2. CASE ~ (b.height > head.height)
      BY ZenonT(30), <1>5, <3>2
    <3> QED BY ZenonT(30), <3>1, <3>2
  <2>4. StratumTypeOK'
    <3>1. pc' \in [Workers -> {"off", "idle", "template", "process", "reset", "gone"}]
      BY <1>5 DEF StratumInv, StratumTypeOK
    <3>2. share' \in [Workers -> WorkJob]
      BY <1>0, Constants DEF StratumInv, StratumTypeOK
    <3> QED BY ZenonT(30), <1>0, <2>1, <2>2, <2>3, <3>1, <3>2 DEF StratumInv, StratumTypeOK
  <2>5. HeadsGrow'
    <3>1. HeadsGrow /\ runHead.height \in Nat /\ currentHash[1] \in Nat
      BY ZenonT(30) DEF StratumInv, StratumTypeOK, WorkHead, WorkHash
    <3>2. CASE head' = head
      BY ZenonT(30), <1>0, <3>1, <3>2 DEF HeadsGrow
    <3>3. CASE head' # head
      <4>1. /\ head'.height = head.height + 1 /\ head'.id = b.id /\ head'.height \in Nat
            /\ b.height = head'.height
        BY ZenonT(30), <2>2, <2>3, <3>3 DEF WorkHead
      <4>2. head'.id[1] = head'.height
        BY ZenonT(30), <1>1, <4>1
      <4>3. runHead.height <= head.height /\ currentHash[1] <= head.height /\ head.height >= 1
        BY ZenonT(30), <3>1 DEF HeadsGrow
      <4>4. /\ head'.height >= 1 /\ runHead.height <= head'.height /\ runHead.height # head'.height
            /\ currentHash[1] <= head'.height
        BY <2>2, <3>1, <4>1, <4>3
      <4> QED BY ZenonT(30), <1>0, <3>1, <4>2, <4>4 DEF HeadsGrow
    <3> QED BY ZenonT(30), <3>2, <3>3
  <2>6. VersionsInOrder'
    <3>1. Last(versions)' = Last(versions) /\ Last(versions).height \in Nat
      BY ZenonT(30), <1>0, VersionTypes DEF Last, StratumInv
    <3>2. \A i \in 1..Len(versions) : versions[i].height <= b.height /\ versions[i].height \in Nat
      BY <2>0, VersionTypes DEF StratumInv, VersionsInOrder
    <3>3. Last(versions).height <= head.height + 1
      BY ZenonT(30) DEF StratumInv, VersionsInOrder
    <3>4. Last(versions).height <= head'.height + 1
      BY <2>0, <2>2, <2>3, <3>1, <3>3
    <3>5. ASSUME NEW i \in 1..Len(versions), versions[i].height = head'.height + 1
          PROVE  versions[i].prev = head'.id
      <4>1. head' = head
        BY <2>0, <2>2, <2>3, <3>2, <3>5
      <4> QED BY ZenonT(30), <3>5, <4>1 DEF StratumInv, VersionsInOrder
    <3>6. UNCHANGED versions /\ VersionsInOrder
      BY ZenonT(30), <1>0 DEF StratumInv
    <3> QED BY <3>1, <3>4, <3>5, <3>6 DEF VersionsInOrder
  <2>7. BuiltOnHead'
    <3>1. head' = head \/ currentHash # head'.id
      <4>1. currentHash[1] <= head.height /\ currentHash[1] \in Nat
        BY ZenonT(30) DEF StratumInv, HeadsGrow, StratumTypeOK, WorkHash
      <4>2. head' # head => head'.id[1] = head.height + 1
        BY ZenonT(30), <1>1, <2>3
      <4> QED BY <2>2, <4>1, <4>2
    <3> QED BY ZenonT(30), <1>0, <3>1 DEF StratumInv, BuiltOnHead
  <2>8. KeysKnown'
    <3>1. UNCHANGED <<keyId, nextKey, versions>> /\ KeysKnown
      BY ZenonT(30), <1>0 DEF StratumInv
    <3>2. \A i \in 1..Len(accepted') : i \in 1..Len(accepted) \/ i = Len(accepted) + 1
      BY <2>1
    <3>3. \A i \in 1..Len(accepted') : accepted'[i].key >= 1 /\ accepted'[i].key < nextKey
      BY ZenonT(30), <1>1, <2>1, <3>1, <3>2 DEF KeysKnown
    <3> QED BY ZenonT(30), <3>1, <3>3 DEF KeysKnown
  <2>9. KeysReset'
    <3>1. \A i \in 1..Len(accepted)' : (accepted[i].key = keyId => \E x \in Workers : pc[x] = "reset")'
      BY ZenonT(30), <1>5 DEF StratumInv, StratumTypeOK
    <3>2. ASSUME NEW i \in 1..Len(accepted)', NEW j \in 1..Len(versions),
                 versions[j].key = accepted'[i].key
          PROVE  \/ versions[j].raced \/ versions[j].prev = accepted'[i].prev
                 \/ versions[j].height < Last(versions).height
      <4>1. CASE i \in 1..Len(accepted)
        BY <2>1, <3>2, <4>1 DEF StratumInv, KeysReset
      <4>2. CASE i = Len(accepted) + 1
        <5>1. versions[j].height <= b.height /\ versions[j].height \in Nat
          BY ZenonT(30), <2>0, VersionTypes DEF StratumInv, VersionsInOrder
        <5>2. versions[j].height = b.height => versions[j].prev = b.prev
          BY ZenonT(30), <1>1 DEF StratumInv, VersionsInOrder
        <5>3. accepted'[i] = b
          BY ZenonT(30), <2>1, <4>2
        <5>4. b.height \in Nat
          BY ZenonT(30), <1>1
        <5> QED BY <2>0, <5>1, <5>2, <5>3, <5>4
      <4> QED BY <2>1, <4>1, <4>2
    <3>3. Last(versions)' = Last(versions)
      BY <1>0 DEF Last
    <3> QED BY ZenonT(30), <1>0, <3>1, <3>2, <3>3 DEF KeysReset
  <2>10. KeyUsedOnce'
    <3>1. \A i \in 1..Len(accepted) : b.key = accepted[i].key => b.raced \/ b.prev = accepted[i].prev
      <4>1. ~ (b.height < Last(versions).height)
        BY <1>1, <2>0
      <4> QED BY ZenonT(30), <1>1, <4>1 DEF StratumInv, KeysReset
    <3>2. ASSUME NEW i \in 1..Len(accepted'), NEW j \in 1..Len(accepted'), i < j,
                 accepted'[i].key = accepted'[j].key
          PROVE  accepted'[j].raced \/ accepted'[i].prev = accepted'[j].prev
      <4>1. i \in 1..Len(accepted) /\ (j \in 1..Len(accepted) \/ j = Len(accepted) + 1)
        BY <2>1, <3>2
      <4>2. CASE j \in 1..Len(accepted)
        BY ZenonT(30), <2>1, <3>2, <4>1, <4>2 DEF StratumInv, KeyUsedOnce
      <4>3. CASE j = Len(accepted) + 1
        BY ZenonT(30), <2>1, <3>1, <3>2, <4>1, <4>3
      <4> QED BY ZenonT(30), <4>1, <4>2, <4>3
    <3> QED BY ZenonT(30), <3>2 DEF KeyUsedOnce
  <2> QED BY ZenonT(30), <1>3, <2>4, <2>5, <2>6, <2>7, <2>8, <2>9, <2>10 DEF StratumInv
<1> QED BY <1>2, <1>4, <1>5

(* A template is built on the head, whatever head the loop had read.        *)
LEMMA BuildBlockInv == ASSUME StratumInv, BuildBlock PROVE StratumInv'
<1> USE DEF chainVars, stateVars, loopVars, taskVars, bounds
<1> PICK fees \in Fees : Rebuild(fees) BY DEF BuildBlock
<1> DEFINE b == get_block(fees)
           old == IF currentHash # runHead.id THEN <<>> ELSE versions
<1>0. /\ runPc = "build" /\ runPc' = "broadcast"
      /\ UNCHANGED <<head, accepted, runHead, pc, job, share, header, listed, others>>
  BY DEF BuildBlock
<1>1. /\ curDiff' = b.height - runHead.height /\ keyId' = b.key /\ currentHash' = runHead.id
      /\ versions' = Append(old, b)
      /\ nextKey' = IF b.key = nextKey THEN nextKey + 1 ELSE nextKey
  BY DEF Rebuild
<1>2. /\ b.prev = head.id /\ b.height = head.height + 1 /\ b.id = <<head.height + 1, Len(versions)>>
      /\ b.key = IF keyId = 0 \/ Duplicate(keyId, fees) THEN nextKey ELSE keyId
      /\ (b.raced <=> \E w \in Workers : pc[w] = "reset") /\ b.id[1] = b.height
      /\ head.height \in Nat /\ head.id \in WorkHash /\ head.id[1] = head.height /\ head.height >= 1
      /\ runHead.height \in Nat /\ runHead.id \in WorkHash /\ runHead.id[1] = runHead.height
      /\ runHead.height >= 1 /\ keyId \in Nat /\ nextKey \in Nat /\ nextKey >= 1 /\ keyId < nextKey
  <2>1. /\ b.prev = head.id /\ b.height = head.height + 1 /\ b.id = <<head.height + 1, Len(versions)>>
        /\ b.key = IF keyId = 0 \/ Duplicate(keyId, fees) THEN nextKey ELSE keyId
        /\ (b.raced <=> \E w \in Workers : pc[w] = "reset")
    BY DEF get_block
  <2> QED BY <2>1 DEF StratumInv, StratumTypeOK, WorkHead, HeadsGrow, KeysKnown
<1>3. b \in WorkBlock
  <2>1. head.height + 1 \in Nat /\ <<head.height + 1, Len(versions)>> \in WorkHash
    BY <1>2, VersionTypes DEF StratumInv, WorkHash
  <2>2. (\E w \in Workers : pc[w] = "reset") \in BOOLEAN
    OBVIOUS
  <2>3. (IF keyId = 0 \/ Duplicate(keyId, fees) THEN nextKey ELSE keyId) \in Nat
    BY ZenonT(30), <1>2
  <2> QED BY <1>2, <2>1, <2>2, <2>3 DEF get_block, WorkBlock
<1>4. /\ b.key \in Nat /\ b.key >= 1 /\ b.key < nextKey' /\ nextKey' \in Nat /\ nextKey <= nextKey'
      /\ b.height \in Nat
  BY <1>1, <1>2
<1> HIDE DEF b
<1>5. /\ old \in Seq(WorkBlock) /\ Len(old) \in Nat /\ (Len(old) > 0 => old = versions /\ currentHash = runHead.id)
  BY VersionTypes DEF StratumInv, StratumTypeOK
<1> HIDE DEF old
<1>6. /\ versions' \in Seq(WorkBlock) /\ Len(versions') = Len(old) + 1 /\ Last(versions') = b
      /\ \A i \in 1..Len(old) : versions'[i] = old[i]
      /\ versions'[Len(old) + 1] = b
  <2>1. versions' = Append(old, b) /\ old \in Seq(WorkBlock)
    BY ZenonT(30), <1>1, <1>5
  <2> QED BY <1>3, <2>1, LastOfAppend
<1>7. \A i \in 1..Len(versions') :
         i = Len(old) + 1 \/ (i \in 1..Len(versions) /\ versions'[i] = versions[i] /\ currentHash = runHead.id)
  <2>1. \A i \in 1..Len(versions') : i = Len(old) + 1 \/ (i \in 1..Len(old) /\ Len(old) > 0)
    BY <1>5, <1>6
  <2> QED BY ZenonT(30), <1>5, <1>6, <2>1
<1>8. StratumTypeOK'
  <2>1. curDiff' \in Int /\ keyId' \in Nat /\ currentHash' \in WorkHash /\ Len(versions') >= 1
    BY <1>1, <1>2, <1>4, <1>5, <1>6
  <2>2. versions' \in Seq(WorkBlock) /\ nextKey' \in Nat
    BY ZenonT(30), <1>4, <1>6
  <2> QED BY ZenonT(30), <1>0, <2>1, <2>2 DEF StratumInv, StratumTypeOK
<1>9. HeadsGrow'
  BY ZenonT(30), <1>0, <1>1, <1>2 DEF StratumInv, HeadsGrow
<1>10. \A i \in 1..Len(versions) : versions[i].height \in Nat /\ versions[i].height <= head.height + 1
  <2>1. /\ head.height \in Nat /\ Last(versions).height \in Nat
        /\ Last(versions).height <= head.height + 1
    BY ZenonT(30), <1>2, VersionTypes DEF StratumInv, VersionsInOrder
  <2>2. ASSUME NEW i \in 1..Len(versions)
        PROVE  versions[i].height \in Nat /\ versions[i].height <= Last(versions).height
    BY ZenonT(30), VersionTypes DEF StratumInv, VersionsInOrder
  <2> QED BY <2>1, <2>2
<1>11. VersionsInOrder'
  <2>0. /\ versions'[Len(old) + 1] = b /\ b.prev = head.id /\ b.height = head.height + 1
        /\ b.id[1] = b.height
    BY ZenonT(30), <1>2, <1>6
  <2>1. (Last(versions).height <= head.height + 1)'
    BY <1>0, <1>2, <1>6 DEF Last
  <2>2. ASSUME NEW i \in 1..Len(versions')
        PROVE  /\ versions'[i].id[1] = versions'[i].height
               /\ versions'[i].height <= b.height
               /\ versions'[i].height = head.height + 1 => versions'[i].prev = head.id
    <3>1. b.height <= b.height
      BY <1>4
    <3>2. CASE i = Len(old) + 1
      BY ZenonT(30), <2>0, <3>1, <3>2
    <3>3. CASE i \in 1..Len(versions) /\ versions'[i] = versions[i]
      BY ZenonT(30), <1>10, <2>0, <3>3 DEF StratumInv, VersionsInOrder
    <3> QED BY ZenonT(30), <1>7, <3>2, <3>3
  <2>3. ASSUME NEW i \in 1..Len(versions'), NEW j \in 1..Len(versions'),
               versions'[i].height = versions'[j].height
        PROVE  versions'[i].prev = versions'[j].prev
    <3>1. CASE versions'[i].height = head.height + 1
      BY ZenonT(30), <2>2, <2>3, <3>1
    <3>2. CASE versions'[i].height # head.height + 1
      <4>1. i # Len(old) + 1 /\ j # Len(old) + 1
        BY ZenonT(30), <2>0, <2>3, <3>2
      <4>2. /\ i \in 1..Len(versions) /\ versions'[i] = versions[i]
            /\ j \in 1..Len(versions) /\ versions'[j] = versions[j]
        BY ZenonT(30), <1>7, <4>1
      <4> QED BY ZenonT(30), <2>3, <4>2 DEF StratumInv, VersionsInOrder
    <3> QED BY ZenonT(30), <3>1, <3>2
  <2>4. Last(versions)' = b
    BY <1>6 DEF Last
  <2> QED BY <1>0, <2>1, <2>2, <2>3, <2>4 DEF VersionsInOrder
<1>12. BuiltOnHead'
  <2>1. runHead.id = head.id => runHead.height = head.height
    BY ZenonT(30), <1>2
  <2>2. runHead.id = head.id => curDiff' = 1
    BY <1>1, <1>2, <2>1
  <2>3. ASSUME runHead.id = head.id, NEW i \in 1..Len(versions')
        PROVE  versions'[i].prev = head.id /\ versions'[i].height = head.height + 1
    <3>1. CASE i = Len(old) + 1
      BY ZenonT(30), <1>2, <1>6, <3>1
    <3>2. CASE i \in 1..Len(versions) /\ versions'[i] = versions[i] /\ currentHash = runHead.id
      BY ZenonT(30), <2>3, <3>2 DEF StratumInv, BuiltOnHead
    <3> QED BY ZenonT(30), <1>7, <3>1, <3>2
  <2>4. runHead.id # NoHash
    BY <1>2, Constants
  <2>5. ASSUME NEW i \in 1..Len(versions') PROVE versions'[i].key >= 1
    BY ZenonT(30), <1>4, <1>6, <1>7, <2>4 DEF StratumInv, BuiltOnHead
  <2> QED BY ZenonT(30), <1>0, <1>1, <2>2, <2>3, <2>4, <2>5 DEF BuiltOnHead
<1>13. KeysKnown'
  <2>1. ASSUME NEW i \in 1..Len(versions') PROVE versions'[i].key < nextKey'
    <3>1. CASE i = Len(old) + 1
      BY ZenonT(30), <1>4, <1>6, <3>1
    <3>2. CASE i \in 1..Len(versions) /\ versions'[i] = versions[i]
      <4>1. versions[i].key \in Nat /\ versions[i].key < nextKey
        BY ZenonT(30), <3>2, VersionTypes DEF StratumInv, KeysKnown
      <4> QED BY <1>2, <1>4, <3>2, <4>1
    <3> QED BY ZenonT(30), <1>7, <3>1, <3>2
  <2>2. ASSUME NEW i \in 1..Len(accepted)
        PROVE  accepted[i].key >= 1 /\ accepted[i].key < nextKey'
    <3>1. accepted[i].key \in Nat /\ accepted[i].key >= 1 /\ accepted[i].key < nextKey
      BY ZenonT(30), AcceptedTypes DEF StratumInv, KeysKnown
    <3> QED BY <1>2, <1>4, <3>1
  <2>3. nextKey' >= 1 /\ keyId' < nextKey'
    BY <1>1, <1>2, <1>4
  <2> QED BY ZenonT(30), <1>0, <2>1, <2>2, <2>3 DEF KeysKnown
<1>14. \A i \in 1..Len(accepted) : accepted[i].key = b.key => b.key = keyId /\ b.raced
  <2>1. \A i \in 1..Len(accepted) : accepted[i].key \in Nat /\ accepted[i].key < nextKey
    BY AcceptedTypes DEF StratumInv, KeysKnown
  <2> QED BY <1>2, <2>1 DEF StratumInv, KeysReset
<1>15. KeysReset'
  <2>1. \A i \in 1..Len(accepted) : accepted[i].key = keyId' => \E w \in Workers : pc[w] = "reset"
    BY <1>1, <1>2, <1>14
  <2>2. ASSUME NEW i \in 1..Len(accepted), NEW j \in 1..Len(versions'),
               versions'[j].key = accepted[i].key
        PROVE  \/ versions'[j].raced \/ versions'[j].prev = accepted[i].prev
               \/ versions'[j].height < b.height
    <3>1. CASE j = Len(old) + 1
      BY ZenonT(30), <1>6, <1>14, <2>2, <3>1
    <3>2. CASE j # Len(old) + 1
      <4>1. j \in 1..Len(versions) /\ versions'[j] = versions[j]
        BY <1>7, <3>2
      <4>2. versions[j].raced \/ versions[j].prev = accepted[i].prev
            \/ versions[j].height < Last(versions).height
        BY ZenonT(30), <2>2, <4>1 DEF StratumInv, KeysReset
      <4>3. Last(versions).height <= head.height + 1 /\ Last(versions).height \in Nat
        BY ZenonT(30), VersionTypes DEF StratumInv, VersionsInOrder
      <4>4. b.height = head.height + 1 /\ head.height \in Nat
        BY ZenonT(30), <1>2
      <4>5. versions[j].height \in Nat
        BY ZenonT(30), <1>10, <4>1
      <4> QED BY <4>1, <4>2, <4>3, <4>4, <4>5
    <3> QED BY <3>1, <3>2
  <2>3. Last(versions)' = b
    BY <1>6 DEF Last
  <2> QED BY <1>0, <2>1, <2>2, <2>3 DEF KeysReset
<1>16. JobsNamed'
  BY ZenonT(30), <1>0 DEF StratumInv, JobsNamed, StratumTypeOK
<1>17. KeyUsedOnce'
  <2>1. UNCHANGED accepted /\ KeyUsedOnce
    BY ZenonT(30), <1>0 DEF StratumInv
  <2> QED BY <2>1 DEF KeyUsedOnce
<1> QED BY ZenonT(30), <1>8, <1>9, <1>11, <1>12, <1>13, <1>15, <1>16, <1>17 DEF StratumInv

(* The invariant gives what a miner relies on.                              *)
LEMMA InvWorkCounts == StratumInv => WorkCounts
<1> SUFFICES ASSUME StratumInv, runPc = "idle", currentHash = head.id,
                    NEW w \in listed, job[w] # NoJob, ~ job[w].torn
             PROVE  Named(job[w]) = job[w].block
  BY DEF StratumInv, WorkCounts, TemplatesOnHead, BuiltOnHead
<1> QED BY ZenonT(30) DEF StratumInv, JobsNamed, Whole, Named

(* No share is wasted and no coinbase key used twice, for any number of     *)
(* workers and any order of templates, shares, blocks and resets.           *)
THEOREM WorkCorrect == StratumSpec => []WorkCounts
<1>1. StratumInv /\ [StratumNext]_stratumVars => StratumInv'
  <2> SUFFICES ASSUME StratumInv, [StratumNext]_stratumVars PROVE StratumInv' BY ZenonT(30)
  <2>1. CASE UNCHANGED stratumVars
    BY ZenonT(30), <2>1, QuietStep DEF stratumVars, chainVars, stateVars, loopVars, taskVars, bounds, StratumInv, StratumTypeOK,
       JobsNamed, Whole, Last
  <2>2. CASE SyncDone \/ run_loop \/ ReadHead \/ LockState \/ broadcast_job
             \/ \E w \in Workers : Connection(w)
    BY <2>2, QuietActions
  <2>3. CASE \E w \in Workers : Handler(w)
    BY <2>3, ProcessBlockInv, ResetKeyInv DEF Handler
  <2> QED BY <2>1, <2>2, <2>3, BuildBlockInv, OtherBlockInv DEF StratumNext, Loop, WalletFails
<1> QED BY <1>1, InitInv, InvWorkCounts, PTL DEF StratumSpec

-----------------------------------------------------------------------------
(* The orphan pool.                                                         *)

\* A list is empty exactly when its length is 0.
LEMMA ListFacts ==
  ASSUME NEW S
  PROVE  /\ <<>> \in Seq(S) /\ Len(<<>>) = 0
         /\ \A s \in Seq(S) : Len(s) \in Nat /\ (s # <<>> <=> Len(s) > 0)
OBVIOUS

PoolInv == TypeOK /\ IndexComplete /\ IndexByHeight

\* Pushing a hash to the index adds it to the hashes of its height and to no
\* others.
LEMMA PushedHash ==
  ASSUME TypeOK, NEW b \in Block, NEW idx,
         idx = [height_idx EXCEPT ![Height(b)] = Append(@, b)]
  PROVE  /\ idx \in [Heights -> Seq(Block)]
         /\ Hashes(idx, Height(b)) = Hashes(height_idx, Height(b)) \cup {b}
         /\ \A h \in Heights : h # Height(b) => Hashes(idx, h) = Hashes(height_idx, h)
<1>1. Height(b) \in Heights
  BY DEF Heights
<1>2. height_idx[Height(b)] \in Seq(Block)
  BY <1>1 DEF TypeOK
<1>3. idx[Height(b)] = Append(height_idx[Height(b)], b)
  BY <1>1 DEF TypeOK
<1>4. idx \in [Heights -> Seq(Block)]
  BY <1>1, <1>2, LastOfAppend DEF TypeOK
<1>5. Hashes(idx, Height(b)) = Hashes(height_idx, Height(b)) \cup {b}
  <2>1. Len(idx[Height(b)]) = Len(height_idx[Height(b)]) + 1
    BY <1>2, <1>3, LastOfAppend
  <2>2. idx[Height(b)][Len(height_idx[Height(b)]) + 1] = b
    BY <1>2, <1>3, LastOfAppend
  <2>3. \A i \in 1..Len(height_idx[Height(b)]) :
            idx[Height(b)][i] = height_idx[Height(b)][i]
    BY <1>2, <1>3, LastOfAppend
  <2>4. Len(height_idx[Height(b)]) \in Nat
    BY <1>2, ListFacts
  <2> QED
    BY <2>1, <2>2, <2>3, <2>4 DEF Hashes
<1>6. \A h \in Heights : h # Height(b) => Hashes(idx, h) = Hashes(height_idx, h)
  BY <1>1 DEF TypeOK, Hashes
<1> QED
  BY ZenonT(30), <1>4, <1>5, <1>6

\* With a complete index, removing the index entries from c up removes exactly the
\* orphans from height c up.
LEMMA LeftIsBelow ==
  ASSUME NEW m \in SUBSET Block, NEW idx \in [Heights -> Seq(Block)], NEW c \in Heights,
         \A b \in m : b \in Hashes(idx, Height(b)),
         \A h \in Heights : \A b \in Hashes(idx, h) : Height(b) = h
  PROVE  LeftBelow(m, idx, c) = {o \in m : Height(o) < c}
<1>1. \A o \in m : Height(o) \in Heights /\ Height(o) \in Nat
  BY HeightAssumption DEF Heights
<1>2. \A h \in Heights : h \in Nat
  BY HeightAssumption DEF Heights
<1>3. ASSUME NEW o \in m, o \in LeftBelow(m, idx, c)
      PROVE  Height(o) < c
  BY <1>1, <1>2, <1>3 DEF LeftBelow
<1>4. ASSUME NEW o \in m, Height(o) < c
      PROVE  o \in LeftBelow(m, idx, c)
  BY <1>1, <1>2, <1>4 DEF LeftBelow
<1> QED
  BY <1>3, <1>4 DEF LeftBelow

\* The heights with an index entry are the heights of the orphans in it.
LEMMA AddInv ==
  ASSUME PoolInv, NoDeadHeight, NEW b \in Block, add(b)
  PROVE  PoolInv' /\ NoDeadHeight' /\ Abstract!AddOrphan(b)
<1> DEFINE idx == [height_idx EXCEPT ![Height(b)] = Append(@, b)]
           all == orphans \cup {b}
<1>1. /\ idx \in [Heights -> Seq(Block)]
      /\ Hashes(idx, Height(b)) = Hashes(height_idx, Height(b)) \cup {b}
      /\ \A h \in Heights : h # Height(b) => Hashes(idx, h) = Hashes(height_idx, h)
  BY ZenonT(30), PushedHash DEF PoolInv
<1>2. \A o \in Block : Height(o) \in Heights /\ Height(o) \in Nat
  BY HeightAssumption DEF Heights
<1>3. all \in SUBSET Block
  BY DEF PoolInv, TypeOK
<1>4. \A o \in all : o \in Hashes(idx, Height(o))
  BY ZenonT(30), <1>1, <1>2, <1>3 DEF PoolInv, IndexComplete
<1>5. \A h \in Heights : \A o \in Hashes(idx, h) : Height(o) = h
  BY ZenonT(30), <1>1 DEF PoolInv, IndexByHeight
<1>6. \A h \in Heights : idx[h] # <<>> <=> Hashes(idx, h) # {}
  <2> SUFFICES ASSUME NEW h \in Heights PROVE idx[h] # <<>> <=> Hashes(idx, h) # {}
    BY ZenonT(30)
  <2>1. idx[h] \in Seq(Block)
    BY <1>1
  <2>2. Len(idx[h]) \in Nat /\ (idx[h] # <<>> <=> Len(idx[h]) > 0)
    BY <2>1, ListFacts
  <2>3. Len(idx[h]) > 0 => idx[h][1] \in Hashes(idx, h)
    BY <2>2 DEF Hashes
  <2>4. Len(idx[h]) = 0 => Hashes(idx, h) = {}
    BY DEF Hashes
  <2> QED
    BY ZenonT(30), <2>2, <2>3, <2>4
<1>7. Keys(idx) = Abstract!OrphanHeights(all)
  <2>1. ASSUME NEW h \in Keys(idx) PROVE h \in Abstract!OrphanHeights(all)
    <3>1. CASE h = Height(b)
      BY <3>1 DEF Abstract!OrphanHeights
    <3>2. CASE h # Height(b)
      <4>1. h \in Heights /\ Hashes(height_idx, h) # {}
        BY ZenonT(30), <1>1, <1>6, <3>2 DEF Keys
      <4>2. height_idx[h] # <<>>
        <5>1. Len(<<>>) = 0
          OBVIOUS
        <5> QED
          BY <4>1, <5>1 DEF Hashes
      <4>3. PICK o \in orphans : o \in Hashes(height_idx, h)
        BY <4>1, <4>2 DEF NoDeadHeight, Keys
      <4>4. Height(o) = h
        BY <4>1, <4>3 DEF PoolInv, IndexByHeight
      <4> QED
        BY <4>4 DEF Abstract!OrphanHeights
    <3> QED
      BY <3>1, <3>2
  <2>2. ASSUME NEW o \in all PROVE Height(o) \in Keys(idx)
    BY ZenonT(30), <1>2, <1>3, <1>4, <1>6 DEF Keys
  <2> QED
    BY ZenonT(30), <2>1, <2>2 DEF Abstract!OrphanHeights
<1> HIDE DEF idx
<1>8. CASE Cardinality(all) <= MaxOrphans
  <2>1. orphans' = all /\ height_idx' = idx
    BY <1>8 DEF add, idx
  <2>2. PoolInv'
    BY <2>1, <1>1, <1>3, <1>4, <1>5 DEF PoolInv, TypeOK, IndexComplete, IndexByHeight, Hashes
  <2>3. NoDeadHeight'
    <3> SUFFICES ASSUME NEW h \in Heights, idx[h] # <<>>
                 PROVE  Hashes(idx, h) \cap all # {}
      BY ZenonT(30), <2>1 DEF NoDeadHeight, Keys, Hashes
    <3>1. h \in Abstract!OrphanHeights(all)
      BY ZenonT(30), <1>7 DEF Keys
    <3>2. PICK o \in all : Height(o) = h
      BY <3>1 DEF Abstract!OrphanHeights
    <3> QED
      BY <1>4, <3>2
  <2>4. Abstract!AddOrphan(b)
    BY <2>1, <1>8 DEF Abstract!AddOrphan
  <2> QED
    BY <2>2, <2>3, <2>4
<1>9. CASE ~(Cardinality(all) <= MaxOrphans)
  <2>1. PICK old \in SUBSET (all \ {b}), c \in Keys(idx) :
            /\ LoopEndsAt(all \ old, idx, c)
            /\ orphans' = LeftBelow(all \ old, idx, c)
            /\ height_idx' = Cleanup(idx, orphans', c)
    BY ZenonT(30), <1>9 DEF add, idx
  <2>2. \A h \in Heights : LeftBelow(all \ old, idx, h) = {o \in all \ old : Height(o) < h}
    <3> TAKE h \in Heights
    <3> QED
      BY <1>1, <1>3, <1>4, <1>5, LeftIsBelow
  <2>3. c \in Heights /\ \A h \in Keys(idx) : h \in Heights
    BY DEF Keys
  <2>4. orphans' = {o \in all \ old : Height(o) < c}
    BY <2>1, <2>2, <2>3
  <2>5. \A h \in Heights : height_idx'[h] =
            IF h < c /\ Hashes(idx, h) \cap orphans' # {} THEN idx[h] ELSE <<>>
    BY <2>1 DEF Cleanup
  <2>6. height_idx' \in [Heights -> Seq(Block)]
    BY <2>1, <1>1, ListFacts DEF Cleanup
  <2>7. \A h \in Heights : \/ Hashes(height_idx', h) = Hashes(idx, h) /\ height_idx'[h] = idx[h]
                           \/ Hashes(height_idx', h) = {} /\ height_idx'[h] = <<>>
    <3>1. Len(<<>>) = 0
      OBVIOUS
    <3> QED
      BY <2>5, <3>1 DEF Hashes
  <2>8. PoolInv'
    <3>1. TypeOK'
      BY <2>4, <2>6, <1>3 DEF TypeOK
    <3>2. IndexComplete'
      <4> SUFFICES ASSUME NEW o \in orphans'
                   PROVE  o \in Hashes(height_idx', Height(o))
        BY DEF IndexComplete, Hashes
      <4>1. o \in all /\ Height(o) < c /\ Height(o) \in Heights
        BY <2>4, <1>2, <1>3
      <4>2. o \in Hashes(idx, Height(o))
        BY <1>4, <4>1
      <4>3. height_idx'[Height(o)] = idx[Height(o)]
        BY <2>5, <4>1, <4>2
      <4> QED
        BY <4>2, <4>3 DEF Hashes
    <3>3. IndexByHeight'
      BY <2>7, <1>5 DEF IndexByHeight, Hashes
    <3> QED
      BY <3>1, <3>2, <3>3 DEF PoolInv
  <2>9. NoDeadHeight'
    <3> SUFFICES ASSUME NEW h \in Heights, height_idx'[h] # <<>>
                 PROVE  Hashes(height_idx', h) \cap orphans' # {}
      BY DEF NoDeadHeight, Keys, Hashes
    <3> QED
      BY <2>5, <2>7
  <2>10. Abstract!AddOrphan(b)
    <3>1. c \in Abstract!OrphanHeights(all)
      BY <1>7
    <3>2. Abstract!Evicted(all, old, c)
      BY ZenonT(30), <1>7, <2>1, <2>2, <2>3 DEF LoopEndsAt, Abstract!Evicted
    <3> QED
      BY <1>9, <2>4, <3>1, <3>2 DEF Abstract!AddOrphan
  <2> QED
    BY <2>8, <2>9, <2>10
<1> QED
  BY <1>8, <1>9

\* remove_by_height takes exactly the orphans of the height.
LEMMA RemoveInv ==
  ASSUME PoolInv, NoDeadHeight, NEW h \in Heights, remove_by_height(h)
  PROVE  PoolInv' /\ NoDeadHeight' /\ Abstract!TakeHeight(h)
<1>1. height_idx' = [height_idx EXCEPT ![h] = <<>>] /\ orphans' = orphans \ Hashes(height_idx, h)
  BY DEF remove_by_height
<1>2. height_idx' \in [Heights -> Seq(Block)]
  BY <1>1, ListFacts DEF PoolInv, TypeOK
<1>3. height_idx'[h] = <<>> /\ Hashes(height_idx', h) = {}
  <2>1. Len(<<>>) = 0
    OBVIOUS
  <2> QED
    BY <1>1, <2>1 DEF PoolInv, TypeOK, Hashes
<1>4. \A n \in Heights : n # h =>
          height_idx'[n] = height_idx[n] /\ Hashes(height_idx', n) = Hashes(height_idx, n)
  BY <1>1 DEF PoolInv, TypeOK, Hashes
<1>5. \A o \in orphans : Height(o) \in Heights
  BY DEF PoolInv, TypeOK, Heights
<1>6. \A o \in orphans : o \in Hashes(height_idx, h) <=> Height(o) = h
  BY <1>5 DEF PoolInv, IndexComplete, IndexByHeight
<1>7. PoolInv'
  <2>1. TypeOK'
    BY <1>1, <1>2 DEF PoolInv, TypeOK
  <2>2. IndexComplete'
    <3> SUFFICES ASSUME NEW o \in orphans'
                 PROVE  o \in Hashes(height_idx', Height(o))
      BY DEF IndexComplete, Hashes
    <3>1. o \in orphans /\ Height(o) # h
      BY <1>1, <1>6
    <3> QED
      BY <1>4, <1>5, <3>1 DEF PoolInv, IndexComplete
  <2>3. IndexByHeight'
    <3> SUFFICES ASSUME NEW n \in Heights, NEW o \in Hashes(height_idx', n)
                 PROVE  Height(o) = n
      BY DEF IndexByHeight, Hashes
    <3> QED
      BY <1>3, <1>4 DEF PoolInv, IndexByHeight
  <2> QED
    BY <2>1, <2>2, <2>3 DEF PoolInv
<1>8. NoDeadHeight'
  <2> SUFFICES ASSUME NEW n \in Heights, height_idx'[n] # <<>>
               PROVE  Hashes(height_idx', n) \cap orphans' # {}
    BY DEF NoDeadHeight, Keys, Hashes
  <2>1. n # h /\ height_idx[n] # <<>> /\ Hashes(height_idx', n) = Hashes(height_idx, n)
    BY <1>3, <1>4
  <2>2. PICK o \in orphans : o \in Hashes(height_idx, n)
    BY <2>1 DEF NoDeadHeight, Keys
  <2>3. Height(o) = n
    BY <2>2 DEF PoolInv, IndexByHeight
  <2> QED
    BY ZenonT(30), <1>1, <1>6, <2>1, <2>2, <2>3
<1>9. Abstract!TakeHeight(h)
  BY <1>1, <1>6 DEF Abstract!TakeHeight, Abstract!AtHeight
<1> QED
  BY <1>7, <1>8, <1>9

\* The invariant holds at the start and is kept, and every step is one of OrphanSet.
LEMMA PoolSteps ==
  /\ Init => PoolInv /\ NoDeadHeight /\ Abstract!PoolInit
  /\ PoolInv /\ NoDeadHeight /\ [Next]_vars => PoolInv' /\ NoDeadHeight' /\ [Abstract!PoolNext]_orphans
<1>1. Init => PoolInv /\ NoDeadHeight /\ Abstract!PoolInit
  <2> SUFFICES ASSUME Init PROVE PoolInv /\ NoDeadHeight /\ Abstract!PoolInit
    OBVIOUS
  <2>1. \A h \in Heights : height_idx[h] = <<>> /\ Hashes(height_idx, h) = {}
    BY DEF Init, Hashes
  <2>2. TypeOK
    BY ListFacts DEF Init, TypeOK
  <2> QED
    BY <2>1, <2>2 DEF Init, PoolInv, IndexComplete, IndexByHeight, NoDeadHeight, Keys, Abstract!PoolInit
<1>2. PoolInv /\ NoDeadHeight /\ [Next]_vars => PoolInv' /\ NoDeadHeight' /\ [Abstract!PoolNext]_orphans
  <2> SUFFICES ASSUME PoolInv, NoDeadHeight, [Next]_vars
               PROVE  PoolInv' /\ NoDeadHeight' /\ [Abstract!PoolNext]_orphans
    OBVIOUS
  <2>1. ASSUME NEW b \in Block, add(b)
        PROVE  PoolInv' /\ NoDeadHeight' /\ [Abstract!PoolNext]_orphans
    BY <2>1, AddInv DEF Abstract!PoolNext
  <2>2. ASSUME NEW h \in Heights, remove_by_height(h)
        PROVE  PoolInv' /\ NoDeadHeight' /\ [Abstract!PoolNext]_orphans
    <3>1. h \in Abstract!OrphanHeights(Block)
      BY DEF Heights, Abstract!OrphanHeights
    <3> QED
      BY <2>2, <3>1, RemoveInv DEF Abstract!PoolNext
  <2>3. CASE UNCHANGED vars
    BY <2>3 DEF vars, PoolInv, TypeOK, IndexComplete, IndexByHeight, NoDeadHeight, Keys, Hashes
  <2> QED
    BY <2>1, <2>2, <2>3 DEF Next
<1> QED
  BY <1>1, <1>2

\* OrphanBlockPool with its two maps behaves like the bounded set of orphans that
\* Chain uses: add and remove_by_height are steps of OrphanSet.
THEOREM PoolRefinement == Spec => ImplementsOrphanSet
BY PoolSteps, PTL DEF Spec, ImplementsOrphanSet, Abstract!PoolSpec

\* After any sequence of additions, evictions and removals the height index leads to
\* every orphan and has no dead entry.
THEOREM IndexCorrect == Spec => []IndexExact
<1>1. PoolInv /\ NoDeadHeight => IndexExact
  BY DEF PoolInv, IndexExact
<1> QED
  BY <1>1, PoolSteps, PTL DEF Spec
=============================================================================
