------------------------------ MODULE Stratum -------------------------------
(* The stratum server: servers/src/mining/stratumserver.rs with the block   *)
(* assembly of mine_block.rs.  The main loop rebuilds the block template    *)
(* under the write lock of the state; every worker connection is a task     *)
(* that reads templates and submits shares under its read lock.  The chain  *)
(* is its head and the blocks it accepted; every block has difficulty one,  *)
(* so that its height is its total difficulty.  The wallet is external: it  *)
(* gives a new key when it is asked for one, and can fail.  Statistics are  *)
(* left out.                                                                *)
EXTENDS Integers, Sequences

CONSTANTS Workers,       \* connections
          Fees,          \* sums of fees a template can have
          MaxBlocks,     \* bound on the blocks of other miners
          MaxBuilds,     \* bound on rebuilds at a deadline
          MaxSubmits     \* bound on full solutions

VARIABLES head,          \* [height, id]: Chain::head
          accepted,      \* templates process_block took, in order
          versions,      \* current_block_versions
          keyId,         \* current_key_id, 0 for None
          curDiff,       \* current_difficulty
          runPc, runHead, currentHash,   \* the main loop
          pc,            \* what a connection does
          job,           \* the last job a worker was sent
          share,         \* the job a share that is being handled was found for
          header,        \* the header of the template a connection builds
          listed,        \* workers_list
          syncing,
          nextKey, others, builds, submits   \* counters

chainVars == <<head, accepted>>
stateVars == <<versions, keyId, curDiff>>
loopVars == <<runPc, runHead, currentHash>>
taskVars == <<pc, job, share, header, listed>>
bounds == <<nextKey, others, builds, submits>>
stratumVars == <<chainVars, stateVars, loopVars, taskVars, syncing, bounds>>

Last(s) == s[Len(s)]
(* The hash of a block: its height, and a number among the blocks of that   *)
(* height.                                                                  *)
NoHash == <<0, 0>>
NoBlock == [prev |-> NoHash, height |-> 0, key |-> 0, fees |-> 0, raced |-> FALSE, id |-> NoHash]
NoJob == [height |-> 0, job |-> 0, block |-> NoBlock, torn |-> FALSE]
(* Who has the write and the read lock of the state.                        *)
Writing == runPc = "build"
Reading == \E w \in Workers : pc[w] = "process"

StratumInit ==
  /\ head = [height |-> 1, id |-> <<1, 0>>] /\ accepted = <<>>
  /\ versions = <<NoBlock>> /\ keyId = 0 /\ curDiff = 100
  /\ runPc = "start" /\ runHead = head /\ currentHash = NoHash
  /\ pc = [w \in Workers |-> "off"] /\ job = [w \in Workers |-> NoJob]
  /\ share = [w \in Workers |-> NoJob]
  /\ header = [w \in Workers |-> NoBlock] /\ listed = {}
  /\ syncing = TRUE
  /\ nextKey = 1 /\ others = 0 /\ builds = 0 /\ submits = 0

(* --- the main loop ------------------------------------------------------- *)

(* run starts once the node has synced; current_hash is then the block      *)
(* before the head.                                                         *)
SyncDone == /\ syncing /\ syncing' = FALSE
            /\ UNCHANGED <<chainVars, stateVars, loopVars, taskVars, bounds>>
run_loop == /\ runPc = "start" /\ ~syncing
            /\ runPc' = "idle"
            /\ UNCHANGED <<chainVars, stateVars, runHead, currentHash, taskVars, syncing, bounds>>

(* The head is read and compared; a deadline can pass at any time.          *)
ReadHead == /\ runPc = "idle" /\ listed # {}
            /\ head.id # currentHash \/ builds < MaxBuilds
            /\ builds' = IF head.id # currentHash THEN builds ELSE builds + 1
            /\ runHead' = head /\ runPc' = "due"
            /\ UNCHANGED <<chainVars, stateVars, currentHash, taskVars, syncing, nextKey, others, submits>>
LockState == /\ runPc = "due" /\ ~Reading
             /\ runPc' = "build"
             /\ UNCHANGED <<chainVars, stateVars, runHead, currentHash, taskVars, syncing, bounds>>

(* The wallet is asked again after a failure: get_block does not return     *)
(* before a block can be built, and the state stays locked.                 *)
WalletFails == /\ runPc = "build"
               /\ UNCHANGED stratumVars

(* A key and a sum of fees make the commitment of the coinbase; one that is *)
(* in the chain already is refused, and the next key is asked for.          *)
Duplicate(key, fees) == \E i \in 1..Len(accepted) : accepted[i].key = key /\ accepted[i].fees = fees
get_block(fees) ==
  [prev |-> head.id, height |-> head.height + 1, fees |-> fees,
   key |-> IF keyId = 0 \/ Duplicate(keyId, fees) THEN nextKey ELSE keyId,
   raced |-> \E w \in Workers : pc[w] = "reset",
   id |-> <<head.height + 1, Len(versions)>>]

MutRebuild(fees) ==
  \E b \in {get_block(fees)} :
    /\ curDiff' = b.height - runHead.height
    /\ keyId' = b.key
    /\ currentHash' = runHead.id
    /\ versions' = Append(versions, b)
    /\ nextKey' = IF b.key = nextKey THEN nextKey + 1 ELSE nextKey
(* The history is cleared when the head that was read is new.               *)
Rebuild(fees) ==
  \E b \in {get_block(fees)} :
    /\ curDiff' = b.height - runHead.height
    /\ keyId' = b.key
    /\ currentHash' = runHead.id
    /\ versions' = Append(IF currentHash # runHead.id THEN <<>> ELSE versions, b)
    /\ nextKey' = IF b.key = nextKey THEN nextKey + 1 ELSE nextKey
BuildBlock == /\ runPc = "build"
              /\ \E fees \in Fees : Rebuild(fees)
              /\ runPc' = "broadcast"
              /\ UNCHANGED <<chainVars, runHead, taskVars, syncing, others, builds, submits>>

(* Only this thread changes the versions, so the job it sends is whole.     *)
build_block_template == [height |-> Last(versions).height, job |-> Len(versions),
                         block |-> Last(versions), torn |-> FALSE]
broadcast_job == /\ runPc = "broadcast"
                 /\ job' = [w \in Workers |-> IF w \in listed THEN build_block_template ELSE job[w]]
                 /\ runPc' = "idle"
                 /\ UNCHANGED <<chainVars, stateVars, runHead, currentHash, pc, share, header, listed, syncing,
                                bounds>>

(* --- connections --------------------------------------------------------- *)

add_worker(w) ==
  /\ pc[w] = "off"
  /\ pc' = [pc EXCEPT ![w] = "idle"] /\ listed' = listed \cup {w}
  /\ UNCHANGED <<chainVars, stateVars, loopVars, job, share, header, syncing, bounds>>
remove_worker(w) ==
  /\ pc[w] = "idle"
  /\ pc' = [pc EXCEPT ![w] = "gone"] /\ listed' = listed \ {w}
  /\ job' = [job EXCEPT ![w] = NoJob]
  /\ UNCHANGED <<chainVars, stateVars, loopVars, share, header, syncing, bounds>>

(* getjobtemplate reads the state twice: the header, then the job id.       *)
TemplateHeader(w) ==
  /\ pc[w] = "idle" /\ ~syncing /\ ~Writing
  /\ pc' = [pc EXCEPT ![w] = "template"]
  /\ header' = [header EXCEPT ![w] = Last(versions)]
  /\ UNCHANGED <<chainVars, stateVars, loopVars, job, share, listed, syncing, bounds>>
TemplateId(w) ==
  /\ pc[w] = "template" /\ ~Writing
  /\ pc' = [pc EXCEPT ![w] = "idle"]
  /\ job' = [job EXCEPT ![w] = [height |-> header[w].height, job |-> Len(versions),
                                block |-> header[w], torn |-> Last(versions) # header[w]]]
  /\ header' = [header EXCEPT ![w] = NoBlock]
  /\ UNCHANGED <<chainVars, stateVars, loopVars, share, listed, syncing, bounds>>

(* A full solution, of difficulty one, for the block the job was made from. *)
(* It is answered as late, or as a share only if the difficulty is higher;  *)
(* else the block of that job id is processed, under the read lock, which   *)
(* the worker's next job does not wait for.                                 *)
Named(j) == versions[j.job]
TooLate(j) == j.height # Last(versions).height \/ j.job > Len(versions)
handle_submit(w) ==
  /\ pc[w] = "idle" /\ job[w] # NoJob /\ submits < MaxSubmits /\ ~Writing
  /\ submits' = submits + 1
  /\ IF TooLate(job[w]) \/ curDiff > 1 THEN UNCHANGED <<pc, share>>
     ELSE /\ pc' = [pc EXCEPT ![w] = "process"]
          /\ share' = [share EXCEPT ![w] = job[w]]
  /\ UNCHANGED <<chainVars, stateVars, loopVars, job, header, listed, syncing, nextKey, others, builds>>
(* The proof fits only the block it was found for; a block known already is *)
(* refused, one with no more work than the head is a fork.                  *)
process_block(w) ==
  /\ pc[w] = "process"
  /\ share' = [share EXCEPT ![w] = NoJob]
  /\ \E b \in {Named(share[w])} :
       IF b # share[w].block \/ \E i \in 1..Len(accepted) : accepted[i] = b
       THEN pc' = [pc EXCEPT ![w] = "idle"] /\ UNCHANGED chainVars
       ELSE /\ accepted' = Append(accepted, b)
            /\ head' = IF b.height > head.height THEN [height |-> b.height, id |-> b.id] ELSE head
            /\ pc' = [pc EXCEPT ![w] = "reset"]
  /\ UNCHANGED <<stateVars, loopVars, job, header, listed, syncing, bounds>>
(* "this key_id has been used now, reset", under the write lock.            *)
ResetKey(w) ==
  /\ pc[w] = "reset" /\ ~Writing /\ ~Reading
  /\ keyId' = 0 /\ pc' = [pc EXCEPT ![w] = "idle"]
  /\ UNCHANGED <<chainVars, versions, curDiff, loopVars, job, share, header, listed, syncing, bounds>>

OtherBlock == /\ others < MaxBlocks
              /\ others' = others + 1
              /\ head' = [height |-> head.height + 1, id |-> <<head.height + 1, -1 - others>>]
              /\ UNCHANGED <<accepted, stateVars, loopVars, taskVars, syncing, nextKey, builds, submits>>

Loop == SyncDone \/ run_loop \/ ReadHead \/ LockState \/ BuildBlock \/ broadcast_job
Connection(w) == add_worker(w) \/ remove_worker(w) \/ TemplateHeader(w) \/ TemplateId(w) \/ handle_submit(w)
Handler(w) == process_block(w) \/ ResetKey(w)
StratumNext ==
  \/ Loop \/ WalletFails \/ OtherBlock
  \/ \E w \in Workers : Connection(w) \/ Handler(w)

(* The loop and the handlers are scheduled; the wallet answers in the end.  *)
Fairness == WF_stratumVars(Loop) /\ \A w \in Workers : WF_stratumVars(Handler(w))
StratumSpec == StratumInit /\ [][StratumNext]_stratumVars /\ Fairness

(* --- properties ---------------------------------------------------------- *)

(* Between two iterations, if the last one saw the current head, every      *)
(* version the server keeps builds on the head, the difficulty asked of a   *)
(* full solution is that of the next block, and the job a worker holds, if  *)
(* it was read whole and is not refused as late, names the block it was     *)
(* made from.  A history not cleared, or a difficulty that spans two        *)
(* blocks, would waste valid work.                                          *)
TemplatesOnHead ==
  (runPc = "idle" /\ currentHash = head.id) =>
    /\ curDiff = 1
    /\ \A i \in 1..Len(versions) : versions[i].prev = head.id /\ versions[i].height = head.height + 1
    /\ \A w \in listed : (job[w] # NoJob /\ ~job[w].torn /\ ~TooLate(job[w])) => Named(job[w]) = job[w].block

(* The coinbase key of a block that was found goes into no later block,     *)
(* except one whose template the main loop built after the share was        *)
(* processed and before its handler took the write lock to reset the key.   *)
KeyUsedOnce ==
  \A i, j \in 1..Len(accepted) :
    (i < j /\ accepted[i].key = accepted[j].key) =>
       accepted[j].raced \/ accepted[i].prev = accepted[j].prev

(* No valid work is wasted and no coinbase repeated.                        *)
WorkCounts == TemplatesOnHead /\ KeyUsedOnce

(* When the chain stops moving, the workers that stay have been given work  *)
(* on its head.                                                             *)
OnHead == listed # {} => Last(versions).prev = head.id /\ curDiff = 1
=============================================================================
