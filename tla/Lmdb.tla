-------------------------------- MODULE Lmdb --------------------------------
(***************************************************************************)
(* The store shared by all threads of a node (store/src/lmdb.rs): open     *)
(* transactions are counted, the memory map is resized only when there is  *)
(* none, threads wait for it in enter_tx, and LMDB allows one writer.  On  *)
(* top of it the locks chain/src/chain.rs takes around its batches, in the *)
(* orders of its operations, and the nested reads of p2p/src/store.rs.     *)
(*                                                                         *)
(* Time is a finite number of operations, each run to its end by a thread. *)
(* Sizes are in units a batch writes one of.                               *)
(***************************************************************************)
EXTENDS Integers, Sequences, FiniteSets

CONSTANTS Thread, Op,       \* threads and the kinds of operations that are run
          ChunkSize,        \* alloc_chunk_size
          InitialMap, InitialUsed,
          MaxOps            \* bound on the operations

Nobody == "nobody"
ASSUME ThreadAssumption == Nobody \notin Thread

VARIABLES op,         \* per thread the operation it runs
          at,         \* per thread the step it takes next
          locks,      \* header_pmmr and txhashset: who writes, who reads
          held,       \* THREAD_TX_COUNTS
          writer,     \* the thread with LMDB's write transaction
          open_txs_count, resizing, resize_checking,
          new_size,   \* the size maybe_resize found, of the thread that checks
          resizer,    \* the spawned thread: "none", "polling" or "resizing"
          used, map_size, ops

txVars == <<held, writer, open_txs_count>>
resizeVars == <<resizing, resize_checking, new_size, resizer, map_size>>
lmdbVars == <<op, at, locks, txVars, resizeVars, used, ops>>

\* The lock orders of process_block_single ("block"), compact, the end of
\* txhashset_write, Desegmenter::validate_complete_state, get_unspent and save_peer
HeaderLock(o) ==
    CASE o \in {"block", "txhashset_write"} -> "write"
      [] o \in {"compact", "validate"} -> "read"
      [] OTHER -> "none"
TxhashsetLock(o) ==
    CASE o \in {"block", "compact"} -> "write"
      [] o \in {"validate", "unspent"} -> "read"
      [] OTHER -> "none"

\* Where an operation goes on: get_unspent only reads, save_peer reads inside its
\* batch, and txhashset_write takes its second lock after the batch
AfterLocks(o) == IF o = "unspent" THEN "enter_tx" ELSE "start_resize_checking"
AfterHeader(o) == IF TxhashsetLock(o) = "none" THEN AfterLocks(o) ELSE "txhashset"
First(o) == IF HeaderLock(o) = "none" THEN AfterHeader(o) ELSE "header"
AfterEnter(o) == IF o = "unspent" THEN "leave_tx" ELSE "write_txn"
AfterWriteTxn(o) == IF o = "save_peer" THEN "enter_nested" ELSE "end_txn"
AfterLeave(o) == IF o = "txhashset_write" THEN "late_txhashset" ELSE "return"

Free == [w |-> Nobody, r |-> {}]

LmdbInit ==
    /\ op = [t \in Thread |-> "none"]
    /\ at = [t \in Thread |-> "idle"]
    /\ locks = [header |-> Free, txhashset |-> Free]
    /\ held = [t \in Thread |-> 0]
    /\ writer = Nobody
    /\ open_txs_count = 0 /\ resizing = FALSE /\ resize_checking = FALSE
    /\ new_size = 0
    /\ resizer = "none"
    /\ used = InitialUsed /\ map_size = InitialMap
    /\ ops = 0

Goto(t, step) == at' = [at EXCEPT ![t] = step]

\* A thread has come to the end of an operation: the guards are dropped
Released(t) ==
    [l \in DOMAIN locks |-> [w |-> IF locks[l].w = t THEN Nobody ELSE locks[l].w,
                             r |-> locks[l].r \ {t}]]

Begin(t) ==
    /\ at[t] = "idle" /\ ops < MaxOps
    /\ \E o \in Op : Goto(t, First(o)) /\ op' = [op EXCEPT ![t] = o]
    /\ ops' = ops + 1
    /\ UNCHANGED <<locks, txVars, resizeVars, used>>

Return(t) ==
    /\ at[t] = "return" /\ Goto(t, "idle")
    /\ op' = [op EXCEPT ![t] = "none"]
    /\ locks' = Released(t)
    /\ UNCHANGED <<txVars, resizeVars, used, ops>>

Lock(t, l, mode) ==
    /\ \/ /\ mode = "write" /\ locks[l] = Free
          /\ locks' = [locks EXCEPT ![l].w = t]
       \/ /\ mode = "read" /\ locks[l].w = Nobody
          /\ locks' = [locks EXCEPT ![l].r = @ \union {t}]
    /\ UNCHANGED <<op, txVars, resizeVars, used, ops>>

LockHeader(t) ==
    /\ at[t] = "header" /\ Goto(t, AfterHeader(op[t]))
    /\ Lock(t, "header", HeaderLock(op[t]))

LockTxhashset(t) ==
    \/ /\ at[t] = "txhashset" /\ Goto(t, AfterLocks(op[t]))
       /\ Lock(t, "txhashset", TxhashsetLock(op[t]))
    \/ /\ at[t] = "late_txhashset" /\ Goto(t, "return")
       /\ Lock(t, "txhashset", "write")

-----------------------------------------------------------------------------
\* The first multiple of the chunk, from the present one on, of which at most 65%
\* are used
NewSize ==
    IF map_size < ChunkSize THEN ChunkSize
    ELSE LET Enough(tot) == used * 100 <= tot * 65
             n == map_size \div ChunkSize
             k == CHOOSE k \in 0..(used + 1) : /\ Enough((n + k) * ChunkSize)
                                               /\ \A j \in 0..(k - 1) : ~ Enough((n + j) * ChunkSize)
         IN  (n + k) * ChunkSize

\* maybe_resize returns at once if another thread is checking
start_resize_checking(t) ==
    /\ at[t] = "start_resize_checking"
    /\ IF resize_checking
       THEN Goto(t, "enter_tx") /\ UNCHANGED resize_checking
       ELSE Goto(t, "needs_resize") /\ resize_checking' = TRUE
    /\ UNCHANGED <<op, locks, txVars, resizing, new_size, resizer, map_size, used, ops>>

needs_resize(t) ==
    /\ at[t] = "needs_resize"
    /\ IF used * 10 > map_size * 9 \/ map_size < ChunkSize
       THEN Goto(t, "set_resizing") /\ new_size' = NewSize
       ELSE Goto(t, "finish_resize_checking") /\ UNCHANGED new_size
    /\ UNCHANGED <<op, locks, txVars, resizing, resize_checking, resizer, map_size, used, ops>>

\* Mutant: the count is looked at before the flag is set.
MutSetResizing(t) ==
    /\ at[t] = "set_resizing"
    /\ Goto(t, IF open_txs_count = 0 THEN "resize" ELSE "open_txs_count")
    /\ resizing' = (open_txs_count # 0)
    /\ UNCHANGED <<op, locks, txVars, resize_checking, new_size, resizer, map_size, used, ops>>

\* From here on no transaction is begun, but by a thread that is in one
set_resizing(t) ==
    /\ at[t] = "set_resizing" /\ Goto(t, "open_txs_count")
    /\ resizing' = TRUE
    /\ UNCHANGED <<op, locks, txVars, resize_checking, new_size, resizer, map_size, used, ops>>

\* Resizes here, or leaves it to a new thread
look_at_count(t) ==
    /\ at[t] = "open_txs_count"
    /\ IF open_txs_count # 0
       THEN Goto(t, "enter_tx") /\ resizer' = "polling"
       ELSE Goto(t, "resize") /\ UNCHANGED resizer
    /\ UNCHANGED <<op, locks, txVars, resizing, resize_checking, new_size, map_size, used, ops>>

\* env.resize, or its error, which is logged
Resized == map_size' \in {new_size, map_size} /\ resizing' = FALSE

resize_now(t) ==
    /\ at[t] = "resize" /\ Goto(t, "finish_resize_checking")
    /\ Resized
    /\ UNCHANGED <<op, locks, txVars, resize_checking, new_size, resizer, used, ops>>

finish_resize_checking(t) ==
    /\ at[t] = "finish_resize_checking" /\ Goto(t, "enter_tx")
    /\ resize_checking' = FALSE
    /\ UNCHANGED <<op, locks, txVars, resizing, new_size, resizer, map_size, used, ops>>

resizer_thread ==
    /\ \/ /\ resizer = "polling" /\ open_txs_count = 0
          /\ resizer' = "resizing"
          /\ UNCHANGED <<resizing, resize_checking, map_size>>
       \/ resizer = "resizing" /\ resizer' = "none" /\ Resized /\ resize_checking' = FALSE
    /\ UNCHANGED <<op, at, locks, txVars, new_size, used, ops>>

-----------------------------------------------------------------------------
\* Mutant: nested transactions wait as well.
MutEnterTx(t) ==
    /\ at[t] \in {"enter_tx", "enter_nested"} /\ ~ resizing
    /\ Goto(t, IF at[t] = "enter_tx" THEN AfterEnter(op[t]) ELSE "leave_nested")
    /\ held' = [held EXCEPT ![t] = @ + 1]
    /\ open_txs_count' = open_txs_count + 1
    /\ UNCHANGED <<op, locks, writer, resizeVars, used, ops>>

\* A thread waits while the map is resized, unless it is in a transaction
enter_tx(t) ==
    /\ at[t] \in {"enter_tx", "enter_nested"}
    /\ ~ resizing \/ held[t] > 0
    /\ Goto(t, IF at[t] = "enter_tx" THEN AfterEnter(op[t]) ELSE "leave_nested")
    /\ held' = [held EXCEPT ![t] = @ + 1]
    /\ open_txs_count' = open_txs_count + 1
    /\ UNCHANGED <<op, locks, writer, resizeVars, used, ops>>

write_txn(t) ==
    /\ at[t] = "write_txn" /\ writer = Nobody
    /\ Goto(t, AfterWriteTxn(op[t]))
    /\ writer' = t
    /\ UNCHANGED <<op, locks, held, open_txs_count, resizeVars, used, ops>>

\* Batch::commit, or the drop of a batch that is not committed
end_txn(t) ==
    /\ at[t] = "end_txn" /\ Goto(t, "leave_tx")
    /\ writer' = Nobody
    /\ used' = IF op[t] = "validate" THEN used ELSE used + 1
    /\ UNCHANGED <<op, locks, held, open_txs_count, resizeVars, ops>>

\* Drop of the TxCounter, after the transaction itself
leave_tx(t) ==
    /\ at[t] \in {"leave_tx", "leave_nested"}
    /\ Goto(t, IF at[t] = "leave_tx" THEN AfterLeave(op[t]) ELSE "end_txn")
    /\ held' = [held EXCEPT ![t] = @ - 1]
    /\ open_txs_count' = open_txs_count - 1
    /\ UNCHANGED <<op, locks, writer, resizeVars, used, ops>>

OpStep(t) ==
    \/ Return(t) \/ LockHeader(t) \/ LockTxhashset(t)
    \/ start_resize_checking(t) \/ needs_resize(t) \/ set_resizing(t) \/ look_at_count(t)
    \/ resize_now(t) \/ finish_resize_checking(t)
    \/ enter_tx(t) \/ write_txn(t) \/ end_txn(t) \/ leave_tx(t)

LmdbNext == resizer_thread \/ \E t \in Thread : Begin(t) \/ OpStep(t)

LmdbSpec == LmdbInit /\ [][LmdbNext]_lmdbVars
LmdbFairness == WF_lmdbVars(resizer_thread) /\ \A t \in Thread : WF_lmdbVars(OpStep(t))

-----------------------------------------------------------------------------
\* The map is resized with no transaction open, whichever thread does it: not
\* one that was counted, and not one whose thread has yet to give it back.
ResizeSafe ==
    (resizer = "resizing" \/ \E t \in Thread : at[t] = "resize") =>
        open_txs_count = 0 /\ writer = Nobody /\ \A t \in Thread : held[t] = 0

\* Threads that wait for a lock, for the writer, or for a resize that waits for
\* the transactions of others are not waiting for each other: every operation
\* comes to its end.
Idle == (\A t \in Thread : at[t] = "idle") /\ resizer = "none"
StoreProgress == []<>Idle
=============================================================================
