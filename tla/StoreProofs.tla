---------------------------- MODULE StoreProofs -----------------------------
(***************************************************************************)
(* The database under a node, for any number of stores, threads and        *)
(* crashes: a migration that is interrupted anywhere and repeated loses    *)
(* and revives no record (StoreMigration!MigrationKeepsRecords), and the   *)
(* memory map is resized with no transaction open (Lmdb!ResizeSafe).       *)
(***************************************************************************)
EXTENDS Lmdb, StoreMigration, FiniteSetTheorems, TLAPS

\* The provers of a leaf that names none, in this order.
USE SMTT(30), ZenonT(30), SMTT(60)

-----------------------------------------------------------------------------
(* The migration: a store whose old folder is there and whose marker is not *)
(* has its records in the old folder only, every other one has them in its  *)
(* databases.                                                               *)

AnyRecord == OldRecords \union Record

MigrationTypeOK ==
  /\ old \in [Ids -> [exists : BOOLEAN, records : SUBSET AnyRecord]]
  /\ dbs \in [Ids -> SUBSET AnyRecord]
  /\ want \in [Ids -> SUBSET AnyRecord]
  /\ complete \in [Ids -> BOOLEAN]
  /\ opening \in {Down, Up} \union ((DOMAIN Stores) \X {"open", "clear", "migrate", "undo", "delete"})

ToMigrate(s) == old[s].exists /\ ~complete[s]

RecordsKept ==
  \A s \in Ids : IF ToMigrate(s) THEN old[s].records = want[s] /\ dbs[s] = {} ELSE dbs[s] = want[s]

OpeningInOrder ==
  /\ \A i \in DOMAIN Stores :
       /\ opening \in {<<i, "clear">>, <<i, "migrate">>, <<i, "undo">>} => ToMigrate(Stores[i])
       /\ opening = <<i, "delete">> => old[Stores[i]].exists /\ complete[Stores[i]]
       /\ i < opening[1] => ~ old[Stores[i]].exists

MigrationInv == MigrationTypeOK /\ RecordsKept /\ OpeningInOrder

\* Store::new opens the stores one after the other, the first of them first.
LEMMA OpenedNext ==
  ASSUME NEW i \in DOMAIN Stores
  PROVE  /\ Stores[i] \in Ids /\ i \in Nat /\ i >= 1 /\ i <= Len(Stores) /\ Len(Stores) \in Nat
         /\ Opened(i) \in {Down, Up} \union ((DOMAIN Stores) \X {"open", "clear", "migrate", "undo", "delete"})
         /\ Opened(i)[1] = i + 1
         /\ \A j \in DOMAIN Stores, l \in {"clear", "migrate", "undo", "delete"} : Opened(i) # <<j, l>>
BY StoresAssumption DEF Ids, Opened, Up, Down

\* A node that is up has no old folder left.
LEMMA NothingToMigrate ==
  ASSUME OpeningInOrder, opening = Up
  PROVE  \A s \in Ids : ~ old[s].exists
<1>1. \A i \in DOMAIN Stores : i < opening[1]
  BY StoresAssumption DEF Up
<1>2. \A i \in DOMAIN Stores : ~ old[Stores[i]].exists
  BY ZenonT(30), <1>1 DEF OpeningInOrder
<1> QED BY ZenonT(30), <1>2 DEF Ids

\* The record of a folder that is removed.
LEMMA FolderGone ==
  ASSUME NEW R, NEW f \in [exists : BOOLEAN, records : R]
  PROVE  [f EXCEPT !.exists = FALSE] \in [exists : BOOLEAN, records : R]
BY ZenonT(30)

\* No record is lost or revived by a step of an open, an interrupted one included.
LEMMA MigrationStep ==
  ASSUME MigrationInv, [MigrationNext]_migrationVars
  PROVE  MigrationInv'
<1> USE DEF MigrationInv, MigrationTypeOK, RecordsKept, ToMigrate
<1>0. Len(Stores) \in Nat \ {0} /\ DOMAIN Stores = 1..Len(Stores) /\ \A i \in DOMAIN Stores : Stores[i] \in Ids
  BY StoresAssumption DEF Ids
<1>1. CASE start
  BY <1>0, <1>1 DEF start, OpeningInOrder, Down, Up
<1>2. CASE stop
  BY <1>0, <1>2 DEF stop, OpeningInOrder, Down, Up
<1>3. ASSUME NEW i \in DOMAIN Stores, open(i)
      PROVE  MigrationInv'
  <2>1. UNCHANGED <<old, dbs, complete, want>> /\ opening = <<i, "open">>
    BY <1>3 DEF open, Opening
  <2>2. CASE ~ old[Stores[i]].exists
    <3>1. opening' = Opened(i)
      BY <1>3, <2>2 DEF open
    <3>2. MigrationTypeOK' /\ RecordsKept'
      BY <2>1, <3>1, OpenedNext
    <3>3. OpeningInOrder'
      BY <1>0, <2>1, <2>2, <3>1, OpenedNext DEF OpeningInOrder
    <3> QED BY <3>2, <3>3
  <2>3. CASE old[Stores[i]].exists /\ complete[Stores[i]]
    <3>1. opening' = <<i, "delete">>
      BY <1>3, <2>3 DEF open
    <3> QED BY <1>0, <2>1, <2>3, <3>1 DEF OpeningInOrder
  <2>4. CASE old[Stores[i]].exists /\ ~ complete[Stores[i]]
    <3>1. opening' = <<i, "clear">>
      BY <1>3, <2>4 DEF open
    <3> QED BY <1>0, <2>1, <2>4, <3>1 DEF OpeningInOrder
  <2> QED BY <2>2, <2>3, <2>4
<1>4. ASSUME NEW i \in DOMAIN Stores, clear(i)
      PROVE  MigrationInv'
  <2>1. /\ opening = <<i, "clear">> \/ opening = <<i, "undo">>
        /\ ToMigrate(Stores[i]) /\ dbs[Stores[i]] = {} /\ ~ complete[Stores[i]]
    BY <1>0, <1>4 DEF clear, Opening, OpeningInOrder
  <2>2. UNCHANGED <<old, dbs, complete, want>>
    <3>1. Stores[i] \in Ids /\ UNCHANGED <<old, want>>
      BY <1>0, <1>4 DEF clear
    <3>2. [dbs EXCEPT ![Stores[i]] = {}] = dbs
      BY <2>1, <3>1
    <3>3. [complete EXCEPT ![Stores[i]] = FALSE] = complete
      <4>1. complete[Stores[i]] = FALSE
        BY <2>1, <3>1
      <4> QED BY <3>1, <4>1
    <3>4. dbs' = dbs /\ complete' = complete
      BY ZenonT(30), <1>4, <3>2, <3>3 DEF clear
    <3> QED BY <3>1, <3>4
  <2>3. (opening' = <<i, "migrate">> /\ opening[1] = i) \/ opening' = Down
    BY <1>4, <2>1 DEF clear, Opening
  <2> QED BY <1>0, <2>1, <2>2, <2>3 DEF OpeningInOrder, Down, Up
<1>5. ASSUME NEW i \in DOMAIN Stores, migrate_to_default_env(i)
      PROVE  MigrationInv'
  <2>1. /\ opening = <<i, "migrate">> /\ UNCHANGED <<old, want>>
        /\ ToMigrate(Stores[i]) /\ dbs[Stores[i]] = {} /\ old[Stores[i]].records = want[Stores[i]]
    BY <1>0, <1>5 DEF migrate_to_default_env, Opening, OpeningInOrder
  <2>2. CASE opening' = <<i, "undo">> /\ UNCHANGED <<dbs, complete>>
    BY <1>0, <2>1, <2>2 DEF OpeningInOrder
  <2>3. CASE /\ dbs' = [dbs EXCEPT ![Stores[i]] = @ \union old[Stores[i]].records]
             /\ complete' = [complete EXCEPT ![Stores[i]] = TRUE]
             /\ opening' = <<i, "delete">>
    <3>1. MigrationTypeOK'
      BY <1>0, <2>1, <2>3
    <3>2. RecordsKept'
      BY <1>0, <2>1, <2>3
    <3>3. OpeningInOrder'
      BY <1>0, <2>1, <2>3 DEF OpeningInOrder
    <3> QED BY <3>1, <3>2, <3>3
  <2> QED BY <1>5, <2>2, <2>3 DEF migrate_to_default_env
<1>6. ASSUME NEW i \in DOMAIN Stores, delete_old_db_file(i)
      PROVE  MigrationInv'
  <2>1. /\ opening = <<i, "delete">> /\ UNCHANGED <<dbs, complete, want>>
        /\ old[Stores[i]].exists /\ complete[Stores[i]] /\ ~ ToMigrate(Stores[i])
    BY <1>0, <1>6 DEF delete_old_db_file, Opening, OpeningInOrder
  <2>2. CASE opening' = Down /\ UNCHANGED old
    BY <1>0, <2>1, <2>2 DEF OpeningInOrder, Down, Up
  <2>3. CASE old' = [old EXCEPT ![Stores[i]].records = {}] /\ opening' = opening
    <3>1. MigrationTypeOK'
      BY <1>0, <2>1, <2>3
    <3>2. RecordsKept'
      BY <1>0, <2>1, <2>3
    <3>3. OpeningInOrder'
      BY <1>0, <2>1, <2>3 DEF OpeningInOrder
    <3> QED BY <3>1, <3>2, <3>3
  <2>4. CASE old' = [old EXCEPT ![Stores[i]].exists = FALSE] /\ opening' = Opened(i)
    <3>1. MigrationTypeOK'
      <4>1. opening' \in {Down, Up} \union ((DOMAIN Stores) \X {"open", "clear", "migrate", "undo", "delete"})
        BY ZenonT(30), <2>4, OpenedNext
      <4>2. [old[Stores[i]] EXCEPT !.exists = FALSE] \in [exists : BOOLEAN, records : SUBSET AnyRecord]
        <5>1. old[Stores[i]] \in [exists : BOOLEAN, records : SUBSET AnyRecord]
          BY <1>0
        <5> QED BY ZenonT(30), <5>1, FolderGone
      <4>3. old' = [old EXCEPT ![Stores[i]] = [old[Stores[i]] EXCEPT !.exists = FALSE]]
        BY <1>0, <2>4
      <4>4. old' \in [Ids -> [exists : BOOLEAN, records : SUBSET AnyRecord]]
        BY ZenonT(30), <4>2, <4>3
      <4> QED BY ZenonT(30), <2>1, <4>1, <4>4
    <3>2. RecordsKept'
      BY <1>0, <2>1, <2>4
    <3>3. OpeningInOrder'
      BY <1>0, <2>1, <2>4, OpenedNext DEF OpeningInOrder
    <3> QED BY <3>1, <3>2, <3>3
  <2> QED BY <1>6, <2>2, <2>3, <2>4 DEF delete_old_db_file
<1>7. ASSUME NEW s \in Ids, NEW r \in Record, commit_records(s, r)
      PROVE  MigrationInv'
  <2>1. PICK rs \in {dbs[s] \union {r}, dbs[s] \ {r}} :
          dbs' = [dbs EXCEPT ![s] = rs] /\ want' = [want EXCEPT ![s] = rs]
    BY ZenonT(30), <1>7 DEF commit_records
  <2>2. opening = Up /\ UNCHANGED <<old, complete, opening>> /\ rs \in SUBSET AnyRecord
    BY <1>7, <2>1 DEF commit_records, AnyRecord
  <2>3. \A q \in Ids : ~ ToMigrate(q)
    BY ZenonT(30), <2>2, NothingToMigrate DEF ToMigrate
  <2>4. MigrationTypeOK'
    BY <2>1, <2>2
  <2>5. RecordsKept'
    BY <2>1, <2>2, <2>3
  <2>6. OpeningInOrder'
    BY <2>2 DEF OpeningInOrder
  <2> QED BY <2>4, <2>5, <2>6
<1>8. CASE UNCHANGED migrationVars
  BY <1>8 DEF migrationVars, OpeningInOrder
<1> QED BY <1>1, <1>2, <1>3, <1>4, <1>5, <1>6, <1>7, <1>8 DEF MigrationNext

\* Store::new and migrate_to_default_env (store/src/lmdb.rs): whatever stops an open,
\* and however often it is repeated, a node that is up has exactly the records that
\* were committed last, those of the old environment included.
THEOREM MigrationCorrect == MigrationSpec => []MigrationKeepsRecords
<1>1. MigrationInit => MigrationInv
  <2> SUFFICES ASSUME MigrationInit PROVE MigrationInv OBVIOUS
  <2>1. MigrationTypeOK
    <3>1. old \in [Ids -> [exists : BOOLEAN, records : SUBSET AnyRecord]]
      <4>1. {[exists |-> FALSE, records |-> {}], [exists |-> TRUE, records |-> OldRecords]}
              \subseteq [exists : BOOLEAN, records : SUBSET AnyRecord]
        BY DEF AnyRecord
      <4> QED BY ZenonT(30), <4>1 DEF MigrationInit
    <3>2. want \in [Ids -> SUBSET AnyRecord]
      BY <3>1 DEF MigrationInit
    <3> QED BY <3>1, <3>2 DEF MigrationInit, MigrationTypeOK
  <2>2. RecordsKept
    BY DEF MigrationInit, RecordsKept, ToMigrate
  <2>3. OpeningInOrder
    BY StoresAssumption DEF MigrationInit, OpeningInOrder, Down
  <2> QED BY ZenonT(30), <2>1, <2>2, <2>3 DEF MigrationInv
<1>2. MigrationInv /\ [MigrationNext]_migrationVars => MigrationInv'
  BY MigrationStep
<1>3. MigrationInv => MigrationKeepsRecords
  <2> SUFFICES ASSUME MigrationInv, opening = Up PROVE dbs = want
    BY DEF MigrationKeepsRecords
  <2>1. \A s \in Ids : ~ ToMigrate(s)
    BY ZenonT(30), NothingToMigrate DEF MigrationInv, ToMigrate
  <2>2. \A s \in Ids : dbs[s] = want[s]
    BY <2>1 DEF MigrationInv, RecordsKept
  <2> QED BY <2>2 DEF MigrationInv, MigrationTypeOK
<1> QED BY <1>1, <1>2, <1>3, PTL DEF MigrationSpec

-----------------------------------------------------------------------------
(* The memory map: the count is that of the transactions the threads have,  *)
(* one thread at a time checks for a resize or leaves it to the spawned     *)
(* one, and while the flag is set only a thread that is in a transaction    *)
(* begins another.                                                          *)

Checking == {"needs_resize", "set_resizing", "open_txs_count", "resize", "finish_resize_checking"}
Outside == {"idle", "header", "txhashset", "late_txhashset", "start_resize_checking", "enter_tx", "return"}
             \union Checking
Writing == {"enter_nested", "leave_nested", "end_txn"}
InOne == {"write_txn", "enter_nested", "end_txn", "leave_tx"}
Label == Outside \union InOne \union {"leave_nested"}

Depth(l) == IF l = "leave_nested" THEN 2 ELSE IF l \in InOne THEN 1 ELSE 0

OpenTx == {p \in Thread \X {1, 2} : p[2] <= held[p[1]]}

LmdbTypeOK ==
  /\ at \in [Thread -> Label]
  /\ held = [t \in Thread |-> Depth(at[t])]
  /\ writer # Nobody => writer \in Thread /\ at[writer] \in Writing
  /\ resizing \in BOOLEAN /\ resize_checking \in BOOLEAN
  /\ resizer \in {"none", "polling", "resizing"}

CountExact == IsFiniteSet(OpenTx) /\ open_txs_count = Cardinality(OpenTx)

OneChecks ==
  /\ \A t \in Thread : at[t] \in Checking =>
        /\ resize_checking /\ resizer = "none"
        /\ \A u \in Thread : at[u] \in Checking => u = t
        /\ at[t] \in {"open_txs_count", "resize"} => resizing
        /\ at[t] = "resize" => open_txs_count = 0
  /\ resizer # "none" => resize_checking /\ resizing
  /\ resizer = "resizing" => open_txs_count = 0

LmdbInv == LmdbTypeOK /\ CountExact /\ OneChecks

\* With a count of zero no thread is in a transaction.
LEMMA NoneOpen ==
  ASSUME LmdbTypeOK, CountExact, open_txs_count = 0
  PROVE  \A t \in Thread : held[t] = 0
<1>1. OpenTx = {}
  BY ZenonT(30), FS_EmptySet DEF CountExact
<1>2. ASSUME NEW t \in Thread, held[t] # 0 PROVE FALSE
  <2>1. held[t] \in {1, 2}
    BY <1>2 DEF LmdbTypeOK, Depth
  <2>2. <<t, 1>> \in OpenTx
    BY <2>1 DEF OpenTx
  <2> QED BY <1>1, <2>2
<1> QED BY <1>2

\* enter_tx counts one transaction more.
LEMMA CountEnter ==
  ASSUME LmdbTypeOK, CountExact, NEW t \in Thread, held[t] \in {0, 1},
         held' = [held EXCEPT ![t] = @ + 1], open_txs_count' = open_txs_count + 1
  PROVE  CountExact'
<1> DEFINE x == <<t, held[t] + 1>>
<1>1. \A u \in Thread : held[u] \in {0, 1, 2} /\ held'[u] = IF u = t THEN held[t] + 1 ELSE held[u]
  BY DEF LmdbTypeOK, Depth
<1>2. x \notin OpenTx
  BY DEF OpenTx
<1>3. OpenTx' = OpenTx \union {x}
  BY <1>1 DEF OpenTx
<1> QED BY <1>2, <1>3, FS_AddElement DEF CountExact

\* The drop of a TxCounter counts one less.
LEMMA CountLeave ==
  ASSUME LmdbTypeOK, CountExact, NEW t \in Thread, held[t] \in {1, 2},
         held' = [held EXCEPT ![t] = @ - 1], open_txs_count' = open_txs_count - 1
  PROVE  CountExact'
<1> DEFINE x == <<t, held[t]>>
<1>1. \A u \in Thread : held[u] \in {0, 1, 2} /\ held'[u] = IF u = t THEN held[t] - 1 ELSE held[u]
  BY DEF LmdbTypeOK, Depth
<1>2. x \in OpenTx
  BY DEF OpenTx
<1>3. OpenTx' = OpenTx \ {x}
  BY <1>1 DEF OpenTx
<1> QED BY ZenonT(30), <1>2, <1>3, FS_RemoveElement DEF CountExact

\* Where the operations go on from one label to the next.
LEMMA NextLabels ==
  ASSUME NEW o
  PROVE  /\ First(o) \in Outside \ Checking /\ AfterHeader(o) \in Outside \ Checking
         /\ AfterLocks(o) \in Outside \ Checking /\ AfterLeave(o) \in Outside \ Checking
         /\ AfterEnter(o) \in InOne \ Writing /\ AfterWriteTxn(o) \in InOne \intersect Writing
<1>1. AfterLocks(o) \in {"enter_tx", "start_resize_checking"}
  BY DEF AfterLocks
<1>2. AfterHeader(o) \in {"enter_tx", "start_resize_checking", "txhashset"}
  BY <1>1 DEF AfterHeader
<1>3. First(o) \in {"enter_tx", "start_resize_checking", "txhashset", "header"}
  BY <1>2 DEF First
<1>4. AfterLeave(o) \in {"late_txhashset", "return"}
  BY DEF AfterLeave
<1>5. AfterEnter(o) \in {"leave_tx", "write_txn"} /\ AfterWriteTxn(o) \in {"enter_nested", "end_txn"}
  BY DEF AfterEnter, AfterWriteTxn
<1> QED BY <1>1, <1>2, <1>3, <1>4, <1>5 DEF Outside, Checking, InOne, Writing

\* A step of a thread outside its transactions, which changes none of them.
LEMMA OutsideStep ==
  ASSUME LmdbTypeOK, CountExact, NEW t \in Thread, NEW l \in Outside, at[t] \in Outside,
         at' = [at EXCEPT ![t] = l], UNCHANGED txVars,
         resizing' \in BOOLEAN, resize_checking' \in BOOLEAN, resizer' \in {"none", "polling", "resizing"}
  PROVE  LmdbTypeOK' /\ CountExact'
<1>1. at' \in [Thread -> Label]
  BY DEF LmdbTypeOK, Label
<1>2. held' = [u \in Thread |-> Depth(at'[u])]
  <2>1. Depth(l) = 0 /\ Depth(at[t]) = 0
    BY DEF Depth, Outside, InOne, Checking
  <2>2. \A u \in Thread : Depth(at'[u]) = Depth(at[u])
    BY <2>1 DEF LmdbTypeOK
  <2> QED BY <2>2 DEF LmdbTypeOK, txVars
<1>3. writer' # Nobody => writer' \in Thread /\ at'[writer'] \in Writing
  BY DEF LmdbTypeOK, txVars, Writing, Outside, Checking
<1>4. CountExact'
  BY DEF CountExact, OpenTx, txVars
<1> QED BY <1>1, <1>2, <1>3, <1>4 DEF LmdbTypeOK

\* No step resizes the map under a transaction, or begins one while it is resized.
LEMMA LmdbStep ==
  ASSUME LmdbInv, [LmdbNext]_lmdbVars
  PROVE  LmdbInv'
<1> USE DEF LmdbInv
<1>0. \A t \in Thread : at[t] \in Label
  BY DEF LmdbTypeOK
<1>1. CASE resizer_thread
  <2>1. UNCHANGED <<at, held, writer, open_txs_count>>
    BY <1>1 DEF resizer_thread, txVars
  <2>2. CASE resizer = "polling" /\ open_txs_count = 0 /\ resizer' = "resizing"
             /\ UNCHANGED <<resizing, resize_checking>>
    BY <2>1, <2>2 DEF LmdbTypeOK, CountExact, OpenTx, OneChecks
  <2>3. CASE resizer = "resizing" /\ resizer' = "none" /\ Resized /\ resize_checking' = FALSE
    BY ZenonT(30), <2>1, <2>3 DEF LmdbTypeOK, CountExact, OpenTx, OneChecks, Resized
  <2> QED BY ZenonT(30), <1>1, <2>2, <2>3 DEF resizer_thread
<1>2. ASSUME NEW t \in Thread, NEW l \in Outside \ Checking, at[t] \in Outside \ Checking,
             Goto(t, l), UNCHANGED <<txVars, resizeVars>>
      PROVE  LmdbInv'
  <2>1. LmdbTypeOK' /\ CountExact'
    BY ZenonT(30), <1>2, OutsideStep DEF Goto, resizeVars, LmdbTypeOK
  <2>2. OneChecks'
    BY <1>2 DEF Goto, resizeVars, txVars, LmdbTypeOK, OneChecks
  <2> QED BY <2>1, <2>2
<1> DEFINE Away == {"idle", "header", "txhashset", "late_txhashset", "return"}
<1>3. Away \subseteq Outside \ Checking
  BY DEF Outside, Checking
<1> HIDE DEF Away
<1>4. ASSUME NEW t \in Thread, Begin(t)
      PROVE  LmdbInv'
  <2>1. PICK o \in Op : Goto(t, First(o))
    BY <1>4 DEF Begin
  <2> QED BY <1>2, <1>3, <1>4, <2>1, NextLabels DEF Begin, Away
<1>5. ASSUME NEW t \in Thread, Return(t)
      PROVE  LmdbInv'
  BY <1>2, <1>3, <1>5 DEF Return, Away
<1>6. ASSUME NEW t \in Thread, LockHeader(t)
      PROVE  LmdbInv'
  BY <1>2, <1>3, <1>6, NextLabels DEF LockHeader, Lock, Away
<1>7. ASSUME NEW t \in Thread, LockTxhashset(t)
      PROVE  LmdbInv'
  BY <1>2, <1>3, <1>7, NextLabels DEF LockTxhashset, Lock, Away
<1>8. ASSUME NEW t \in Thread, start_resize_checking(t)
      PROVE  LmdbInv'
  <2>1. CASE resize_checking
    <3>1. at[t] \in Outside \ Checking /\ "enter_tx" \in Outside \ Checking
      BY <1>8 DEF start_resize_checking, Outside, Checking
    <3> QED BY <1>2, <1>8, <2>1, <3>1 DEF start_resize_checking, resizeVars
  <2>2. CASE ~ resize_checking
    <3>1. /\ at' = [at EXCEPT ![t] = "needs_resize"] /\ resize_checking' = TRUE
          /\ UNCHANGED <<txVars, resizing, resizer>> /\ at[t] = "start_resize_checking"
      BY <1>8, <2>2 DEF start_resize_checking, Goto
    <3>2. at[t] \in Outside /\ "needs_resize" \in Outside
      BY <3>1 DEF Outside, Checking
    <3>3. LmdbTypeOK' /\ CountExact'
      BY ZenonT(30), <3>1, <3>2, OutsideStep DEF LmdbTypeOK
    <3>4. (\A u \in Thread : at[u] \notin Checking) /\ resizer = "none"
      BY <2>2 DEF OneChecks
    <3>5. OneChecks'
      BY <3>1, <3>4 DEF OneChecks, LmdbTypeOK, txVars
    <3> QED BY <3>3, <3>5
  <2> QED BY <2>1, <2>2
<1>9. ASSUME NEW t \in Thread, NEW l \in Outside, at[t] \in Checking, Goto(t, l), UNCHANGED txVars,
             resizing' \in BOOLEAN, resize_checking' \in BOOLEAN,
             resizer' \in {"none", "polling"},
             \/ l \in Checking /\ resize_checking' /\ resizer' = "none"
             \/ l \notin Checking /\ resizer' = "none"
             \/ l \notin Checking /\ resizer' = "polling" /\ resize_checking' /\ resizing',
             l \in {"open_txs_count", "resize"} => resizing',
             l = "resize" => open_txs_count = 0
      PROVE  LmdbInv'
  <2>1. Checking \subseteq Outside
    BY DEF Outside
  <2>2. LmdbTypeOK' /\ CountExact'
    BY ZenonT(30), <1>9, <2>1, OutsideStep DEF Goto
  <2>3. \A u \in Thread \ {t} : at[u] \notin Checking
    BY <1>9 DEF OneChecks
  <2>4. open_txs_count' = open_txs_count
    BY <1>9 DEF txVars
  <2>5. at'[t] = l /\ \A u \in Thread \ {t} : at'[u] = at[u]
    BY <1>9 DEF Goto, LmdbTypeOK
  <2>6. OneChecks'
    BY <1>9, <2>3, <2>4, <2>5 DEF OneChecks
  <2> QED BY <2>2, <2>6
<1> DEFINE Ready(t) == /\ at[t] \in Checking => resize_checking /\ resizer = "none"
                       /\ at[t] \in {"open_txs_count", "resize"} => resizing
<1>10. /\ \A t \in Thread : Ready(t)
       /\ resizing \in BOOLEAN /\ resize_checking \in BOOLEAN
       /\ Checking \subseteq Outside /\ "enter_tx" \in Outside \ Checking
  BY DEF OneChecks, LmdbTypeOK, Outside, Checking
<1>11. ASSUME NEW t \in Thread, needs_resize(t)
       PROVE  LmdbInv'
  <2>1. at[t] \in Checking /\ "set_resizing" \in Checking /\ "finish_resize_checking" \in Checking
    BY <1>11 DEF needs_resize, Checking
  <2>2. /\ Goto(t, "set_resizing") \/ Goto(t, "finish_resize_checking")
        /\ UNCHANGED <<txVars, resizing, resize_checking, resizer>>
    BY <1>11 DEF needs_resize
  <2> QED BY <1>9, <1>10, <2>1, <2>2
<1>12. ASSUME NEW t \in Thread, set_resizing(t)
       PROVE  LmdbInv'
  <2>1. at[t] \in Checking /\ "open_txs_count" \in Checking
    BY <1>12 DEF set_resizing, Checking
  <2>2. Goto(t, "open_txs_count") /\ resizing' = TRUE /\ UNCHANGED <<txVars, resize_checking, resizer>>
    BY <1>12 DEF set_resizing
  <2> QED BY <1>9, <1>10, <2>1, <2>2
<1>13. ASSUME NEW t \in Thread, look_at_count(t)
       PROVE  LmdbInv'
  <2>1. at[t] \in Checking /\ "resize" \in Checking /\ at[t] = "open_txs_count"
    BY <1>13 DEF look_at_count, Checking
  <2>2. UNCHANGED <<txVars, resizing, resize_checking>>
    BY <1>13 DEF look_at_count
  <2>3. CASE open_txs_count # 0
    <3>1. Goto(t, "enter_tx") /\ resizer' = "polling"
      BY <1>13, <2>3 DEF look_at_count
    <3> QED BY <1>9, <1>10, <2>1, <2>2, <3>1
  <2>4. CASE open_txs_count = 0
    <3>1. Goto(t, "resize") /\ UNCHANGED resizer
      BY <1>13, <2>4 DEF look_at_count
    <3> QED BY <1>9, <1>10, <2>1, <2>2, <2>4, <3>1
  <2> QED BY <2>3, <2>4
<1>14. ASSUME NEW t \in Thread, resize_now(t)
       PROVE  LmdbInv'
  <2>1. at[t] \in Checking /\ "finish_resize_checking" \in Checking
    BY <1>14 DEF resize_now, Checking
  <2>2. /\ Goto(t, "finish_resize_checking") /\ resizing' = FALSE
        /\ UNCHANGED <<txVars, resize_checking, resizer>>
    BY <1>14 DEF resize_now, Resized
  <2> QED BY ZenonT(30), <1>9, <1>10, <2>1, <2>2
<1>15. ASSUME NEW t \in Thread, finish_resize_checking(t)
       PROVE  LmdbInv'
  <2>1. at[t] \in Checking
    BY <1>15 DEF finish_resize_checking, Checking
  <2>2. Goto(t, "enter_tx") /\ resize_checking' = FALSE /\ UNCHANGED <<txVars, resizing, resizer>>
    BY <1>15 DEF finish_resize_checking
  <2> QED BY ZenonT(30), <1>9, <1>10, <2>1, <2>2
<1>16. ASSUME NEW t \in Thread, NEW l \in Label \ Checking, at[t] \in Label \ Checking, Goto(t, l),
              UNCHANGED resizeVars, held' = [held EXCEPT ![t] = Depth(l)], CountExact',
              \/ writer' = Nobody
              \/ writer' = t /\ l \in Writing
              \/ writer' = writer /\ (at[t] \in Writing => l \in Writing),
              open_txs_count = 0 /\ resizing => open_txs_count' = 0
       PROVE  LmdbInv'
  <2>1. at'[t] = l /\ \A u \in Thread \ {t} : at'[u] = at[u]
    BY <1>16 DEF Goto, LmdbTypeOK
  <2>2. at' \in [Thread -> Label] /\ held' = [u \in Thread |-> Depth(at'[u])]
    BY <1>16, <2>1 DEF Goto, LmdbTypeOK
  <2>3. writer' # Nobody => writer' \in Thread /\ at'[writer'] \in Writing
    BY <1>16, <2>1 DEF LmdbTypeOK
  <2>4. LmdbTypeOK'
    BY <1>16, <2>2, <2>3 DEF LmdbTypeOK, resizeVars
  <2>5. OneChecks'
    BY <1>16, <2>1 DEF OneChecks, resizeVars
  <2> QED BY <1>16, <2>4, <2>5
<1>17. ASSUME NEW t \in Thread, enter_tx(t)
       PROVE  LmdbInv'
  <2> DEFINE l == IF at[t] = "enter_tx" THEN AfterEnter(op[t]) ELSE "leave_nested"
  <2>1. /\ at[t] \in {"enter_tx", "enter_nested"} /\ (~ resizing \/ held[t] > 0)
        /\ Goto(t, l) /\ held' = [held EXCEPT ![t] = @ + 1] /\ open_txs_count' = open_txs_count + 1
        /\ UNCHANGED <<writer, resizeVars>>
    BY <1>17 DEF enter_tx
  <2>2. /\ held[t] \in {0, 1} /\ Depth(l) = held[t] + 1 /\ l \in Label \ Checking /\ at[t] \in Label \ Checking
        /\ at[t] \in Writing => l \in Writing
    <3>1. CASE at[t] = "enter_tx"
      <4>1. l \in InOne /\ l # "leave_nested" /\ l \notin Checking
        BY <3>1, NextLabels DEF InOne, Checking
      <4>2. held[t] = 0 /\ Depth(l) = 1
        BY <3>1, <4>1 DEF LmdbTypeOK, Depth, InOne
      <4> QED BY <3>1, <4>1, <4>2 DEF Label, Outside, Checking, Writing
    <3>2. CASE at[t] = "enter_nested"
      BY <3>2 DEF LmdbTypeOK, Depth, InOne, Label, Outside, Checking, Writing
    <3> QED BY <2>1, <3>1, <3>2
  <2> HIDE DEF l
  <2>3. CountExact'
    BY ZenonT(30), <2>1, <2>2, CountEnter
  <2>4. open_txs_count = 0 => ~ resizing
    BY <2>1, NoneOpen
  <2>5. held' = [held EXCEPT ![t] = Depth(l)]
    BY <2>1, <2>2 DEF LmdbTypeOK
  <2> QED BY ZenonT(30), <1>16, <2>1, <2>2, <2>3, <2>4, <2>5
<1>18. ASSUME NEW t \in Thread, write_txn(t)
       PROVE  LmdbInv'
  <2> DEFINE l == AfterWriteTxn(op[t])
  <2>1. /\ at[t] = "write_txn" /\ Goto(t, l) /\ writer' = t
        /\ UNCHANGED <<held, open_txs_count, resizeVars>>
    BY <1>18 DEF write_txn
  <2>2. l \in InOne /\ l \in Writing
    BY NextLabels
  <2> HIDE DEF l
  <2>3. l \in Label \ Checking /\ at[t] \in Label \ Checking /\ Depth(l) = held[t]
    BY <2>1, <2>2 DEF LmdbTypeOK, Depth, InOne, Label, Checking
  <2>4. held' = [held EXCEPT ![t] = Depth(l)]
    BY <2>1, <2>3 DEF LmdbTypeOK
  <2>5. CountExact'
    BY <2>1 DEF CountExact, OpenTx
  <2> QED BY ZenonT(30), <1>16, <2>1, <2>2, <2>3, <2>4, <2>5
<1>19. ASSUME NEW t \in Thread, end_txn(t)
       PROVE  LmdbInv'
  <2>1. /\ at[t] = "end_txn" /\ Goto(t, "leave_tx") /\ writer' = Nobody
        /\ UNCHANGED <<held, open_txs_count, resizeVars>>
    BY <1>19 DEF end_txn
  <2>2. "leave_tx" \in Label \ Checking /\ at[t] \in Label \ Checking /\ Depth("leave_tx") = held[t]
    BY <2>1 DEF LmdbTypeOK, Depth, InOne, Label, Checking
  <2>3. held' = [held EXCEPT ![t] = Depth("leave_tx")]
    BY <2>1, <2>2 DEF LmdbTypeOK
  <2>4. CountExact'
    BY <2>1 DEF CountExact, OpenTx
  <2> QED BY ZenonT(30), <1>16, <2>1, <2>2, <2>3, <2>4
<1>20. ASSUME NEW t \in Thread, leave_tx(t)
       PROVE  LmdbInv'
  <2> DEFINE l == IF at[t] = "leave_tx" THEN AfterLeave(op[t]) ELSE "end_txn"
  <2>1. /\ at[t] \in {"leave_tx", "leave_nested"}
        /\ Goto(t, l) /\ held' = [held EXCEPT ![t] = @ - 1] /\ open_txs_count' = open_txs_count - 1
        /\ UNCHANGED <<writer, resizeVars>>
    BY <1>20 DEF leave_tx
  <2>2. /\ held[t] \in {1, 2} /\ Depth(l) = held[t] - 1 /\ l \in Label \ Checking /\ at[t] \in Label \ Checking
        /\ at[t] \in Writing => l \in Writing
    <3>1. CASE at[t] = "leave_tx"
      <4>1. l \in Outside \ Checking
        BY <3>1, NextLabels
      <4>2. held[t] = 1 /\ Depth(l) = 0
        BY <3>1, <4>1 DEF LmdbTypeOK, Depth, InOne, Outside
      <4> QED BY <3>1, <4>1, <4>2 DEF Label, Outside, Checking, InOne, Writing
    <3>2. CASE at[t] = "leave_nested"
      BY <3>2 DEF LmdbTypeOK, Depth, InOne, Label, Outside, Checking, Writing
    <3> QED BY <2>1, <3>1, <3>2
  <2> HIDE DEF l
  <2>3. CountExact'
    BY ZenonT(30), <2>1, <2>2, CountLeave
  <2>4. open_txs_count # 0
    BY <2>2, NoneOpen
  <2>5. held' = [held EXCEPT ![t] = Depth(l)]
    BY <2>1, <2>2 DEF LmdbTypeOK
  <2> QED BY ZenonT(30), <1>16, <2>1, <2>2, <2>3, <2>4, <2>5
<1>21. CASE UNCHANGED lmdbVars
  BY <1>21 DEF lmdbVars, txVars, resizeVars, LmdbTypeOK, CountExact, OpenTx, OneChecks
<1> QED BY <1>1, <1>4, <1>5, <1>6, <1>7, <1>8, <1>11, <1>12, <1>13, <1>14, <1>15, <1>17, <1>18, <1>19,
           <1>20, <1>21 DEF LmdbNext, OpStep

\* maybe_resize and its spawned thread (store/src/lmdb.rs) resize the map only when no
\* thread is in a transaction and none can begin one, for any number of threads and
\* any mix of operations.
THEOREM ResizeCorrect == LmdbSpec => []ResizeSafe
<1>1. LmdbInit => LmdbInv
  <2> SUFFICES ASSUME LmdbInit PROVE LmdbInv
    OBVIOUS
  <2>1. LmdbTypeOK
    BY ZenonT(30) DEF LmdbInit, LmdbTypeOK, Label, Outside, Depth, InOne
  <2>2. OpenTx = {}
    BY DEF LmdbInit, OpenTx
  <2>3. CountExact
    BY <2>2, FS_EmptySet DEF LmdbInit, CountExact
  <2>4. OneChecks
    BY DEF LmdbInit, OneChecks, Checking
  <2> QED BY <2>1, <2>3, <2>4 DEF LmdbInv
<1>2. LmdbInv /\ [LmdbNext]_lmdbVars => LmdbInv'
  BY LmdbStep
<1>3. LmdbInv => ResizeSafe
  <2> SUFFICES ASSUME LmdbInv, resizer = "resizing" \/ \E t \in Thread : at[t] = "resize"
               PROVE  open_txs_count = 0 /\ writer = Nobody /\ \A t \in Thread : held[t] = 0
    BY DEF ResizeSafe
  <2>1. open_txs_count = 0
    BY DEF LmdbInv, OneChecks, Checking
  <2>2. \A t \in Thread : held[t] = 0
    BY <2>1, NoneOpen DEF LmdbInv
  <2>3. writer = Nobody
    BY <2>2 DEF LmdbInv, LmdbTypeOK, Depth, InOne, Writing
  <2> QED BY <2>1, <2>2, <2>3
<1> QED BY <1>1, <1>2, <1>3, PTL DEF LmdbSpec
=============================================================================
