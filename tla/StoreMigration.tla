--------------------------- MODULE StoreMigration ---------------------------
(***************************************************************************)
(* Store::new (store/src/lmdb.rs) for the stores of a node that share the  *)
(* environment "multi_lmdb": what it does with the environment an earlier  *)
(* version left, when the node stops or fails at any point of it.          *)
(*                                                                         *)
(* A database is its set of records.  A write transaction is one step and  *)
(* removing a folder is several.                                           *)
(***************************************************************************)
EXTENDS Integers, Sequences

CONSTANTS Stores,       \* the stores in the order they are opened
          OldRecords,   \* what the old environment of each holds under known prefixes
          Record,       \* records a running node may write or delete
          MaxStarts     \* bound on starts of the node

ASSUME StoresAssumption == Len(Stores) \in Nat \ {0} /\ DOMAIN Stores = 1..Len(Stores)

VARIABLES old,       \* per store the old folder: its records, and whether it is there
          dbs,       \* per store its databases in the shared environment
          complete,  \* per store the key MIGRATION_COMPLETE_KEY of its default database
          opening,   \* <<store being opened, step>>
          want,      \* per store what has been committed by the node that used it last
          starts

migrationVars == <<old, dbs, complete, opening, want, starts>>

Ids == {Stores[i] : i \in DOMAIN Stores}
Down == <<0, "down">>
Up == <<Len(Stores) + 1, "up">>

MigrationInit ==
    /\ old \in [Ids -> {[exists |-> FALSE, records |-> {}], [exists |-> TRUE, records |-> OldRecords]}]
    /\ dbs = [s \in Ids |-> {}]
    /\ complete = [s \in Ids |-> FALSE]
    /\ opening = Down
    /\ want = [s \in Ids |-> old[s].records]
    /\ starts = 0

Opening(i, step) == i \in DOMAIN Stores /\ opening = <<i, step>>
Opened(i) == IF i = Len(Stores) THEN Up ELSE <<i + 1, "open">>

start == /\ opening = Down /\ starts < MaxStarts
         /\ opening' = <<1, "open">> /\ starts' = starts + 1
         /\ UNCHANGED <<old, dbs, complete, want>>

\* The databases are created; then the old folder is looked for, and the marker
open(i) ==
    /\ Opening(i, "open")
    /\ opening' = CASE ~ old[Stores[i]].exists -> Opened(i)
                    [] old[Stores[i]].exists /\ complete[Stores[i]] -> <<i, "delete">>
                    [] OTHER -> <<i, "clear">>
    /\ UNCHANGED <<old, dbs, complete, want, starts>>

\* Before the migration and after an error in it; an error of its own is ignored
clear(i) ==
    /\ Opening(i, "clear") \/ Opening(i, "undo")
    /\ \/ /\ dbs' = [dbs EXCEPT ![Stores[i]] = {}]
          /\ complete' = [complete EXCEPT ![Stores[i]] = FALSE]
       \/ UNCHANGED <<dbs, complete>>
    /\ opening' = IF Opening(i, "clear") THEN <<i, "migrate">> ELSE Down
    /\ UNCHANGED <<old, want, starts>>

\* Mutant: the marker is set in a transaction of its own, before the records are copied.
MutMigrate(i) ==
    /\ Opening(i, "migrate")
    /\ complete' = [complete EXCEPT ![Stores[i]] = TRUE]
    /\ dbs' = IF complete[Stores[i]] THEN [dbs EXCEPT ![Stores[i]] = @ \union old[Stores[i]].records]
              ELSE dbs
    /\ opening' = IF complete[Stores[i]] THEN <<i, "delete">> ELSE opening
    /\ UNCHANGED <<old, want, starts>>

\* All records and the marker in one transaction, or an error
migrate_to_default_env(i) ==
    /\ Opening(i, "migrate")
    /\ \/ /\ dbs' = [dbs EXCEPT ![Stores[i]] = @ \union old[Stores[i]].records]
          /\ complete' = [complete EXCEPT ![Stores[i]] = TRUE]
          /\ opening' = <<i, "delete">>
       \/ opening' = <<i, "undo">> /\ UNCHANGED <<dbs, complete>>
    /\ UNCHANGED <<old, want, starts>>

\* remove_dir_all: the files, then the folder, or an error, which ends the start
delete_old_db_file(i) ==
    /\ Opening(i, "delete")
    /\ \/ /\ old[Stores[i]].records # {}
          /\ old' = [old EXCEPT ![Stores[i]].records = {}]
          /\ opening' = opening
       \/ /\ old[Stores[i]].records = {}
          /\ old' = [old EXCEPT ![Stores[i]].exists = FALSE]
          /\ opening' = Opened(i)
       \/ opening' = Down /\ UNCHANGED old
    /\ UNCHANGED <<dbs, complete, want, starts>>

\* The running node commits a batch
commit_records(s, r) ==
    /\ opening = Up
    /\ \E rs \in {dbs[s] \union {r}, dbs[s] \ {r}} :
          /\ dbs' = [dbs EXCEPT ![s] = rs]
          /\ want' = [want EXCEPT ![s] = rs]
    /\ UNCHANGED <<old, complete, opening, starts>>

\* The node is stopped, or it crashes
stop == opening # Down /\ opening' = Down /\ UNCHANGED <<old, dbs, complete, want, starts>>

MigrationNext ==
    \/ start \/ stop
    \/ \E i \in DOMAIN Stores :
          open(i) \/ clear(i) \/ migrate_to_default_env(i) \/ delete_old_db_file(i)
    \/ \E s \in Ids, r \in Record : commit_records(s, r)

MigrationSpec == MigrationInit /\ [][MigrationNext]_migrationVars

-----------------------------------------------------------------------------
\* Once a node is up its stores hold exactly what they held before: the records
\* of the old environment after a migration that may have been interrupted
\* anywhere and repeated, and what was committed since.
MigrationKeepsRecords == opening = Up => dbs = want
=============================================================================
