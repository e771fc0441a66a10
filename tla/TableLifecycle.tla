--------------------------- MODULE TableLifecycle ---------------------------
(***************************************************************************)
(* Tables come and go: CreateTable, DeleteTable, UpdateTable,              *)
(* UpdateTimeToLive, backups and restores (src/api/handlers.cpp), over the *)
(* table catalog with its metadata file (src/engine/table_manager.cpp),    *)
(* the storage namespaces of a table and of its indexes, the backup files  *)
(* (src/backups/manager.cpp), and the capacity and stream managers, which  *)
(* handle_operation tells about every table.                               *)
(*                                                                         *)
(* As in ItemHandlers a request is a sequence of atomic calls, and calls   *)
(* of different requests interleave.  The catalog's calls are serialised   *)
(* by its mutex, which is held from the change until the metadata file has *)
(* been replaced.  Killing the process loses everything but the files and  *)
(* the storage engine's content.                                           *)
(***************************************************************************)
EXTENDS Naturals, Sequences, FiniteSets, SequencesExt, FiniteSetsExt

CONSTANTS
    Threads,        \* requests that are in progress at the same time
    Tables,         \* table names
    Keys,           \* encoded primary keys
    Definitions,    \* the definitions CreateTable may be sent
    InitialTables,  \* the catalog a behaviour starts from
    InitialKeys,    \* the items every table starts with
    PageSize,       \* the items that fit the page a storage scan returns
    MaxRequests,    \* bound: requests sent in a behaviour
    MaxKills,       \* bound: kills of the process
    MaxFaults,      \* bound: failures to write a file
    None            \* no table, no item, no stream

VARIABLES
    tables,         \* TableManager::tables_
    file,           \* the catalog load_metadata reads from the metadata file
    saving,         \* the thread that holds the catalog's mutex, and the .tmp file
    base, index,    \* storage namespaces of every table and of its index
    buckets,        \* CapacityManager::tables_
    streams,        \* StreamManager::active_stream_arn_by_table_
    backups,        \* BackupManager::backups_ and items_
    snapshots,      \* the backup files
    nextSequence,   \* BackupManager::next_sequence_
    thread,         \* the progress of every request
    issued, kills, faults,
    \* History, read by the properties only:
    overlapped,     \* tables whose lifecycle requests overlapped
    haunted,        \* tables whose deletion was interrupted or raced
    promised,       \* the definition the last call on the catalog left
    unsaved,        \* the last save did not leave the catalog in the metadata file
    kept            \* the items of every backup that was acknowledged

store == <<base, index>>
managers == <<buckets, streams>>
catalog == <<tables, file, saving>>
archive == <<backups, snapshots, nextSequence>>
history == <<overlapped, haunted, promised, unsaved, kept>>
bounds == <<issued, kills, faults>>
vars == <<tables, file, saving, base, index, buckets, streams, backups, snapshots,
          nextSequence, thread, issued, kills, faults, overlapped, haunted,
          promised, unsaved, kept>>

-----------------------------------------------------------------------------
(* Definitions.  born tells the incarnations of a table apart; rate is the *)
(* provisioned throughput.                                                 *)

\* What save_metadata writes of a definition and load_metadata finds again:
\* everything but the provisioned throughput.
Persisted(def) == IF def = None THEN None ELSE [def EXCEPT !.rate = 0]
SavedCatalog(defs) == [t \in Tables |-> Persisted(defs[t])]

\* What a snapshot file keeps of a definition: name, key schema and attributes.
SnapshotDefinition(def) ==
    [def EXCEPT !.rate = 0, !.indexed = FALSE, !.stream = FALSE, !.ttl = FALSE]

ListTables(defs) == {t \in Tables : defs[t] # None}

NoItems == [k \in Keys |-> None]

-----------------------------------------------------------------------------
(* Requests, as the calls their handlers make.                             *)

ManagerCalls == <<"describe", "register", "sync">>
CreateTableCalls == <<"create", "replace">> \o ManagerCalls
UpdateTableCalls == <<"lookup">> \o ManagerCalls
UpdateTimeToLiveCalls == <<"set_ttl", "replace">>
DescribeCalls == <<"lookup">>
DeleteTableCalls ==
    <<"delete", "replace", "drop", "drop_index", "unregister", "remove_stream">>
PutItemCalls == <<"lookup", "put", "put_index">>
CreateBackupCalls == <<"lookup", "scan", "create_backup">>
DeleteBackupCalls == <<"delete_backup">>
RestoreIntoCalls == <<"create", "replace", "fill">> \o ManagerCalls
RestoreFromBackupCalls == <<"snapshot">> \o RestoreIntoCalls
RestoreToPointInTimeCalls == <<"lookup", "scan">> \o RestoreIntoCalls

CallsOf(op) ==
    CASE op = "CreateTable" -> CreateTableCalls
      [] op = "UpdateTable" -> UpdateTableCalls
      [] op = "UpdateTimeToLive" -> UpdateTimeToLiveCalls
      [] op = "DescribeTable" -> DescribeCalls
      [] op = "DeleteTable" -> DeleteTableCalls
      [] op = "PutItem" -> PutItemCalls
      [] op = "CreateBackup" -> CreateBackupCalls
      [] op = "DeleteBackup" -> DeleteBackupCalls
      [] op = "RestoreTableFromBackup" -> RestoreFromBackupCalls
      [] op = "RestoreTableToPointInTime" -> RestoreToPointInTimeCalls

Restores == {"RestoreTableFromBackup", "RestoreTableToPointInTime"}
Lifecycle == {"CreateTable", "DeleteTable", "UpdateTable"} \cup Restores

Idle == [todo |-> <<>>, op |-> "none", table |-> None, source |-> None, key |-> None,
         def |-> None, born |-> 0, items |-> NoItems, whole |-> NoItems, left |-> {},
         entry |-> None]

Busy(c) == thread[c].todo # <<>>
At(c, call) == Busy(c) /\ Head(thread[c].todo) = call
Working(ops, t) == {c \in Threads : Busy(c) /\ thread[c].op \in ops /\ thread[c].table = t}

\* The request's next call, or its answer when there is none.
Proceed(c) ==
    LET rest == Tail(thread[c].todo)
    IN  thread' = [thread EXCEPT ![c] = IF rest = <<>> THEN Idle ELSE [@ EXCEPT !.todo = rest]]

Fail(c) == thread' = [thread EXCEPT ![c] = Idle]

-----------------------------------------------------------------------------
(* A request arrives.                                                      *)

\* Writers and lifecycle requests on one table at a time leave no ghosts.
Disturbing == Lifecycle \cup {"PutItem"}

Accept(c, op, t, request) ==
    /\ ~Busy(c)
    /\ issued < MaxRequests
    /\ issued' = issued + 1
    /\ thread' = [thread EXCEPT ![c] =
                    [request EXCEPT !.todo = CallsOf(op), !.op = op, !.table = t,
                                    !.born = issued + 1]]
    /\ overlapped' = IF op \in Lifecycle /\ Working(Lifecycle, t) # {}
                     THEN overlapped \cup {t} ELSE overlapped
    /\ haunted' = IF \/ op \in Lifecycle /\ Working(Disturbing, t) # {}
                     \/ op \in Disturbing /\ Working(Lifecycle, t) # {}
                  THEN haunted \cup {t} ELSE haunted
    /\ UNCHANGED <<catalog, store, managers, archive, kills, faults, promised, unsaved, kept>>

AcceptCreate(c) ==
    \E t \in Tables, def \in Definitions :
        Accept(c, "CreateTable", t, [Idle EXCEPT !.def = def])

AcceptOnTable(c) ==
    \E t \in Tables, op \in {"UpdateTable", "UpdateTimeToLive", "DescribeTable",
                              "DeleteTable", "CreateBackup"} :
        Accept(c, op, t, Idle)

AcceptPut(c) ==
    \E t \in Tables, k \in Keys : Accept(c, "PutItem", t, [Idle EXCEPT !.key = k])

AcceptDeleteBackup(c) ==
    \E arn \in DOMAIN backups :
        Accept(c, "DeleteBackup", arn.table, [Idle EXCEPT !.source = arn])

\* A restore names its target, and a backup or a table as its source.
AcceptRestore(c) ==
    \E target \in Tables :
        \/ \E arn \in DOMAIN backups :
                Accept(c, "RestoreTableFromBackup", target, [Idle EXCEPT !.source = arn])
        \/ \E t \in Tables \ {target} :
                Accept(c, "RestoreTableToPointInTime", target, [Idle EXCEPT !.source = t])

-----------------------------------------------------------------------------
(* Calls of the catalog.                                                   *)

\* describe_table of the table the handler works from.
Subject(c) == IF thread[c].op = "RestoreTableToPointInTime" THEN thread[c].source
              ELSE thread[c].table

Lookup(c) ==
    /\ At(c, "lookup")
    /\ saving = None
    /\ LET def == tables[Subject(c)]
           rest == Tail(thread[c].todo)
       IN  thread' = [thread EXCEPT ![c] =
                IF def = None \/ rest = <<>> THEN Idle
                ELSE [@ EXCEPT !.def = def, !.todo = rest]]
    /\ UNCHANGED <<catalog, store, managers, archive, bounds, history>>

\* Mutation: the file is written before the catalog changes.
SavesOldCatalog(c, t, def) ==
    /\ tables' = [tables EXCEPT ![t] = def]
    /\ saving' = [by |-> c, table |-> t, def |-> Persisted(def), tmp |-> SavedCatalog(tables)]

\* A change of the catalog, up to the complete .tmp file.
Change(c, t, def) ==
    /\ tables' = [tables EXCEPT ![t] = def]
    /\ saving' = [by |-> c, table |-> t, def |-> Persisted(def), tmp |-> SavedCatalog(tables')]

CreateTable(c) ==
    /\ At(c, "create")
    /\ saving = None
    /\ LET t == thread[c].table
           def == [thread[c].def EXCEPT !.born = thread[c].born]
       IN  IF tables[t] # None
           THEN Fail(c) /\ UNCHANGED <<tables, saving>>
           ELSE /\ Change(c, t, def)
                /\ thread' = [thread EXCEPT ![c].todo = Tail(@), ![c].def = def]
    /\ UNCHANGED <<file, store, managers, archive, bounds, history>>

\* delete_table hands the definition it removed to the handler.
DeleteTable(c) ==
    /\ At(c, "delete")
    /\ saving = None
    /\ LET t == thread[c].table
       IN  IF tables[t] = None
           THEN Fail(c) /\ UNCHANGED <<tables, saving>>
           ELSE /\ Change(c, t, None)
                /\ thread' = [thread EXCEPT ![c].todo = Tail(@), ![c].def = tables[t]]
    /\ UNCHANGED <<file, store, managers, archive, bounds, history>>

SetTtl(c) ==
    /\ At(c, "set_ttl")
    /\ saving = None
    /\ LET t == thread[c].table
       IN  IF tables[t] = None
           THEN Fail(c) /\ UNCHANGED <<tables, saving>>
           ELSE /\ Change(c, t, [tables[t] EXCEPT !.ttl = TRUE])
                /\ thread' = [thread EXCEPT ![c].todo = Tail(@)]
    /\ UNCHANGED <<file, store, managers, archive, bounds, history>>

\* The end of save_metadata: rename the .tmp file over the metadata file.
ReplaceFile(c) ==
    /\ At(c, "replace")
    /\ file' = saving.tmp
    /\ promised' = [promised EXCEPT ![saving.table] = saving.def]
    /\ unsaved' = FALSE
    /\ saving' = None
    /\ Proceed(c)
    /\ UNCHANGED <<tables, store, managers, archive, bounds, overlapped, haunted, kept>>

\* The .tmp file cannot be opened or renamed: the request succeeds all the same.
ReplaceFails(c) ==
    /\ At(c, "replace")
    /\ faults < MaxFaults
    /\ faults' = faults + 1
    /\ promised' = [promised EXCEPT ![saving.table] = saving.def]
    /\ unsaved' = TRUE
    /\ saving' = None
    /\ Proceed(c)
    /\ UNCHANGED <<tables, file, store, managers, archive, issued, kills,
                   overlapped, haunted, kept>>

\* A write of the .tmp file fails (the disk is full).  No write is checked, so
\* the truncated file is renamed over the metadata file and the request
\* succeeds; load_metadata gives up at the first short read and starts from an
\* empty catalog, whichever tables the file still lists in whole.
ReplaceTruncated(c) ==
    /\ At(c, "replace")
    /\ faults < MaxFaults
    /\ faults' = faults + 1
    /\ file' = [t \in Tables |-> None]
    /\ promised' = [promised EXCEPT ![saving.table] = saving.def]
    /\ unsaved' = TRUE
    /\ saving' = None
    /\ Proceed(c)
    /\ UNCHANGED <<tables, store, managers, archive, issued, kills, overlapped, haunted, kept>>

-----------------------------------------------------------------------------
(* Calls of the storage engine.  An item is marked with the incarnation of *)
(* the table it was written for.                                           *)

PutItem(c) ==
    /\ At(c, "put")
    /\ base' = [base EXCEPT ![thread[c].table][thread[c].key] = thread[c].def.born]
    /\ Proceed(c)
    /\ UNCHANGED <<index, catalog, managers, archive, bounds, history>>

PutIndex(c) ==
    /\ At(c, "put_index")
    /\ index' = IF thread[c].def.indexed
                THEN [index EXCEPT ![thread[c].table][thread[c].key] = thread[c].def.born]
                ELSE index
    /\ Proceed(c)
    /\ UNCHANGED <<base, catalog, managers, archive, bounds, history>>

DropTable(c) ==
    /\ At(c, "drop")
    /\ base' = [base EXCEPT ![thread[c].table] = NoItems]
    /\ Proceed(c)
    /\ UNCHANGED <<index, catalog, managers, archive, bounds, history>>

\* Mutation: the index namespaces are not dropped.
KeepsIndex(c) ==
    /\ At(c, "drop_index")
    /\ Proceed(c)
    /\ UNCHANGED <<store, catalog, managers, archive, bounds, history>>

DropIndex(c) ==
    /\ At(c, "drop_index")
    /\ index' = IF thread[c].def.indexed
                THEN [index EXCEPT ![thread[c].table] = NoItems] ELSE index
    /\ Proceed(c)
    /\ UNCHANGED <<base, catalog, managers, archive, bounds, history>>

\* One page of the table, in key order; the callers never ask for the next.
Page(items) ==
    LET present == {k \in Keys : items[k] # None}
        page == {k \in present : Cardinality({j \in present : j <= k}) <= PageSize}
    IN  [k \in Keys |-> IF k \in page THEN items[k] ELSE None]

Scan(c) ==
    /\ At(c, "scan")
    /\ thread' = [thread EXCEPT ![c].items = Page(base[Subject(c)]), ![c].todo = Tail(@),
                                ![c].left = {k \in Keys : Page(base[Subject(c)])[k] # None},
                                ![c].whole = base[Subject(c)]]
    /\ UNCHANGED <<store, catalog, managers, archive, bounds, history>>

\* restore_into puts the items one by one, each followed by its index entry.
FillPut(c) ==
    /\ At(c, "fill")
    /\ thread[c].entry = None /\ thread[c].left # {}
    /\ LET k == Min(thread[c].left)
       IN  /\ base' = [base EXCEPT ![thread[c].table][k] = thread[c].def.born]
           /\ thread' = [thread EXCEPT ![c].entry = k]
    /\ UNCHANGED <<index, catalog, managers, archive, bounds, history>>

FillIndex(c) ==
    /\ At(c, "fill")
    /\ thread[c].entry # None
    /\ LET k == thread[c].entry
       IN  /\ index' = IF thread[c].def.indexed
                       THEN [index EXCEPT ![thread[c].table][k] = thread[c].def.born] ELSE index
           /\ thread' = [thread EXCEPT ![c].entry = None, ![c].left = @ \ {k}]
    /\ UNCHANGED <<base, catalog, managers, archive, bounds, history>>

FillDone(c) ==
    /\ At(c, "fill")
    /\ thread[c].entry = None /\ thread[c].left = {}
    /\ Proceed(c)
    /\ UNCHANGED <<store, catalog, managers, archive, bounds, history>>

-----------------------------------------------------------------------------
(* Calls of the capacity and the stream manager.                           *)

\* handle_operation describes the table again before it tells the managers.
Describe(c) ==
    /\ At(c, "describe")
    /\ saving = None
    /\ LET def == tables[thread[c].table]
       IN  thread' = [thread EXCEPT ![c] =
                IF def = None THEN Idle ELSE [@ EXCEPT !.def = def, !.todo = Tail(@)]]
    /\ UNCHANGED <<catalog, store, managers, archive, bounds, history>>

RegisterTable(c) ==
    /\ At(c, "register")
    /\ buckets' = [buckets EXCEPT ![thread[c].table] = thread[c].def.rate]
    /\ Proceed(c)
    /\ UNCHANGED <<streams, catalog, store, archive, bounds, history>>

\* sync_table opens a stream unless the table has one, or closes it.
Synced(active, def) ==
    IF ~def.stream THEN None ELSE IF active = None THEN def.born ELSE active

SyncTable(c) ==
    /\ At(c, "sync")
    /\ streams' = [streams EXCEPT ![thread[c].table] = Synced(@, thread[c].def)]
    /\ Proceed(c)
    /\ UNCHANGED <<buckets, catalog, store, archive, bounds, history>>

UnregisterTable(c) ==
    /\ At(c, "unregister")
    /\ buckets' = [buckets EXCEPT ![thread[c].table] = None]
    /\ Proceed(c)
    /\ UNCHANGED <<streams, catalog, store, archive, bounds, history>>

\* Mutation: the stream of a deleted table stays open.
StreamStaysOpen(c) ==
    /\ At(c, "remove_stream")
    /\ Proceed(c)
    /\ UNCHANGED <<managers, catalog, store, archive, bounds, history>>

RemoveStream(c) ==
    /\ At(c, "remove_stream")
    /\ streams' = [streams EXCEPT ![thread[c].table] = None]
    /\ Proceed(c)
    /\ UNCHANGED <<buckets, catalog, store, archive, bounds, history>>

-----------------------------------------------------------------------------
(* Calls of the backup manager.  A backup's ARN is made of the table, the  *)
(* second and a sequence number; all backups of a behaviour are taken in   *)
(* the same second, where only the sequence number tells them apart.       *)

Arn(t) == [table |-> t, sequence |-> nextSequence]

With(f, x, value) == [y \in DOMAIN f \cup {x} |-> IF y = x THEN value ELSE f[y]]
Without(f, x) == [y \in DOMAIN f \ {x} |-> f[y]]

SnapshotFile(def, items) == [def |-> SnapshotDefinition(def), items |-> items]

CreateBackup(c) ==
    /\ At(c, "create_backup")
    /\ LET arn == Arn(thread[c].table)
       IN  /\ backups' = With(backups, arn, [def |-> thread[c].def, items |-> thread[c].items])
           /\ snapshots' = With(snapshots, arn, SnapshotFile(thread[c].def, thread[c].items))
           /\ kept' = IF arn \in DOMAIN kept THEN kept ELSE With(kept, arn, thread[c].whole)
    /\ nextSequence' = nextSequence + 1
    /\ Proceed(c)
    /\ UNCHANGED <<catalog, store, managers, bounds, overlapped, haunted, promised, unsaved>>

\* The snapshot file cannot be opened, written whole or renamed: the backup is
\* listed all the same.  No write is checked, and load skips a truncated file.
CreateBackupUnwritten(c) ==
    /\ At(c, "create_backup")
    /\ faults < MaxFaults
    /\ faults' = faults + 1
    /\ backups' = With(backups, Arn(thread[c].table),
                       [def |-> thread[c].def, items |-> thread[c].items])
    /\ nextSequence' = nextSequence + 1
    /\ Proceed(c)
    /\ UNCHANGED <<snapshots, catalog, store, managers, issued, kills, history>>

DeleteBackup(c) ==
    /\ At(c, "delete_backup")
    /\ backups' = Without(backups, thread[c].source)
    /\ snapshots' = Without(snapshots, thread[c].source)
    /\ kept' = Without(kept, thread[c].source)
    /\ Proceed(c)
    /\ UNCHANGED <<nextSequence, catalog, store, managers, bounds, overlapped, haunted,
                   promised, unsaved>>

\* restore_backup
ReadSnapshot(c) ==
    /\ At(c, "snapshot")
    /\ IF thread[c].source \notin DOMAIN backups
       THEN Fail(c)
       ELSE LET snapshot == backups[thread[c].source]
            IN  thread' = [thread EXCEPT
                    ![c].def = snapshot.def, ![c].items = snapshot.items, ![c].todo = Tail(@),
                    ![c].left = {k \in Keys : snapshot.items[k] # None}]
    /\ UNCHANGED <<catalog, store, managers, archive, bounds, history>>

-----------------------------------------------------------------------------
(* The process is killed and started again (Context::Context).             *)

\* Mutation: the sequence starts over.
SequenceStartsOver(files) == 1

\* BackupManager::load_metadata continues after the highest sequence it finds.
LoadedSequence(files) ==
    1 + Max({0} \cup {arn.sequence : arn \in DOMAIN files})

\* Every table of the catalog is registered and its stream opened.
ManagedBuckets(defs) ==
    [t \in Tables |-> IF t \in ListTables(defs) THEN defs[t].rate ELSE None]
ManagedStreams(defs) ==
    [t \in Tables |-> IF t \in ListTables(defs) THEN Synced(None, defs[t]) ELSE None]

Restart ==
    /\ kills < MaxKills
    /\ kills' = kills + 1
    /\ thread' = [c \in Threads |-> Idle]
    /\ saving' = None
    /\ tables' = file
    /\ buckets' = ManagedBuckets(file)
    /\ streams' = ManagedStreams(file)
    /\ backups' = snapshots
    /\ nextSequence' = LoadedSequence(snapshots)
    /\ overlapped' = {}
    /\ haunted' = haunted \cup {t \in Tables : \/ Working(Lifecycle, t) # {}
                                              \/ file[t] # Persisted(tables[t])}
    /\ promised' = IF unsaved THEN file ELSE promised
    /\ unsaved' = FALSE
    /\ UNCHANGED <<file, store, snapshots, issued, faults, kept>>

-----------------------------------------------------------------------------

\* The server has been started on InitialTables.
Init ==
    /\ tables = SavedCatalog(InitialTables)
    /\ file = tables
    /\ saving = None
    /\ base = [t \in Tables |-> [k \in Keys |->
                IF t \in ListTables(tables) /\ k \in InitialKeys THEN tables[t].born ELSE None]]
    /\ index = [t \in Tables |->
                IF t \in ListTables(tables) /\ tables[t].indexed THEN base[t] ELSE NoItems]
    /\ buckets = ManagedBuckets(tables)
    /\ streams = ManagedStreams(tables)
    /\ backups = <<>>
    /\ snapshots = <<>>
    /\ nextSequence = 1
    /\ thread = [c \in Threads |-> Idle]
    /\ issued = 0 /\ kills = 0 /\ faults = 0
    /\ overlapped = {} /\ haunted = {}
    /\ promised = tables
    /\ unsaved = FALSE
    /\ kept = <<>>

CatalogStep(c) ==
    \/ Lookup(c) \/ CreateTable(c) \/ DeleteTable(c) \/ SetTtl(c)
    \/ ReplaceFile(c) \/ ReplaceFails(c) \/ ReplaceTruncated(c)

StorageStep(c) ==
    \/ PutItem(c) \/ PutIndex(c) \/ DropTable(c) \/ DropIndex(c) \/ Scan(c)
    \/ FillPut(c) \/ FillIndex(c) \/ FillDone(c)

ManagerStep(c) ==
    \/ Describe(c) \/ RegisterTable(c) \/ SyncTable(c)
    \/ UnregisterTable(c) \/ RemoveStream(c)

BackupStep(c) ==
    \/ CreateBackup(c) \/ CreateBackupUnwritten(c) \/ DeleteBackup(c) \/ ReadSnapshot(c)

Arrival(c) ==
    \/ AcceptCreate(c) \/ AcceptOnTable(c) \/ AcceptPut(c)
    \/ AcceptDeleteBackup(c) \/ AcceptRestore(c)

Next ==
    \/ \E c \in Threads : \/ Arrival(c) \/ CatalogStep(c) \/ StorageStep(c)
                          \/ ManagerStep(c) \/ BackupStep(c)
    \/ Restart

Spec == Init /\ [][Next]_vars

-----------------------------------------------------------------------------
(* Properties.                                                             *)

Settled(t) == Working(Lifecycle, t) = {}

\* Every variable has its type.
TypeOK ==
    /\ DOMAIN tables = Tables /\ DOMAIN file = Tables
    /\ \A t \in Tables : file[t] # None => file[t].rate = 0
    /\ saving # None => At(saving.by, "replace")
    /\ \A t \in Tables, k \in Keys :
            /\ base[t][k] = None \/ base[t][k] \in 0 .. MaxRequests
            /\ index[t][k] = None \/ index[t][k] \in 0 .. MaxRequests
    /\ DOMAIN snapshots \subseteq DOMAIN backups
    /\ \A arn \in DOMAIN backups : arn.sequence < nextSequence

\* A table holds nothing that was written for an earlier table of its name,
\* and a name without a table holds nothing: DeleteTable dropped the items and
\* the index entries.  Tables whose requests overlapped a creation, deletion
\* or restore, and those caught by a kill midway, are out.
NoGhostItems ==
    \A t \in Tables \ haunted : Settled(t) =>
        LET own == {None} \cup (IF tables[t] = None THEN {} ELSE {tables[t].born})
        IN  \A k \in Keys : base[t][k] \in own /\ index[t][k] \in own

\* When nobody is creating, updating, deleting or restoring a table, the
\* capacity manager knows it with the catalog's throughput exactly if the
\* catalog has it, and it has an open stream, begun for this very table,
\* exactly if its definition asks for one: after any sequence of requests on it
\* that did not overlap, and after every restart.
ManagersFollowCatalog ==
    \A t \in Tables \ overlapped : Settled(t) =>
        /\ buckets[t] = (IF tables[t] = None THEN None ELSE tables[t].rate)
        /\ streams[t] = (IF tables[t] # None /\ tables[t].stream THEN tables[t].born ELSE None)

\* What a call on the catalog left is what the catalog holds, its index, stream
\* and time-to-live configuration included, whoever else changes other tables
\* and however often the process is killed.  Only a kill after a save that
\* failed sets it back: to the older catalog where the metadata file was not
\* replaced, to an empty one where it was replaced by a truncated file.
CatalogKeepsItsWord ==
    saving = None => \A t \in Tables : Persisted(tables[t]) = promised[t]

\* A backup whose snapshot was written holds, until it is deleted and also
\* after restarts, every item of the table it was taken of, if these fit a page.
BackupsHoldTheTable ==
    \A arn \in DOMAIN kept :
        /\ arn \in DOMAIN backups
        /\ Cardinality({k \in Keys : kept[arn][k] # None}) <= PageSize =>
                backups[arn].items = kept[arn]

=============================================================================
