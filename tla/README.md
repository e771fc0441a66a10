# cynamoDB in TLA+

A verification development for cynamoDB, a DynamoDB-compatible database in C++.
It holds TLA+ specifications translated from the source, TLC configurations that
check them on small instances, and proofs that TLAPS checks for all instances.

Paths below are relative to the repository (`src/engine/lsm/lsm_engine.cpp` and
so on); `PROJECT.json` gives for every definition the lines it stands for.

## 1. The system

An HTTP server (`src/http/server.cpp`) hands each request to
`api::handle_operation` (`src/api/handlers.cpp`). The handlers keep the catalog
in the `TableManager`, the items in a `StorageEngine`, throughput in the
`CapacityManager`, change records in the `StreamManager` and snapshots in the
`BackupManager`. Items of all tables live in one `LsmEngine`: a memtable, frozen
memtables, write-ahead-log segments, SSTables and a manifest, with a flush thread
and a compaction thread.

```
 HTTP sessions --> handlers --> TableManager   (catalog file)
                      |    \--> Capacity, Streams, Backups
                      v
               StorageEngine  = MemoryEngine | LsmEngine
                                               |- memtable_, immutable_memtables_
                                               |- WriteAheadLog (one per generation)
                                               |- sstables_, Manifest
                                               |- flush thread, compaction thread
```

### Inventory

| Component | State | Operations | Hard behaviour | Module |
|---|---|---|---|---|
| Write-ahead log | stream buffer, `appended_`, `synced_`, `sync_mutex_`, file | `append_only`, `append`, `commit`, `sync`, `replay` | callers share one fdatasync; process and power failure; failing stream, fdatasync and open | `WriteAheadLog` |
| LSM engine | memtables, `sstables_`, `wal_generation_`, flags, the directory | `put`, `remove`, `mutate`, `drop_table`, `get`, flush, compaction, constructor, destructor | four kinds of thread on one mutex with long sections outside it; a crash between any two steps; failing files | `LsmEngine` |
| Manifest | `levels_`, `next_sequence_`, the file | `add_file`, `remove_file`, `save`, `load` | atomic replacement; save failure and rollback by two threads | `LsmEngine` |
| SSTables | index, blocks, footer | `create`, `get`, cursors | crash before rename | `LsmEngine`, as whole files |
| Memtable, skiplist | list of entries with tombstones | `insert`, `get`, `is_tombstoned` | none: always under the engine's lock | `LsmEngine`, as a function |
| Merged reader | cursors, heap | `scan`, `query`, paging | newest wins across sources; page boundaries | `ReadRequests` |
| StorageEngine, MemoryEngine | a map | `put`, `remove`, `get`, `mutate`, `drop_table`, `scan`, `query` | – | `StorageEngine`, `ReadRequests` |
| Key codec | – | `encode_key_component`, `encode_primary_key` | byte order = value order | `KeyCodec` |
| Item handlers | idempotency cache; engine, stream | item writes, GetItem, batches, transactions, PartiQL writes | steps after the engine's lock is released; check-then-act; crashes midway | `ItemHandlers` |
| Read handlers | – | Scan, Query, BatchGetItem, TransactGetItems, PartiQL SELECT | cursors that travel through the client while others write | `ReadRequests` |
| Table handlers, table manager | catalog and its file | create, delete, update, TTL, save, load | failing saves; requests that overlap a deletion; kills | `TableLifecycle` |
| Backups | backups, snapshot files, counter | create, delete, restore, load | one page of items; restart | `TableLifecycle` |
| Capacity | token buckets | `register_table`, `unregister_table`, `consume` | follows the catalog | `TableLifecycle`, registration only |
| Streams | records, iterators | append, purge, iterate; sync, remove | numbers and iterators over a purge; clock set back | `StreamShards`, `ItemHandlers`, `TableLifecycle` |
| Condition expressions | – | lexer, parser, evaluator | precedence, limits, mixed types | `ConditionExpressions` |
| Update expressions | shared value objects | SET, REMOVE, ADD, DELETE | aliasing through shared pointers | `UpdateExpressions` |
| Lock-free queue | ring of cells with sequence numbers | `enqueue`, `dequeue` | wrap-around with several threads | `LockFreeQueue` |
| Scheduler, GSI/LSI managers, transaction manager | queues, stripes, clock | – | only their tests use them | none |
| HTTP, JSON, SigV4, item validation, metrics | – | – | pure functions or I/O | none |

`PROJECT.json` lists every part with its status, and every hazard with the line
where it bites. A hazard without a property has a note that says why.

## 2. How the models fit together

Each layer is taken at what the layer below was shown to promise.

- `WriteAheadLog` opens the steps of a commit and their failures; `LsmEngine` has a
  commit as one step, which `FaultFreeDurable` justifies.
- `LsmEngine` implements `StorageEngine` (run `lsm_contract`): a call of the
  engine is atomic, and an acknowledged write survives.
- `ItemHandlers` and `TableLifecycle` are built on that contract. A handler holds
  no lock of its own (`Context::transaction_mutex` has no user), so a request is a
  sequence of atomic calls, of the engine, the catalog, the streams, the cache,
  and calls of different requests interleave. A crash may fall between any two.
- `ReadRequests` looks into the engine again, at its layers, because paging and
  merging are the matter there; it runs `MemoryEngine` alongside.
- What a condition or an update computes is the matter of `ConditionExpressions`
  and `UpdateExpressions`; `ItemHandlers` uses three conditions and two updates.

## 3. Modules

| Module | What it is |
|---|---|
| `WriteAheadLog` | class `WriteAheadLog` (`wal.cpp`) |
| `WriteAheadLogProofs` | its theorems |
| `StorageEngine` | what a durable map promises (`storage_engine.hpp`, `memory_engine.cpp`) |
| `LsmEngine` | class `LsmEngine` with manifest, SSTables and log segments |
| `MCLsmEngine` | the symmetry set for TLC |
| `LsmInvariants` | the inductive invariants of `LsmEngine`: `IInv` of files and numbers, `CInv` of content, `DropInv` of `drop_table` |
| `LsmFacts` | lemmas the proofs share; what `IInv` and `CInv` let a client see |
| `LsmEngineInvariant` | writes, flush, compaction and shutdown keep `IInv` |
| `LsmEngineProofs` | commit, drop, crash and recovery keep `IInv`; the theorems about files |
| `LsmWriteProofs` | the clients and the flush thread keep `CInv` |
| `LsmRestartProofs` | compaction, shutdown, crash and recovery keep `CInv` |
| `LsmContractProofs` | the theorems about content, and that `LsmEngine` implements `StorageEngine` |
| `ItemHandlers`, `MCItemHandlers` | item requests of `handlers.cpp`, concurrently; the instance |
| `TableLifecycle`, `MCTableLifecycle` | table, backup and restore requests, catalog, backup manager, registration; the instance |
| `KeyCodec` | `key_codec.cpp` and the byte order of storage keys |
| `ReadRequests`, `MCReadRequests` | read requests over both engines; the instance |
| `Documents` | attribute values, paths into them, comparison |
| `ConditionExpressions`, `ConditionMeaning` | lexer, parser, evaluator; what a condition means |
| `UpdateExpressions`, `UpdateMeaning` | update clauses on shared objects; what they mean on values |
| `MCExpressions` | the instances of both languages |
| `StreamShards` | records and iterators of one stream |
| `LockFreeQueue`, `LockFreeQueueProofs` | the ring buffer; its theorems |
| `MCComponents` | reads, conditions, updates, stream and queue side by side |

### WriteAheadLog

Records are counted, and `appended >= flushed >= device` are the numbers of
records in the stream, in the operating system and on the device. `mutex_` is
held for one short section at a time, so each such section is one action;
`sync_mutex_` is held across several and is a variable. `commit()` is the actions
`LoadNeeded`, `LockSync`, then `ReturnCovered` or `Flush`, `Fdatasync`, `Publish`.
The environment may write buffers out early (`SpillBuffer`, `WriteBack`), kill the
process (what was flushed remains) or cut the power (at least what is on the
device remains). `fsyncEach` is `CYNAMODB_WAL_FSYNC`, both values are checked.
`sync()` promises, like `commit()`, what is appended when it is called.

`Faults` says what may go wrong: `"stream"` a write or flush (`AppendFails`,
`FlushFails`; the stream stays bad, nothing clears its state), `"fdatasync"` its
error, `"descriptor"` the opening of `sync_fd_`, `"header"` the check of the header,
after which the file is closed and every call is refused (`Refuse`). As in the
code, none of them keeps `Publish` from moving `synced_`. `failed` records that a
flush or a needed fdatasync has failed, `firm` what had been acknowledged by then.

### StorageEngine

One map, the sequence of writes that made it, and how many are acknowledged. A
restart cuts the sequence anywhere after the last acknowledged write, and the map
is what the rest leaves. Acknowledgement is by prefix: a write before an
acknowledged one is durable with it. That is what one log in file order gives.

### LsmEngine

A write is its position in `hist`, and every place in the program that holds an
item holds that number. This is data independence: the engine copies and compares
keys but never looks into an item, so a number that names the write tells apart
all that properties can ask for. 0 stands for "nothing known of this key".

| Variables | Code |
|---|---|
| `walFiles`, `walRecs`, `walDurable` | the `wal_<g>.log` files, their records, and the durable prefix |
| `sstFiles`, `sst`, `tier` | the `.sst` files, their content, `size_tier` of their size |
| `manifestDisk`, `manifest` | the MANIFEST file and `manifest_` |
| `memtable`, `immutables`, `sstables` | `memtable_`, `immutable_memtables_`, `sstables_` |
| `walGen`, `walBad` | `wal_generation_`, segments whose stream has failed |
| `pending`, `mode` | `compaction_pending_`; constructor, serving, `shutting_down_`, down |
| `flush`, `comp`, `writer`, `drop` | the threads: where they are and their local variables |
| `hist`, `saw`, `acked`, `crashes` | history variables |

| Actions | Code |
|---|---|
| `Put`, `Remove`, `Mutate`, `Commit` | the locked section of the call with log append, memtable insert and rotation, then `commit()` outside the lock |
| `DropStart`, `DropScan`, `DropLock`, `DropRemove`, `DropCommit` | `drop_table`: rounds of a scan under one lock and removals under another |
| `FlushTake`, `FlushWrite(Fails)`, `FlushPublish(Fails)`, `FlushUnlink`, `FlushExit` | `flush_memtable` |
| `CompWake`, `CompSelect`, `CompNothing`, `CompMerge(Fails)`, `CompPublish(Fails)`, `CompUnlink`, `CompExit` | `background_compaction`, `compact` |
| `ShutDown`, `Close` | `~LsmEngine` |
| `Crash` | death of process or machine at any point, in recovery too |
| `LoadSstables`, `ReplayWal`, `CheckpointEntry`, `FinishCheckpoint`, `DiscardSegment`, `Start` | the constructor and `recover_from_wal` |

What the abstraction decides:

- Every section under `mutex_` is one action. The removal loop of `drop_table`
  is the one exception; `MutexFree` keeps the others out while it runs.
- `"wait"` of the flush thread merges the loop test and the wait on the
  condition variable; `FlushTake` merges its two locked sections (take the front
  memtable, take a number). Nothing another thread does in between matters: only
  this thread removes frozen memtables, and numbers are only required to be fresh.
- The tier of an SSTable is any member of `Tiers`: sizes are not modelled, so all
  outcomes of `size_tier` are.
- `levels_` is one set of files because the engine reads all levels and sorts.
  The number of an SSTable is its file name, its `seq` the number in the manifest.
- The fan-out 4 of the code is the constant `Fanout`; it is also the number of
  tables that raises the compaction flag. Automatic compaction is assumed enabled.
- A commit is one step here and does what `commit()` does when no flush and no
  fdatasync fails; `WriteAheadLog` opens it and has those failures (finding 1).
- After a crash each segment keeps its durable records and some prefix of the
  rest. `Crash` uses one number for all segments; by `TailOnlyInActive` only one
  segment has such a rest. (With `wal` faults a refused record is in no segment.)
- The entry of a new segment in its directory is taken to be durable with the
  first fdatasync of the file, SSTable and manifest renames to be atomic and
  durable, and deletions to be durable in their order.
- With `"unlink"` in `Faults` old segments may be deleted in any order and some
  not at all, which includes what the loop over a failing `remove` can leave.
- Not modelled: exceptions on opening an SSTable (the process ends: a crash), a
  failing deletion of an orphan at start (the orphan is found again by the next
  start), corrupt files, keys that the memtable refuses for their length, and a
  second `drop_table` at the same time.

### ItemHandlers

One table with one index (attribute `ix`), a stream with both images and a
time-to-live attribute. An item is a function from the attributes it has to their
values. `client[c].todo` is the list of calls a request still has to make;
`Handler` gives the list a request starts with, and a write adds the calls of
`maintain_indexes` and `emit_stream` that its old and new item require
(`FollowUps`).

| Actions | Code |
|---|---|
| `Accept` | a request arrives; the checks that need no storage |
| `Mutate` | `storage.mutate` of PutItem, DeleteItem, UpdateItem, PartiQL UPDATE and DELETE |
| `Get`, `Reap` | GetItem; the lazy removal of an expired item |
| `ReadOld`, `WriteItem` | BatchWriteItem, PartiQL INSERT and phase 2 of TransactWriteItems |
| `Lookup`, `CheckCondition`, `ComputeUpdate`, `Store` | the idempotency cache and phase 1 of TransactWriteItems |
| `IndexRemove`, `IndexPut`, `EmitStream` | `maintain_indexes`, `emit_stream` |
| `Tick`, `Crash` | time; the loss of stream, cache and running requests |

A TransactWriteItems body hash is the request itself (equal hashes mean equal
bodies). The history variables say where the code promises nothing: `tainted`
holds keys with overlapping writers, a crash midway or a lazy removal,
`unchained` those whose old image was not the item replaced, `excused` the tokens
that were dropped from the cache or carried by two requests at once.

### TableLifecycle

As above a request is a list of calls. The catalog's mutex is held from a change
until the metadata file has been replaced (`saving`), and other calls run in
between. `born` tells apart the tables that a name had one after the other, and
an item is the `born` of the table it was written for. `ReplaceFails`,
`ReplaceTruncated` and `CreateBackupUnwritten` are file errors the code ignores: a
`.tmp` file that cannot be opened or renamed, one that is renamed although a write
to it failed (`load_metadata` reads it as an empty catalog), and a snapshot that is
not there or not whole (`load_metadata` of the backups skips it). `Restart` is a kill and
the constructor of `Context`: catalog and snapshots are loaded, managers are told
of every table. What a file does not hold is lost in the conversion:
`Persisted` drops the provisioned throughput, `SnapshotDefinition` drops indexes,
stream and time to live. A backup holds one page of a storage scan (`PageSize`).

### ReadRequests and KeyCodec

Both engines receive the same writes. `layers` are the sources of a
`MergedReader`, newest first, as sequences of entries in key order; `data` are the
maps of `MemoryEngine`. A read is `Begin` and a sequence of `NextPage` or
`NextGet`, with `PutRow`, `RemoveRow` and `Rotate` in between; the last evaluated
key leaves as key attributes and comes back encoded. Keys are byte sequences made
by `KeyCodec`: escaping, terminators, number encoding and `prefix_successor` are
done byte by byte, with 16 bits of sign and magnitude in place of a double. Rows carry
whether a filter accepts them and whether they are expired.

### ConditionExpressions and UpdateExpressions

An expression grows by fragments of lexemes as long as the parser would have read
on, so every prefix the parser can tell apart is tried, valid or not. The parser is
the code's recursive descent with its limits, and the evaluator walks the tree.
`ConditionMeaning` says independently what a token sequence means: it is cut at
the connective that binds least. What a function or a comparison yields for given
operands is defined once, in `Documents`, and used by both.

An update works on a heap of objects, because that is where it can go wrong: the
working item starts with the pointers of the stored item, and clauses clone,
share and write. `UpdateMeaning` computes on values. A clause is one path with its
operand after scanning; a clause that does not scan is `malformed`.

### StreamShards

One stream: `records` is a deque, an iterator an index into it. `append_record`
takes the date before the lock and numbers the record under it; retention
compares unsigned numbers, so a clock set back wraps. A read beyond the end of the
deque is undefined behaviour: it yields `Garbage` or ends the process (`down`).

### LockFreeQueue

One step per atomic access. `compare_exchange_weak` may fail for no reason.
`enqueued` records what was claimed for each position. The memory orders of the
code (acquire and release on a cell's sequence) justify interleaving steps.

## 4. Runs

| Run | Instance | Shows |
|---|---|---|
| `wal_group_commit` | 3 threads, one call each, both fsync modes, all four faults | `AckedBeforeFailureSurvives`, `SyncedIsDurable`, `CommitReturns` |
| `wal_sync_fails` | 2 threads, stream and fdatasync may fail | *violation*: see findings |
| `lsm_crash` | 2 threads (symmetric), 2 keys, `mutate`, memtables of 2, 4 writes, 2 crashes | reads see the last write, nothing acknowledged is lost, `mutate` is atomic, segments and memtables correspond |
| `lsm_compaction` | 1 thread, 1 key, put and remove, memtables of 1, fan-out 2, two tiers, 3 writes, failing SSTable and manifest operations, 1 crash | precedence, tombstones, manifest against directory |
| `lsm_drop` | 3 keys, 2 in the table, put and drop, 5 writes, 1 crash | `drop_table` empties the table, durably |
| `lsm_contract` | 1 thread, 2 keys, mutate and shutdown, 4 writes, fair | refinement of `StorageEngine` and the three progress properties |
| `lsm_append_fails` | log appends may fail | *violation*: see findings |
| `lsm_unlink_fails` | deletions of segments may fail | *violation*: see findings |
| `item_handlers` | 2 clients (symmetric), 2 keys, 2 index values, 2 tokens, 14 requests of which 3 are sent, cache of 1, one tick, 1 crash | index, stream, token and transaction properties |
| `table_lifecycle` | 2 threads (symmetric), 2 tables, 2 keys, 3 requests, 1 kill, 1 file error, pages of 1 item | fresh tables, managers, catalog file, backups |
| `components` | five instances side by side, see below | paging, expressions, iterators, queue |
| `stream_sequence_numbers` | 2 writers, 3 appends, no clock correction | *violation*: see findings |

Bounds. Two threads are enough for every race on one commit in `LsmEngine`; three
in `WriteAheadLog` let one thread append between the flush and the publication of
a second while a third waits. Two keys with memtables of two make a key live in
memtable, frozen memtable and SSTable at once. Three writes with memtables of one
give three tables, so a merge of two is partial or full, and a flush falls between
selection and publication. `MaxSeq` and `MaxGen` bound the numbers handed out,
which failures and restarts use up; at a bound the flush thread stops, as if the
machine were slow. Two crashes allow one within the recovery from the other.
Deadlock checking is off because a bounded system stops when its bounds are
reached; stuck threads are the business of the progress properties.

Two clients and three requests let a third request find what two overlapping ones
left, and the operations meet on key `k1`. A cache of one entry with a lifetime of
zero ticks makes eviction and expiry happen. In `table_lifecycle` three requests are
enough to delete, create and write a table of one name, with a kill anywhere, and
a page of one item makes a backup incomplete.

`components` has no shared state between its parts: a variable chooses the one
that runs. Reads: pages of 2 items or 4 bytes, limits, filters, segments, both
directions, string and number keys with zero bytes, prefixes and negative
numbers, up to 2 writes and 3 layers. Conditions: up to 4 of 23 fragments, up to
15 tokens, with limits small enough to be met. Updates: up to 3 of 20 clauses, on an
item and values that share objects. Streams: 3 appends by 2 writers, an iterator,
retention and lifetime of one tick, 3 ticks, one clock correction. Queue: 3
threads, 2 cells, 5 calls, so positions wrap.

Symmetry is used for the writers of `lsm_crash`, the clients of `item_handlers`
and the threads of `table_lifecycle` (interchangeable; these runs check no
liveness).

Fairness (`FairSpec`): weak, for each thread inside `commit()`, the flush thread,
the compaction thread, the constructor and the join of the destructor. These are
operating-system threads that are scheduled when they can run. The other modules
state safety only: a request there is a finite list of calls. No client is obliged
to call, and no crash to happen. `RecoveryCompletes` assumes that somebody starts
an engine that is down, and that crashes end.

### Properties

- `AckedBeforeFailureSurvives`: what `commit()` acknowledged before a flush or an
  fdatasync failed is replayed after a crash, whatever fails later.
- `SyncedIsDurable`: until then `synced_` counts only records the operating system
  and, with fsync, the device has, so a covered caller may rely on it.
- `AckedSurvivesCrash`: what `wal.hpp` promises, every acknowledged record; checked
  by `wal_sync_fails`, which refutes it.
- `CommitReturns`: every call of `commit()` comes to an end, also on a bad stream.
- `ReadsSeeLastWrite`: get is the last write of the key, in every state; when the
  engine is down or recovering, the disk alone determines the same content.
- `AckedWritesSurvive`, `AckedWritesReadable`: no crash undoes an acknowledged
  write, as history and as what a read returns.
- `MutateIsAtomic`: what a mutator saw is what its write replaced.
- `ManifestFilesExist`: the constructor cannot fail on a missing SSTable.
- `RestartKeepsOrder`: `sstables_` is in the order a restart would compute.
- `RunIntact`: the inputs of a merge stay adjacent until it is published.
- `TailOnlyInActive`, `SegmentsMatchMemtables`: which log covers what.
- `DropEmptiesTable`: what is live when `drop_table` returns is newer than the call.
- `FrozenGetsFlushed`, `ShutdownCompletes`, `RecoveryCompletes`: progress.
- `RefinesStorageEngine`: all of it seen from outside.
- `IndexFollowsTable`: once nobody works on a key, its index entries are the
  projection of its item.
- `StreamReplaysTable`, `StreamMissesNoChange`: a key's records lead from the item
  the stream began with to the item stored, in order if writers did not overlap,
  in some order if they did.
- `TokenAppliedOnce`: a ClientRequestToken the cache remembers is applied once.
- `TransactionsAreAllOrNothing`: an answered transaction whose items nobody else
  wrote has done all or nothing, and all only if every condition held.
- `NoGhostItems`: a table has no item or index entry of an earlier one of its name.
- `ManagersFollowCatalog`: throughput and stream are those of the catalog.
- `CatalogKeepsItsWord`: other tables' changes and kills do not undo a change of
  the catalog, index, stream and time-to-live configuration included (the comment at
  `table_manager.cpp:145` that the former two are not round-tripped is out of date:
  versions 3 and 4 of the file hold them). Only a save that failed does, at the next
  start: to the older catalog, or to an empty one.
- `BackupsHoldTheTable`: a written backup stays, with all items of a table that
  fits a page.
- `PagedReadIsComplete`, `ReadFollowsKeyOrder`, `PagesMoveOn`: pages together are
  the answer, each row once, in key order, and every page advances. Expired rows are
  not returned from the base table; whether a read of an index returns them is left
  open (see the known limits).
- `EnginesAgree`: both engines answer the same call alike, whatever the layers.
- `ConditionMeansWhatItSays`: the parser accepts exactly the conditions within its
  limits, and the evaluator's answer is their meaning.
- `UpdatesActByValue`, `StoredItemUntouched`: no clause shows through a shared
  pointer, and nothing of the stored item changes before the update is stored.
- `IteratorsMoveForward`: an iterator returns changes in order, none twice, and
  none is skipped unless a purge came in between.
- `QueueKeepsItsOrder`: what leaves a position is what entered it, and full or
  empty is answered only with a reason.

### Findings

1. `wal.cpp:142` moves `synced_` to `target` whatever the flush and the fdatasync
   before it did. The result of fdatasync is dropped (138), so after an I/O error the
   record is acknowledged. After a failed flush (132) the caller gets false, but
   later callers are covered (126) and get true for records never written. Both
   are against `wal.hpp:35` and `wal.hpp:74` (`wal_sync_fails`). The counterexample
   shown is the shorter one, by fdatasync; with `Faults = {"stream"}` TLC finds the
   other: a flush that fails, and a second thread that is covered by it.
2. `lsm_engine.cpp:416` drops the result of `append_only` (and 496 that of
   `commit`). A write the log did not take is acknowledged and lost by a crash,
   against the comment at 494 (`lsm_append_fails`).
3. `lsm_engine.cpp:703` ignores a failed deletion of a flushed segment. If a later
   segment is flushed and deleted, the next start replays the old one over newer
   SSTables and an old value returns (`lsm_unlink_fails`).
4. `streams/manager.cpp:111` numbers a record by the length of the deque. After a
   purge a new record repeats the number of one that is still there, against
   `docs/v2_docs/Phase_21__API_Storage_Fuzzing.md:31` (`stream_sequence_numbers`).

The first three need a failing system call; with none, every property of the
engine holds.

### Known limits of the code that the models contain

The properties are stated around these. Where the repository says otherwise, the
place is named.

- Writers of one item that overlap can leave an index entry of the older value
  and stream records in the opposite order; so can a crash after the write.
  `docs/functionality.md:30` calls local secondary indexes strongly consistent.
- The lazy removal of an expired item tells neither index nor stream, and may
  remove an item written since the read. There is no other removal:
  `docs/functionality.md:39-41` speaks of a background process and of stream events.
- Expired items are filtered from GetItem, batches, Scan and Query of the base table
  and PartiQL SELECT. Scan and Query of an index return them (`handlers.cpp:1214`
  says "TTL applies to base-table scans"; `handle_index_query` has no test), while
  `README.md:85` and `docs/api.md:55` say "expired items filtered from reads" and
  `CHANGELOG.md:254` names Query and Scan.
- TransactWriteItems is not isolated, a crash leaves a part of it, and a token is
  applied again when its first request still runs or its entry was dropped.
  TransactGetItems is a sequence of gets, not a snapshot. `handlers.cpp:1678` and
  `1732` say "applied at most once", `CHANGELOG.md:154` that retries are safe, and
  `README.md:15` and `docs/functionality.md:24` claim ACID transactions.
- A deletion of a table that overlaps its creation or a put, or that a kill
  interrupts, leaves items to the next table of that name.
- CreateBackup, RestoreTableToPointInTime and PartiQL SELECT use one page of a scan
  and do not continue. A snapshot loses indexes, stream and time to live; the
  catalog file loses the provisioned throughput.
- A save of the catalog whose writes fail (a full disk) replaces the metadata file by
  a truncated one, and the next start knows no table; the items stay in the engine
  under names without a table. The comment at `table_manager.cpp:226` ("a crash
  mid-write never leaves a corrupt catalog") is true of crashes.
- `attribute_equals` of `lsm_engine.cpp` has no case for binary values: a query on a
  binary partition key returns nothing there, and does on `MemoryEngine`.
- A purge moves records under an iterator, so that it skips some or reads beyond
  the end; a clock set back purges everything.
- The evaluator answers FALSE below its depth limit, also in long chains of AND or
  OR; keywords used as names in a path are made upper case.
- A queue call may answer full or empty while another call is half done. With one
  cell the queue would be wrong; the template's assertion allows it.

## 5. Proofs

Assumptions are those of the modules on their constants (bounds are naturals,
`Fanout` at least 2, memtables of at least one entry, `NoCaller` not a caller).
Nothing bounds the number of threads, keys, writes, tables or crashes. The queue
needs a capacity of at least two.

`WriteAheadLogProofs`. The invariant adds to `TypeOK` what each thread may rely on
at each point: its `needed` is at least its own record, its `target` at least its
`needed` and at most what is flushed, after `Fdatasync` the device covers
`target`; and of what is published: `acked <= synced <= flushed`, and `synced`
within the device, each as long as nothing has failed. `firm` is a bound that a
failure does not move: what is flushed or on the device stays there. Mutual
exclusion on `sync_mutex_` is not needed for safety.
From it follow

- `TypeCorrect`: `Spec => []TypeOK`;
- `SyncedDurable` and `GroupCommitDurable`: `SyncedIsDurable` and
  `AckedBeforeFailureSurvives`, with every fault allowed;
- `FaultFreeDurable`: `AckedSurvivesCrash`, the promise of `wal.hpp`, provided the
  stream, fdatasync and the opening of the descriptor do not fail. The run
  `wal_sync_fails` shows that the proviso is needed.

Files: `LsmEngineInvariant`, `LsmEngineProofs`. `ManifestFilesExist` is not
inductive: a flush or a compaction publishes a number it took several steps ago.
The invariant `IInv` therefore says

- of both manifests: all files exist, paths and sequence numbers are distinct and
  below the next one (`ManifestInv`);
- of `sstables_`: it lists the manifest's files once each, in strictly
  descending sequence numbers (`TablesInv`);
- of a busy flush: its number is unnamed by either manifest and higher than all
  sequence numbers; once written, its file exists (`FlushInv`);
- of a busy compaction: its number is unnamed and not the flush's, its inputs stand
  at one place of `sstables_`, and its logical number is that of its first, newest
  input; files it is about to delete are in neither manifest (`CompInv`).

One lemma per action is combined in `NextIInv`. The theorems are `TypeCorrect`,
`ManifestNeverDangles` (`ManifestFilesExist`), `RunStaysIntact` (`RunIntact`) and
`OrderSurvivesRestart` (`RestartKeepsOrder`), all with every fault allowed.

Content: `LsmWriteProofs`, `LsmRestartProofs`, `LsmContractProofs`. That a read
returns the last write is not inductive either: it holds because of what is where,
and after a crash because of what is on disk. `CInv` therefore says

- which segments exist and how much of each is on stable storage: all but the tail
  of the one in use (`SegmentsInv`);
- that records name writes of their key, in order within a segment and from one
  segment to the next, and that the tail is exactly the end of the history
  (`RecordsInv`, `RecordOrder`);
- that files hold durable writes, newer ones under higher sequence numbers, and
  that no segment would bring an older write over a file (`FilesHold`,
  `LogsOverFiles`);
- that the last write of every key is in a file or a log, *for each history a crash
  could leave* and not only the present one, or was a removal and nothing of the key
  is left (`Covered`; `UnlinkCovered` for the segment a flush is about to delete).
  This is what makes the crash step go through;
- that each memtable is what the replay of its segment would give, and what
  flush, compaction and recovery have done so far (`MemtablesInv`, `FlushContent`,
  `CompContent`, `RecoveryInv`);
- that what is acknowledged is durable, and that a thread inside `commit()` whose
  segment has been rotated away already has its record synced (`AckInv`).

`LsmFacts` derives from both invariants that `get`, and the disk of an engine that
is down, give the last write of the key, and that every step is then one of
`StorageEngine` or leaves its variables alone. `drop_table` needs `DropInv` in
addition: keys behind the cursor are gone or were written after the call began.

All theorems of `LsmContractProofs` have the hypothesis `LogsReliable`: no append to
a log fails and no segment resists its deletion; commits do not fail in `LsmEngine`
at all (section 3). It is needed: findings 2 and 3 in
section 4 are the counterexamples without it (`lsm_append_fails`,
`lsm_unlink_fails`). SSTable writes, manifest saves and deletions of SSTables may
fail at any time. The theorems:

- `ContentsInvariance`, `DropInvariance`: `[]CInv`, `[]DropInv`;
- `ReadsReturnLastWrite` (`ReadsSeeLastWrite`), `AcknowledgedWritesSurvive`
  (`AckedWritesSurvive`), `AcknowledgedWritesReadable` (`AckedWritesReadable`, the
  promise the two failing runs refute);
- `FrozenLogsDurable` (`TailOnlyInActive`), `LogsMatchMemtables`
  (`SegmentsMatchMemtables`);
- `MutateAtomic` (`MutateIsAtomic`), `DropTableEmpties` (`DropEmptiesTable`);
- `ImplementsStorageEngine` (`RefinesStorageEngine`): initial states map to initial
  states, and every step to a step or a stutter.

In these modules Zenon is the default prover (`USE Zenon`); leaves that need
arithmetic or sequences name SMT.

`LockFreeQueueProofs`. `QueueKeepsItsOrder` is about single steps of a thread
that acts on a position it loaded long ago. The invariant `QueueInv` says for each
position what its cell holds and who works on it: a thread that claimed a position
owns its cell (`ThreadsOwnTheirCells`) and is alone there (`OneThreadPerPosition`);
positions between the two counters are filled or being filled
(`QueuedAreFilled`), the next ones free or being freed (`OthersAreFree`);
sequences never fall behind (`SequencesKeepUp`), so a thread whose
compare-exchange succeeds finds the cell as it saw it (`ClaimsAreCurrent`). Lemmas
on `%` say that positions less than `Capacity` apart have different cells. The
theorems are `QueueInvariant` (`[]QueueInv`) and `QueueOrder`
(`QueueKeepsItsOrder`), for any threads, calls and capacity of at least two.

Only model-checked:

- liveness (`CommitReturns`, `FrozenGetsFlushed`, `ShutdownCompletes`,
  `RecoveryCompletes`): fairness and ENABLED are beyond the prover;
- `ItemHandlers` (`IndexFollowsTable`, `StreamReplaysTable`, `StreamMissesNoChange`,
  `TokenAppliedOnce`, `TransactionsAreAllOrNothing`) and `TableLifecycle`
  (`NoGhostItems`, `ManagersFollowCatalog`, `CatalogKeepsItsWord`,
  `BackupsHoldTheTable`): these properties are about requests that did not overlap,
  so an inductive invariant would have to tell for every subset of requests in
  progress what each has left half done. It has not been worked out;
- `ReadRequests` (`PagedReadIsComplete`, `ReadFollowsKeyOrder`, `EnginesAgree`,
  `PagesMoveOn`): rows are selected, merged and summed with `SelectSeq`,
  `SortSeq` and folds, whose value for every input needs an induction over data that
  the prover cannot do;
- `ConditionMeaning` and `UpdateMeaning`, for the same reason: parsers and evaluators
  are recursive;
- `IteratorsMoveForward` of `StreamShards`, which takes the changes out of what an
  iterator returned with `SelectSeq`.

## 6. Not modelled

Listed per part in `PROJECT.json`. In short:

- text and bytes: JSON, HTTP, SigV4, the scanner of update expressions,
  `parse_key_condition`, the PartiQL parser, record codec, SSTable and manifest
  layout, snapshot files;
- pure functions of one item: projections, validation, sizes, return values;
- the token bucket of the capacity manager: it admits approximately by a rate and
  decides before a handler starts;
- code that only tests include: the work-stealing scheduler, the GSI and LSI
  managers, the transaction manager with its hybrid clock;
- code without a caller: `MergingIterator`, `Compactor`, `RecoveryManager`, block
  cache, bloom filter, `WriteAheadLog::reset`, collection sizes;
- power failure of the catalog and snapshot files, which are not synced: there the
  models have kills of the process and failing writes.

## 7. Running

```
tlc -workers 2 -config MCLsmCrash.cfg MCLsmEngine
tlc -workers 2 -config MCItemHandlers.cfg MCItemHandlers
tlc -workers 2 -config MCTableLifecycle.cfg MCTableLifecycle
tlc -workers 2 -config MCComponents.cfg MCComponents
tlapm WriteAheadLogProofs.tla
tlapm LockFreeQueueProofs.tla
tlapm LsmFacts.tla                 # likewise LsmEngineInvariant, LsmEngineProofs,
tlapm LsmContractProofs.tla        # LsmWriteProofs, LsmRestartProofs
```

The largest runs take about two minutes; the proofs of a module of the
engine take five to twenty-five.
