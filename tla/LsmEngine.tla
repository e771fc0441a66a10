------------------------------ MODULE LsmEngine ------------------------------
(***************************************************************************)
(* The storage engine: class LsmEngine (src/src/engine/lsm/lsm_engine.cpp) *)
(* with its memtables, write-ahead-log segments, SSTables and manifest,    *)
(* its flush and compaction threads, shutdown, crash and recovery.         *)
(*                                                                         *)
(* A write is known by its position in `hist`, the sequence of all writes: *)
(* the id 1, 2, ...  Every place that holds an item of the program (a      *)
(* memtable, an SSTable, a log record) holds the id of the write that      *)
(* produced it, and 0 means that the place knows nothing of the key.  A    *)
(* removal is a write as well: its id in a table is the tombstone.         *)
(*                                                                         *)
(* Every section of code run under mutex_ is one action, except the loop   *)
(* of drop_table, which holds mutex_ over several steps.  File names are   *)
(* numbers: SSTable n is table_<n>.sst or table_<n>_c.sst, segment g is    *)
(* wal_<g>.log.  A commit of a segment is one step here; WriteAheadLog     *)
(* shows what it is made of.                                               *)
(***************************************************************************)
EXTENDS Integers, Sequences, FiniteSetsExt

CONSTANTS
    Writers,            \* threads that call put, remove and mutate
    Keys,               \* internal keys (table and item key), in their order
    TableKeys,          \* the keys of the table that drop_table is called for
    Calls,              \* the calls clients make: "put" "remove" "mutate" "drop" "close"
    Faults,             \* operations that may fail: "sst" "manifest" "unlink" "wal"
    MemtableThreshold,  \* memtable_flush_threshold_
    Fanout,             \* kCompactionFanout, and the 4 that flags a compaction
    Tiers,              \* size tiers an SSTable may fall into
    MaxWrites,          \* bound: length of hist
    MaxSeq,             \* bound: highest SSTable number
    MaxGen,             \* bound: highest WAL generation
    MaxCrashes          \* bound: crashes and shutdowns

ASSUME KeysAssumption == Keys \subseteq Nat /\ TableKeys \subseteq Keys
ASSUME SizesAssumption == MemtableThreshold \in Nat \ {0} /\ Fanout \in Nat \ {0, 1}
ASSUME TiersAssumption == Tiers \subseteq Nat
ASSUME BoundsAssumption ==
    MaxWrites \in Nat /\ MaxSeq \in Nat /\ MaxGen \in Nat /\ MaxCrashes \in Nat

Ids == 0 .. MaxWrites
Seqs == 0 .. MaxSeq
Gens == 0 .. MaxGen

VARIABLES
    \* on disk
    walFiles,       \* generations whose segment exists
    walRecs,        \* records of each segment, in file order
    walDurable,     \* how many of them are on stable storage
    sstFiles,       \* numbers of the .sst files that exist
    sst,            \* their content
    tier,           \* size_tier of their length
    manifestDisk,   \* the MANIFEST file
    \* in memory
    mode,           \* where the engine is in its life
    memtable,       \* memtable_
    immutables,     \* immutable_memtables_, oldest first
    sstables,       \* sstables_, newest first
    manifest,       \* manifest_: files and next_sequence_
    walGen,         \* wal_generation_
    walBad,         \* segments whose stream has failed
    pending,        \* compaction_pending_
    flush,          \* the flush thread and its local variables
    comp,           \* the compaction thread and its local variables
    writer,         \* the client threads
    drop,           \* the thread in drop_table
    \* history
    hist,           \* every write that has not been lost in a crash
    saw,            \* what the mutator of each write saw, -1 if it had none
    acked,          \* highest acknowledged write
    crashes         \* how often the engine has gone down

walVars == <<walFiles, walRecs, walDurable>>
sstVars == <<sstFiles, sst, tier>>
diskVars == <<walVars, sstVars, manifestDisk>>
tableVars == <<memtable, immutables, walGen, walBad>>
threadVars == <<flush, comp, pending>>
clientVars == <<writer, drop>>
histVars == <<hist, saw, acked, crashes>>
vars == <<walVars, sstVars, manifestDisk, mode, tableVars, sstables, manifest,
          threadVars, clientVars, histVars>>

-----------------------------------------------------------------------------
(* Data. *)

Table == [Keys -> Ids]
EmptyTable == [k \in Keys |-> 0]

\* Number of entries of a memtable; tombstones count.
Size(t) == Cardinality({k \in Keys : t[k] # 0})

\* An entry of the manifest: SSTableMetadata.  levels_ is one set here.
FileMeta == [path : Seqs, seq : Seqs]
ManifestContent == [files : SUBSET FileMeta, next : 0 .. MaxSeq + 1]
NoFiles == [files |-> {}, next |-> 0]
Paths(files) == {f.path : f \in files}

Record == [key : Keys, id : 1 .. MaxWrites]
Deleted(id) == id \in DOMAIN hist /\ hist[id].val = 0

\* The value a read returns for an entry: its own id if live, 0 if not.
Live(id) == IF id \in DOMAIN hist THEN hist[id].val ELSE id

IdleFlush == [pc |-> "exited", gen |-> 0, seq |-> 0]
IdleComp == [pc |-> "exited", inputs |-> <<>>, full |-> FALSE, seq |-> 0,
             logical |-> 0, old |-> <<>>]
IdleWriter == [pc |-> "idle", gen |-> 0, id |-> 0]
IdleDrop == [pc |-> "idle", cursor |-> -1, batch |-> {}, from |-> 0, gen |-> 0, id |-> 0]

-----------------------------------------------------------------------------
(* Reads. *)

\* The entry for k in a list of SSTables, newest first: the first table that
\* has the key decides.
FirstEntry(paths, k) ==
    IF \E i \in DOMAIN paths : sst[paths[i]][k] # 0
    THEN LET i == CHOOSE i \in DOMAIN paths :
                     /\ sst[paths[i]][k] # 0
                     /\ \A j \in 1 .. i - 1 : sst[paths[j]][k] = 0
         IN  sst[paths[i]][k]
    ELSE 0

\* get_locked: the first place that knows the key, from the newest to the
\* oldest, decides; a tombstone hides what is older.
GetLocked(k) ==
    IF memtable[k] # 0 THEN memtable[k]
    ELSE IF \E i \in DOMAIN immutables : immutables[i].tab[k] # 0
    THEN LET i == CHOOSE i \in DOMAIN immutables :
                     /\ immutables[i].tab[k] # 0
                     /\ \A j \in i + 1 .. Len(immutables) : immutables[j].tab[k] = 0
         IN  immutables[i].tab[k]
    ELSE FirstEntry(sstables, k)

\* What replaying one segment from its start leaves for key k.
ReplaySegment(g, k) ==
    IF \E i \in DOMAIN walRecs[g] : walRecs[g][i].key = k
    THEN LET i == CHOOSE i \in DOMAIN walRecs[g] :
                     /\ walRecs[g][i].key = k
                     /\ \A j \in i + 1 .. Len(walRecs[g]) : walRecs[g][j].key # k
         IN  walRecs[g][i].id
    ELSE 0

\* Mutation: the segments are replayed in the wrong order.
ReplayedNewestFirst(k) ==
    IF \E g \in walFiles : ReplaySegment(g, k) # 0
    THEN ReplaySegment(CHOOSE g \in walFiles :
                          /\ ReplaySegment(g, k) # 0
                          /\ \A h \in walFiles : h < g => ReplaySegment(h, k) = 0, k)
    ELSE 0

\* recover_from_wal: segments in generation order, later ones overwriting.
Replayed(k) ==
    IF \E g \in walFiles : ReplaySegment(g, k) # 0
    THEN ReplaySegment(CHOOSE g \in walFiles :
                          /\ ReplaySegment(g, k) # 0
                          /\ \A h \in walFiles : h > g => ReplaySegment(h, k) = 0, k)
    ELSE 0

\* load_sstables_from_manifest: of the files the manifest names, the one with
\* the highest sequence number that has the key.
InManifestFiles(k) ==
    IF \E f \in manifestDisk.files : sst[f.path][k] # 0
    THEN LET f == CHOOSE f \in manifestDisk.files :
                     /\ sst[f.path][k] # 0
                     /\ \A g \in manifestDisk.files : g.seq > f.seq => sst[g.path][k] = 0
         IN  sst[f.path][k]
    ELSE 0

\* What a restart on the present disk would find.
OnDisk(k) == IF Replayed(k) # 0 THEN Replayed(k) ELSE InManifestFiles(k)

Serving == mode \in {"up", "closing"}

\* The content of the engine: what get returns while it serves, and what it
\* is going to return when it does not.
View(k) == IF Serving THEN Live(GetLocked(k)) ELSE Live(OnDisk(k))

-----------------------------------------------------------------------------
(* Writes. *)

\* mutex_ can be taken: the only section modelled in several steps is the
\* removal loop of drop_table.
MutexFree == drop.pc # "removing"

\* Mutation: the segment is frozen without wal_->sync().
RotateWithoutSync(mt, recs) ==
    /\ walGen < MaxGen
    /\ walRecs' = [walRecs EXCEPT ![walGen] = recs]
    /\ immutables' = Append(immutables, [tab |-> mt, gen |-> walGen])
    /\ memtable' = EmptyTable
    /\ walGen' = walGen + 1
    /\ walFiles' = walFiles \cup {walGen + 1}
    /\ walDurable' = walDurable

\* rotate_memtable_if_needed: sync the segment, freeze the memtable with it,
\* open the next generation.
Rotate(mt, recs) ==
    /\ walGen < MaxGen
    /\ walRecs' = [walRecs EXCEPT ![walGen] = recs]
    /\ walDurable' = [walDurable EXCEPT ![walGen] = Len(recs)]
    /\ immutables' = Append(immutables, [tab |-> mt, gen |-> walGen])
    /\ memtable' = EmptyTable
    /\ walGen' = walGen + 1
    /\ walFiles' = walFiles \cup {walGen + 1}

KeepMemtable(mt, recs) ==
    /\ walRecs' = [walRecs EXCEPT ![walGen] = recs]
    /\ memtable' = mt
    /\ UNCHANGED <<walDurable, immutables, walGen, walFiles>>

\* append_only: a stream that has failed once takes no further record, and
\* the engine ignores the result.
LogOutcomes == IF walGen \in walBad THEN {FALSE}
               ELSE IF "wal" \in Faults THEN BOOLEAN ELSE {TRUE}

\* put_locked and remove_locked: append to the log, update the memtable,
\* rotate if it is full.
WriteLocked(k, del, seen) ==
    LET id == Len(hist) + 1
        mt == [memtable EXCEPT ![k] = id]
    IN  /\ Len(hist) < MaxWrites
        /\ hist' = Append(hist, [key |-> k, val |-> IF del THEN 0 ELSE id])
        /\ saw' = Append(saw, seen)
        /\ \E ok \in LogOutcomes :
              LET recs == IF ok THEN Append(walRecs[walGen], [key |-> k, id |-> id])
                          ELSE walRecs[walGen]
              IN  /\ walBad' = IF ok THEN walBad ELSE walBad \cup {walGen}
                  /\ IF Size(mt) < MemtableThreshold
                     THEN KeepMemtable(mt, recs)
                     ELSE Rotate(mt, recs)

\* Mutation: the ticket of the next write.
TicketOffByOne == [pc |-> "commit", gen |-> walGen, id |-> Len(hist) + 2]

\* The log segment a thread has to commit before its call returns.
Ticket == [pc |-> "commit", gen |-> walGen, id |-> Len(hist) + 1]

ClientWrite(w, k, del, seen) ==
    /\ mode = "up"
    /\ MutexFree
    /\ writer[w].pc = "idle"
    /\ WriteLocked(k, del, seen)
    /\ writer' = [writer EXCEPT ![w] = Ticket]
    /\ UNCHANGED <<sstVars, manifestDisk, mode, sstables, manifest, threadVars,
                   drop, acked, crashes>>

Put(w, k) == "put" \in Calls /\ ClientWrite(w, k, FALSE, -1)

Remove(w, k) == "remove" \in Calls /\ ClientWrite(w, k, TRUE, -1)

\* Mutation: mutate looks for the current item in the memtable only.
MutateFromMemtable(w, k, del) == "mutate" \in Calls /\ ClientWrite(w, k, del, Live(memtable[k]))

\* mutate whose mutator asks for Put or Delete; one that asks for None
\* changes nothing.
Mutate(w, k, del) == "mutate" \in Calls /\ ClientWrite(w, k, del, Live(GetLocked(k)))

\* Mutation: the call returns without commit().
AckWithoutCommit(w) ==
    /\ mode = "up"
    /\ writer[w].pc = "commit"
    /\ acked' = Max({acked, writer[w].id})
    /\ writer' = [writer EXCEPT ![w] = IdleWriter]
    /\ UNCHANGED <<walVars, sstVars, manifestDisk, mode, tableVars, sstables,
                   manifest, threadVars, drop, hist, saw, crashes>>

\* commit() of the segment the record went to, after mutex_ is released; the
\* call then returns to its client.
Commit(w) ==
    /\ mode = "up"
    /\ writer[w].pc = "commit"
    /\ walDurable' = [walDurable EXCEPT ![writer[w].gen] = Len(walRecs[writer[w].gen])]
    /\ acked' = Max({acked, writer[w].id})
    /\ writer' = [writer EXCEPT ![w] = IdleWriter]
    /\ UNCHANGED <<walFiles, walRecs, sstVars, manifestDisk, mode, tableVars,
                   sstables, manifest, threadVars, drop, hist, saw, crashes>>

-----------------------------------------------------------------------------
(* drop_table: rounds of one scan and one removal loop. *)

DropUnchanged == UNCHANGED <<sstVars, manifestDisk, mode, sstables, manifest,
                             threadVars, writer, crashes>>

DropStart ==
    /\ "drop" \in Calls
    /\ mode = "up"
    /\ drop.pc = "idle"
    /\ drop' = [IdleDrop EXCEPT !.pc = "scan", !.from = Len(hist)]
    /\ UNCHANGED <<walVars, tableVars, hist, saw, acked>>
    /\ DropUnchanged

\* Mutation: the scan reads the memtable only.
DroppableInMemtable == {k \in TableKeys : k > drop.cursor /\ Live(memtable[k]) # 0}

\* The live keys of the table after the cursor.
Droppable == {k \in TableKeys : k > drop.cursor /\ Live(GetLocked(k)) # 0}

\* The first keys a reader returns, at most memtable_flush_threshold_.
FirstKeys(S) == {k \in S : Cardinality({j \in S : j < k}) < MemtableThreshold}

DropScan ==
    /\ mode = "up"
    /\ drop.pc = "scan"
    /\ LET keys == FirstKeys(Droppable)
       IN  \/ keys = {} /\ drop' = IdleDrop
           \/ \E last \in keys :
                 /\ \A k \in keys : k <= last
                 /\ drop' = [drop EXCEPT !.pc = "lock", !.batch = keys, !.cursor = last]
    /\ UNCHANGED <<walVars, tableVars, hist, saw, acked>>
    /\ DropUnchanged

DropLock ==
    /\ mode = "up"
    /\ drop.pc = "lock"
    /\ drop' = [drop EXCEPT !.pc = "removing"]
    /\ UNCHANGED <<walVars, tableVars, hist, saw, acked>>
    /\ DropUnchanged

\* remove_locked of the next key of the batch; the last one releases mutex_.
DropRemove ==
    /\ mode = "up"
    /\ drop.pc = "removing"
    /\ LET k == Min(drop.batch)
           rest == drop.batch \ {k}
       IN  /\ WriteLocked(k, TRUE, -1)
           /\ drop' = [drop EXCEPT !.pc = IF rest = {} THEN "commit" ELSE "removing",
                                   !.batch = rest, !.gen = walGen, !.id = Len(hist) + 1]
    /\ acked' = acked
    /\ DropUnchanged

\* Only the segment of the last removal is committed.
DropCommit ==
    /\ mode = "up"
    /\ drop.pc = "commit"
    /\ walDurable' = [walDurable EXCEPT ![drop.gen] = Len(walRecs[drop.gen])]
    /\ acked' = Max({acked, drop.id})
    /\ drop' = [drop EXCEPT !.pc = "scan"]
    /\ UNCHANGED <<walFiles, walRecs, tableVars, hist, saw>>
    /\ DropUnchanged

-----------------------------------------------------------------------------
(* Files. *)

\* SSTableWriter: the file appears under its name whole, by rename, or not.
CreateSst(p, tab) ==
    /\ sstFiles' = sstFiles \cup {p}
    /\ sst' = [sst EXCEPT ![p] = tab]
    /\ \E t \in Tiers : tier' = [tier EXCEPT ![p] = t]

RemoveSst(p) ==
    /\ sstFiles' = sstFiles \ {p}
    /\ sst' = [sst EXCEPT ![p] = EmptyTable]
    /\ tier' = [tier EXCEPT ![p] = 0]

RemoveSegment(g) ==
    /\ walFiles' = walFiles \ {g}
    /\ walRecs' = [walRecs EXCEPT ![g] = <<>>]
    /\ walDurable' = [walDurable EXCEPT ![g] = 0]

\* next_sequence_, taken and advanced under mutex_ by both threads.
TakeSequence ==
    /\ MutexFree
    /\ manifest.next <= MaxSeq
    /\ manifest' = [manifest EXCEPT !.next = @ + 1]

\* Manifest::save replaces the file by rename.
SaveManifest == manifestDisk' = manifest'

-----------------------------------------------------------------------------
(* The flush thread: flush_memtable.  "wait" stands for the test of its    *)
(* loop and the wait on flush_cv_.                                         *)

FlushFrame ==
    UNCHANGED <<mode, memtable, walGen, walBad, clientVars, histVars, comp>>

FlushGoes(from, to) == Serving /\ flush.pc = from /\ flush' = [flush EXCEPT !.pc = to]

\* The loop begins again, unless the engine is shutting down.
FlushTop == IF mode = "closing" THEN "exited" ELSE "wait"

\* Mutation: the destructor does not notify flush_cv_.
FlushExitUnnotified ==
    /\ FALSE
    /\ FlushGoes("wait", "exited")
    /\ UNCHANGED <<diskVars, immutables, sstables, manifest, pending>>
    /\ FlushFrame

\* shutting_down_ seen by the loop's test or, with nothing to flush, after
\* the wait.
FlushExit ==
    /\ mode = "closing"
    /\ FlushGoes("wait", "exited")
    /\ UNCHANGED <<diskVars, immutables, sstables, manifest, pending>>
    /\ FlushFrame

\* Mutations: waiting for a second frozen memtable; deleting the segment in use.
FlushTakeOfTwo ==
    /\ Serving
    /\ flush.pc = "wait"
    /\ Len(immutables) > 1
    /\ TakeSequence
    /\ flush' = [pc |-> "write", gen |-> immutables[1].gen, seq |-> manifest.next]
    /\ UNCHANGED <<diskVars, immutables, sstables, pending>>
    /\ FlushFrame

FlushTakeActive ==
    /\ Serving
    /\ flush.pc = "wait"
    /\ immutables # <<>>
    /\ TakeSequence
    /\ flush' = [pc |-> "write", gen |-> walGen, seq |-> manifest.next]
    /\ UNCHANGED <<diskVars, immutables, sstables, pending>>
    /\ FlushFrame

\* Take the oldest frozen memtable, then a sequence number.
FlushTake ==
    /\ Serving
    /\ flush.pc = "wait"
    /\ immutables # <<>>
    /\ TakeSequence
    /\ flush' = [pc |-> "write", gen |-> immutables[1].gen, seq |-> manifest.next]
    /\ UNCHANGED <<diskVars, immutables, sstables, pending>>
    /\ FlushFrame

\* SSTable::create, without mutex_.
FlushWrite ==
    /\ FlushGoes("write", "publish")
    /\ CreateSst(flush.seq, immutables[1].tab)
    /\ UNCHANGED <<walVars, manifestDisk, immutables, sstables, manifest, pending>>
    /\ FlushFrame

\* It fails: sleep and retry with a new sequence number.
FlushWriteFails ==
    /\ "sst" \in Faults
    /\ FlushGoes("write", FlushTop)
    /\ UNCHANGED <<diskVars, immutables, sstables, manifest, pending>>
    /\ FlushFrame

\* Publish under mutex_: the manifest, sstables_, the end of the memtable,
\* and the flag for the compaction thread.
FlushPublish ==
    /\ MutexFree
    /\ FlushGoes("publish", "unlink")
    /\ manifest' = [manifest EXCEPT !.files = @ \cup {[path |-> flush.seq, seq |-> flush.seq]}]
    /\ SaveManifest
    /\ sstables' = <<flush.seq>> \o sstables
    /\ immutables' = Tail(immutables)
    /\ pending' = (pending \/ Len(sstables') >= Fanout)
    /\ UNCHANGED <<walVars, sstVars>>
    /\ FlushFrame

\* Mutation: the entry is left in the manifest of the process.
FlushPublishFailsKeepsEntry ==
    /\ "manifest" \in Faults
    /\ MutexFree
    /\ FlushGoes("publish", FlushTop)
    /\ manifest' = [manifest EXCEPT !.files = @ \cup {[path |-> flush.seq, seq |-> flush.seq]}]
    /\ RemoveSst(flush.seq)
    /\ UNCHANGED <<walVars, manifestDisk, immutables, sstables, pending>>
    /\ FlushFrame

\* The save fails: the file is taken out of the manifest and deleted.
FlushPublishFails ==
    /\ "manifest" \in Faults
    /\ MutexFree
    /\ FlushGoes("publish", FlushTop)
    /\ RemoveSst(flush.seq)
    /\ UNCHANGED <<walVars, manifestDisk, immutables, sstables, manifest, pending>>
    /\ FlushFrame

\* Delete the segment of the flushed memtable; a failure is ignored.
FlushUnlink ==
    /\ FlushGoes("unlink", FlushTop)
    /\ RemoveSegment(flush.gen) \/ ("unlink" \in Faults /\ UNCHANGED walVars)
    /\ UNCHANGED <<sstVars, manifestDisk, immutables, sstables, manifest, pending>>
    /\ FlushFrame

FlushStep ==
    \/ FlushExit \/ FlushTake \/ FlushWrite \/ FlushWriteFails
    \/ FlushPublish \/ FlushPublishFails \/ FlushUnlink

-----------------------------------------------------------------------------
(* The compaction thread: background_compaction and compact.  "select"     *)
(* stands for the test of shutting_down_ and the call of compact().        *)

CompFrame ==
    UNCHANGED <<walVars, mode, tableVars, clientVars, histVars, flush>>

CompTop == IF mode = "closing" THEN "exited" ELSE "wait"

\* compact() ends by an exception, or finds nothing to do.
CompGivesUp == comp' = [IdleComp EXCEPT !.pc = CompTop]

CompExit ==
    /\ mode = "closing"
    /\ comp.pc \in {"wait", "select"}
    /\ CompGivesUp
    /\ UNCHANGED <<sstVars, manifestDisk, sstables, manifest, pending>>
    /\ CompFrame

\* The wait on compaction_cv_ ends with the flag, which is cleared.
CompWake ==
    /\ mode = "up"
    /\ MutexFree
    /\ comp.pc = "wait"
    /\ pending
    /\ pending' = FALSE
    /\ comp' = [comp EXCEPT !.pc = "select"]
    /\ UNCHANGED <<sstVars, manifestDisk, sstables, manifest>>
    /\ CompFrame

\* First positions of the runs of Fanout adjacent tables of one tier.
Runs ==
    {i \in 1 .. Len(sstables) - Fanout + 1 :
        \A j \in i .. i + Fanout - 1 : tier[sstables[j]] = tier[sstables[i]]}

\* Mutation: inputs that are not adjacent.
SelectNewestWithOldest ==
    <<sstables[1]>> \o SubSeq(sstables, Len(sstables) - Fanout + 2, Len(sstables))

\* compact() takes the oldest run.
SelectedRun == SubSeq(sstables, Max(Runs), Max(Runs) + Fanout - 1)

SequenceNumber(path) == (CHOOSE f \in manifest.files : f.path = path).seq

\* Select the inputs and take a number for the output, under mutex_.
CompSelect ==
    /\ Serving
    /\ comp.pc = "select"
    /\ Runs # {}
    /\ TakeSequence
    /\ comp' = [pc |-> "merge", inputs |-> SelectedRun, full |-> Fanout = Len(sstables),
                seq |-> manifest.next, old |-> <<>>,
                logical |-> Max({SequenceNumber(p) : p \in Range(SelectedRun)})]
    /\ UNCHANGED <<sstVars, manifestDisk, sstables, pending>>
    /\ CompFrame

CompNothing ==
    /\ Serving
    /\ MutexFree
    /\ comp.pc = "select"
    /\ Runs = {}
    /\ CompGivesUp
    /\ UNCHANGED <<sstVars, manifestDisk, sstables, manifest, pending>>
    /\ CompFrame

\* Mutation: every merge drops its tombstones.
PurgeAlways(id, full) == IF Deleted(id) THEN 0 ELSE id

\* A tombstone is left out of the output only if the inputs were all there is.
Purge(id, full) == IF full /\ Deleted(id) THEN 0 ELSE id

\* The merge and SSTableWriter::finish, without mutex_.
CompMerge ==
    /\ Serving
    /\ comp.pc = "merge"
    /\ CreateSst(comp.seq, [k \in Keys |-> Purge(FirstEntry(comp.inputs, k), comp.full)])
    /\ comp' = [comp EXCEPT !.pc = "publish"]
    /\ UNCHANGED <<manifestDisk, sstables, manifest, pending>>
    /\ CompFrame

\* An exception: it is logged, and the thread waits for the next flag.
CompMergeFails ==
    /\ Serving
    /\ "sst" \in Faults
    /\ comp.pc = "merge"
    /\ CompGivesUp
    /\ UNCHANGED <<sstVars, manifestDisk, sstables, manifest, pending>>
    /\ CompFrame

\* The output takes the place of the inputs in sstables_.  They are adjacent:
\* selected so, and only push_front has changed the list since (RunIntact).
ReplaceRun(s, inputs, path) ==
    LET first == Min({i \in DOMAIN s : s[i] \in Range(inputs)})
    IN  SubSeq(s, 1, first - 1) \o <<path>> \o SubSeq(s, first + Len(inputs), Len(s))

\* Mutation: the output gets the number of its file.
PhysicalSequence == comp.seq

\* The sequence number the output gets: the highest of its inputs.
LogicalSequence == comp.logical

\* Publish under mutex_: the manifest swaps the inputs for the output.
CompPublish ==
    /\ Serving
    /\ MutexFree
    /\ comp.pc = "publish"
    /\ LET kept == {f \in manifest.files : f.path \notin Range(comp.inputs)}
           meta == [path |-> comp.seq, seq |-> LogicalSequence]
       IN  manifest' = [manifest EXCEPT !.files = kept \cup {meta}]
    /\ SaveManifest
    /\ sstables' = ReplaceRun(sstables, comp.inputs, comp.seq)
    /\ comp' = [IdleComp EXCEPT !.pc = "unlink", !.old = comp.inputs]
    /\ UNCHANGED <<sstVars, pending>>
    /\ CompFrame

\* The save fails: the manifest is put back and saved again, which may fail
\* as well; the output is deleted and an exception thrown.
CompPublishFails ==
    /\ Serving
    /\ "manifest" \in Faults
    /\ MutexFree
    /\ comp.pc = "publish"
    /\ manifestDisk' \in {manifestDisk, manifest}
    /\ RemoveSst(comp.seq)
    /\ CompGivesUp
    /\ UNCHANGED <<sstables, manifest, pending>>
    /\ CompFrame

\* Delete the inputs one by one (a failure leaves an orphan for the next
\* start), then look for another run.
CompUnlink ==
    /\ Serving
    /\ comp.pc = "unlink"
    /\ RemoveSst(comp.old[1]) \/ ("sst" \in Faults /\ UNCHANGED sstVars)
    /\ comp' = IF Len(comp.old) > 1 THEN [comp EXCEPT !.old = Tail(@)]
               ELSE [IdleComp EXCEPT !.pc = IF mode = "closing" THEN "exited" ELSE "select"]
    /\ UNCHANGED <<manifestDisk, sstables, manifest, pending>>
    /\ CompFrame

CompStep ==
    \/ CompExit \/ CompWake \/ CompSelect \/ CompNothing \/ CompMerge
    \/ CompMergeFails \/ CompPublish \/ CompPublishFails \/ CompUnlink

-----------------------------------------------------------------------------
(* Shutdown, crash and recovery. *)

\* All that lives in memory is gone.
MemoryGone ==
    /\ mode' = "down"
    /\ memtable' = EmptyTable
    /\ immutables' = <<>>
    /\ sstables' = <<>>
    /\ manifest' = NoFiles
    /\ walGen' = 0
    /\ walBad' = {}
    /\ pending' = FALSE
    /\ flush' = IdleFlush
    /\ comp' = IdleComp
    /\ writer' = [w \in Writers |-> IdleWriter]
    /\ drop' = IdleDrop
    /\ crashes' = crashes + 1

\* ~LsmEngine sets shutting_down_ under mutex_; no call is in progress.
ShutDown ==
    /\ "close" \in Calls
    /\ mode = "up"
    /\ crashes < MaxCrashes
    /\ \A w \in Writers : writer[w].pc = "idle"
    /\ drop.pc = "idle"
    /\ mode' = "closing"
    /\ UNCHANGED <<diskVars, tableVars, sstables, manifest, threadVars, clientVars, histVars>>

\* Both threads are joined; the manifest is saved, and ~WriteAheadLog syncs.
Close ==
    /\ mode = "closing"
    /\ flush.pc = "exited"
    /\ comp.pc = "exited"
    /\ \/ manifestDisk' = manifest
       \/ "manifest" \in Faults /\ manifestDisk' = manifestDisk
    /\ walDurable' = [g \in Gens |-> Len(walRecs[g])]
    /\ MemoryGone
    /\ UNCHANGED <<walFiles, walRecs, sstVars, hist, saw, acked>>

\* Of each segment a crash keeps the durable records and some of the rest.
\* (extra is shared by all segments; TailOnlyInActive makes that no loss.)
Kept(g, extra) == Min({Len(walRecs[g]), walDurable[g] + extra})

LostIds(extra) ==
    UNION {{walRecs[g][i].id : i \in Kept(g, extra) + 1 .. Len(walRecs[g])} : g \in walFiles}

\* The history loses what follows the first record that the logs have lost.
Surviving(extra) == Min({Len(hist)} \cup {i - 1 : i \in LostIds(extra)})

\* The process, or the machine, goes down at any point.
Crash ==
    /\ mode \notin {"down", "failed"}
    /\ crashes < MaxCrashes
    /\ \E extra \in Ids :
          /\ walRecs' = [g \in Gens |-> SubSeq(walRecs[g], 1, Kept(g, extra))]
          /\ walDurable' = [g \in Gens |-> Kept(g, extra)]
          /\ hist' = SubSeq(hist, 1, Surviving(extra))
          /\ saw' = SubSeq(saw, 1, Surviving(extra))
    /\ MemoryGone
    /\ UNCHANGED <<walFiles, sstVars, manifestDisk, acked>>

MissingFiles == {f \in manifestDisk.files : f.path \notin sstFiles}

\* std::sort by descending sequence number.
SortedFiles(files) ==
    {f \in [1 .. Cardinality(files) -> files] :
        Range(f) = files /\ \A i, j \in DOMAIN f : i < j => f[i].seq >= f[j].seq}

\* The constructor: Manifest::load, load_sstables_from_manifest.  A missing
\* file is an exception; SSTables the manifest does not name are deleted.
LoadSstables ==
    /\ mode = "down"
    /\ manifest' = manifestDisk
    /\ IF MissingFiles # {}
       THEN mode' = "failed" /\ UNCHANGED <<sstVars, sstables>>
       ELSE /\ mode' = "loaded"
            /\ \E f \in SortedFiles(manifestDisk.files) :
                  sstables' = [i \in DOMAIN f |-> f[i].path]
            /\ LET named == Paths(manifestDisk.files)
               IN  /\ sstFiles' = named
                   /\ sst' = [p \in Seqs |-> IF p \in named THEN sst[p] ELSE EmptyTable]
                   /\ tier' = [p \in Seqs |-> IF p \in named THEN tier[p] ELSE 0]
    /\ UNCHANGED <<walVars, manifestDisk, tableVars, threadVars, clientVars, histVars>>

\* recover_from_wal: replay every segment, open a fresh generation.
ReplayWal ==
    /\ mode = "loaded"
    /\ LET gen == IF walFiles = {} THEN 0 ELSE Max(walFiles) + 1
       IN  /\ gen <= MaxGen
           /\ walGen' = gen
           /\ walFiles' = walFiles \cup {gen}
    /\ memtable' = [k \in Keys |-> Replayed(k)]
    /\ mode' = "checkpoint"
    /\ UNCHANGED <<walRecs, walDurable, sstVars, manifestDisk, immutables, walBad,
                   sstables, manifest, threadVars, clientVars, histVars>>

\* recover_from_wal: append() of the next recovered entry, durable at once.
\* Its result is ignored: if the stream fails, the rest is not logged.
Unchecked ==
    {k \in Keys : memtable[k] # 0 /\ \A i \in DOMAIN walRecs[walGen] : walRecs[walGen][i].key # k}

CheckpointEntry ==
    /\ mode = "checkpoint"
    /\ Unchecked # {}
    /\ walGen \notin walBad
    /\ \E ok \in LogOutcomes :
          LET k == Min(Unchecked)
              recs == IF ok THEN Append(walRecs[walGen], [key |-> k, id |-> memtable[k]])
                      ELSE walRecs[walGen]
          IN  /\ walRecs' = [walRecs EXCEPT ![walGen] = recs]
              /\ walDurable' = [walDurable EXCEPT ![walGen] = Len(recs)]
              /\ walBad' = IF ok THEN walBad ELSE walBad \cup {walGen}
    /\ UNCHANGED <<walFiles, sstVars, manifestDisk, mode, memtable, immutables, walGen,
                   sstables, manifest, threadVars, clientVars, histVars>>

\* Mutation: the old segments go too early, or wait for keys that nobody wrote.
CheckpointDoneEarly == mode = "checkpoint"

CheckpointOfEveryKey == mode = "checkpoint" /\ Len(walRecs[walGen]) = Cardinality(Keys)

\* The old segments go only once the loop over the entries has ended.
CheckpointDone == mode = "checkpoint" /\ (Unchecked = {} \/ walGen \in walBad)

FinishCheckpoint ==
    /\ CheckpointDone
    /\ mode' = "discard"
    /\ UNCHANGED <<diskVars, tableVars, sstables, manifest, threadVars, clientVars, histVars>>

OldSegments == walFiles \ {walGen}

\* recover_from_wal: delete the old segments, oldest first; the loop passes
\* over those it cannot delete.
DiscardSegment ==
    /\ mode = "discard"
    /\ \E g \in OldSegments :
          /\ g = Min(OldSegments) \/ "unlink" \in Faults
          /\ RemoveSegment(g)
    /\ UNCHANGED <<sstVars, manifestDisk, mode, tableVars, sstables, manifest,
                   threadVars, clientVars, histVars>>

\* The constructor starts both threads.
Start ==
    /\ mode = "discard"
    /\ OldSegments = {} \/ "unlink" \in Faults
    /\ mode' = "up"
    /\ flush' = [IdleFlush EXCEPT !.pc = "wait"]
    /\ comp' = [IdleComp EXCEPT !.pc = "wait"]
    /\ UNCHANGED <<diskVars, tableVars, sstables, manifest, pending, clientVars, histVars>>

RecoveryStep ==
    LoadSstables \/ ReplayWal \/ CheckpointEntry \/ FinishCheckpoint \/ DiscardSegment \/ Start

-----------------------------------------------------------------------------
(* The specification.  The first start finds an empty directory. *)

Init ==
    /\ walFiles = {}
    /\ walRecs = [g \in Gens |-> <<>>]
    /\ walDurable = [g \in Gens |-> 0]
    /\ sstFiles = {}
    /\ sst = [p \in Seqs |-> EmptyTable]
    /\ tier = [p \in Seqs |-> 0]
    /\ manifestDisk = NoFiles
    /\ mode = "down"
    /\ memtable = EmptyTable
    /\ immutables = <<>>
    /\ sstables = <<>>
    /\ manifest = NoFiles
    /\ walGen = 0
    /\ walBad = {}
    /\ pending = FALSE
    /\ flush = IdleFlush
    /\ comp = IdleComp
    /\ writer = [w \in Writers |-> IdleWriter]
    /\ drop = IdleDrop
    /\ hist = <<>>
    /\ saw = <<>>
    /\ acked = 0
    /\ crashes = 0

WriterStep(w) ==
    \/ \E k \in Keys : Put(w, k) \/ Remove(w, k)
    \/ \E k \in Keys, del \in BOOLEAN : Mutate(w, k, del)
    \/ Commit(w)

DropStep == DropStart \/ DropScan \/ DropLock \/ DropRemove \/ DropCommit

Next ==
    \/ \E w \in Writers : WriterStep(w)
    \/ DropStep
    \/ FlushStep
    \/ CompStep
    \/ ShutDown
    \/ Close
    \/ Crash
    \/ RecoveryStep

Spec == Init /\ [][Next]_vars

\* Threads that can run are scheduled, and an engine that is down is started.
FairSpec ==
    /\ Spec
    /\ WF_vars(FlushStep) /\ WF_vars(CompStep)
    /\ WF_vars(RecoveryStep) /\ WF_vars(Close)
    /\ \A w \in Writers : WF_vars(Commit(w))

-----------------------------------------------------------------------------
(* Properties. *)

\* Every variable has its type.
TypeOK ==
    /\ walFiles \subseteq Gens
    /\ walRecs \in [Gens -> Seq(Record)]
    /\ walDurable \in [Gens -> Nat]
    /\ sstFiles \subseteq Seqs
    /\ sst \in [Seqs -> Table]
    /\ tier \in [Seqs -> Nat]
    /\ manifestDisk \in ManifestContent
    /\ mode \in {"down", "failed", "loaded", "checkpoint", "discard", "up", "closing"}
    /\ memtable \in Table
    /\ immutables \in Seq([tab : Table, gen : Gens])
    /\ sstables \in Seq(Seqs)
    /\ manifest \in ManifestContent
    /\ walGen \in Gens
    /\ walBad \subseteq Gens
    /\ pending \in BOOLEAN
    /\ flush \in [pc : {"wait", "write", "publish", "unlink", "exited"},
                  gen : Gens, seq : Seqs]
    /\ comp \in [pc : {"wait", "select", "merge", "publish", "unlink", "exited"},
                 inputs : Seq(Seqs), full : BOOLEAN, seq : Seqs, logical : Seqs,
                 old : Seq(Seqs)]
    /\ writer \in [Writers -> [pc : {"idle", "commit"}, gen : Gens, id : Ids]]
    /\ drop \in [pc : {"idle", "scan", "lock", "removing", "commit"}, cursor : Keys \cup {-1},
                 batch : SUBSET TableKeys, from : Ids, gen : Gens, id : Ids]
    /\ hist \in Seq([key : Keys, val : Ids])
    /\ Len(hist) <= MaxWrites
    /\ saw \in Seq(Ids \cup {-1})
    /\ Len(saw) = Len(hist)
    /\ acked \in Ids
    /\ crashes \in 0 .. MaxCrashes

LastWrite(k) ==
    LET writes == {i \in DOMAIN hist : hist[i].key = k}
    IN  IF writes = {} THEN 0 ELSE Max(writes)

\* The engine is one map: whatever the memtables, files and logs an item is
\* spread over, get returns the last write of its key; and while the engine
\* is down, or anywhere in its recovery, the disk holds exactly that.
ReadsSeeLastWrite == \A k \in Keys : View(k) = Live(LastWrite(k))

\* put (lsm_engine.cpp:494): an acknowledged write is durable.  A crash never
\* shortens the history to less than what has been acknowledged.
AckedWritesSurvive == acked <= Len(hist)

\* The same promise per key, of what a read returns: the content of a key is
\* what its last acknowledged write left, or what a later write did.
AckedWritesReadable ==
    \A k \in Keys :
        LET ackedWrite == Max({0} \cup {i \in DOMAIN hist : i <= acked /\ hist[i].key = k})
        IN  \/ View(k) = Live(ackedWrite)
            \/ \E i \in DOMAIN hist : i > acked /\ hist[i].key = k /\ View(k) = Live(i)

\* mutate (storage_engine.hpp:61): the value the mutator decided on is the
\* one its write replaces; no write of another thread comes in between.
MutateIsAtomic ==
    \A i \in DOMAIN hist :
        saw[i] # -1 =>
            LET earlier == {j \in 1 .. i - 1 : hist[j].key = hist[i].key}
            IN  saw[i] = IF earlier = {} THEN 0 ELSE Live(Max(earlier))

\* The constructor never throws "manifest references missing SSTable": at
\* every instant the saved manifest names files that exist.
ManifestFilesExist == \A f \in manifestDisk.files : f.path \in sstFiles

\* sstables_ is in the order of the sequence numbers a restart sorts by, and
\* holds the files of the manifest: the order of precedence survives.
RestartKeepsOrder ==
    Serving =>
        /\ Range(sstables) = Paths(manifest.files)
        /\ \A i, j \in DOMAIN sstables :
              i < j => SequenceNumber(sstables[i]) > SequenceNumber(sstables[j])

\* From selection to publication the inputs of a compaction stay adjacent in
\* sstables_, whatever is flushed meanwhile.
RunIntact ==
    comp.pc \in {"merge", "publish"} =>
        \E i \in 1 .. Len(sstables) - Len(comp.inputs) + 1 :
            SubSeq(sstables, i, i + Len(comp.inputs) - 1) = comp.inputs

\* Only the segment in use has records that are not durable.
TailOnlyInActive ==
    \A g \in walFiles : Len(walRecs[g]) > walDurable[g] => mode \in {"up", "closing"} /\ g = walGen

\* While the engine serves there is one segment for the memtable, one for
\* each frozen memtable, and the one being deleted: no log is missing and
\* none outlives its data (recover_from_wal: "exactly one WAL segment exists
\* and fully describes the live memtable").
SegmentsMatchMemtables ==
    Serving =>
        walFiles = {walGen} \cup {immutables[i].gen : i \in DOMAIN immutables}
                       \cup (IF flush.pc = "unlink" THEN {flush.gen} ELSE {})

\* drop_table (storage_engine.hpp:67): a key of the table that is live when
\* the call returns was written after the call began.
DropEmptiesTable ==
    [][drop.pc = "scan" /\ drop'.pc = "idle" /\ mode' = "up" =>
          \A k \in TableKeys : View(k) # 0 => LastWrite(k) > drop.from]_vars

\* A frozen memtable reaches an SSTable, so that its segment can go, unless
\* the engine stops first.
FrozenGetsFlushed == immutables # <<>> ~> (immutables = <<>> \/ mode # "up")

\* ~LsmEngine returns: both threads see shutting_down_ and are joined.
ShutdownCompletes == mode = "closing" ~> mode # "closing"

\* The constructor returns, whatever a crash left on disk.
RecoveryCompletes == mode = "down" ~> mode = "up"

\* Seen from outside, the engine is a StorageEngine that a restart shortens
\* by unacknowledged writes only.
Contents == [k \in Keys |-> View(k)]

Abstract == INSTANCE StorageEngine WITH
    Values <- 1 .. MaxWrites,
    Absent <- 0,
    store <- Contents,
    history <- hist

RefinesStorageEngine == Abstract!Spec

=============================================================================
