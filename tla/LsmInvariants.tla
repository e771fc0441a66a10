---------------------------- MODULE LsmInvariants ----------------------------
(***************************************************************************)
(* The inductive invariants of LsmEngine.                                  *)
(*                                                                         *)
(* IInv is about files and numbers: what the flush thread and the          *)
(* compaction thread may rely on between two sections under mutex_, the    *)
(* number each holds being fresh and what the other one publishes leaving  *)
(* its own inputs and outputs alone.  It holds whatever fails.             *)
(*                                                                         *)
(* CInv is about content: which writes the logs and the files hold, that a *)
(* newer place never holds an older write, and that together they hold the *)
(* last write of every key, of the present history and of every shorter    *)
(* one that a crash could leave.  It needs logs that take every record and *)
(* segments that can be deleted (LogsReliable).                            *)
(***************************************************************************)
EXTENDS LsmEngine

\* The manifest in memory and the one on disk: distinct files, distinct
\* sequence numbers, all below the next one, and every file exists.
ManifestInv(m) ==
    /\ \A f \in m.files : f.path \in sstFiles /\ f.path < m.next /\ f.seq < m.next
    /\ \A f, g \in m.files : f # g => f.path # g.path /\ f.seq # g.seq

\* sstables_ lists the files of the manifest once each, newest first.
TablesInv ==
    /\ Range(sstables) = Paths(manifest.files)
    /\ \A i, j \in DOMAIN sstables : i # j => sstables[i] # sstables[j]
    /\ \A i, j \in DOMAIN sstables : \A f, g \in manifest.files :
          i < j /\ f.path = sstables[i] /\ g.path = sstables[j] => f.seq > g.seq

\* No manifest names file p, and p will not be handed out again.
Unnamed(p) ==
    /\ p < manifest.next
    /\ p \notin Paths(manifest.files)
    /\ p \notin Paths(manifestDisk.files)

FlushBusy == flush.pc \in {"write", "publish"}
CompBusy == comp.pc \in {"merge", "publish"}

\* The flush thread between taking a number and publishing the file.
FlushInv ==
    /\ FlushBusy => /\ Serving
                    /\ immutables # <<>>
                    /\ Unnamed(flush.seq)
                    /\ \A f \in manifest.files : f.seq < flush.seq
    /\ flush.pc = "publish" => flush.seq \in sstFiles

\* The inputs of the compaction stand at position i of sstables_.
RunAt(i) ==
    /\ i + Len(comp.inputs) - 1 <= Len(sstables)
    /\ \A j \in 1 .. Len(comp.inputs) : sstables[i + j - 1] = comp.inputs[j]

\* The compaction thread between selecting its inputs and deleting them.
CompInv ==
    /\ CompBusy => /\ Serving
                   /\ Unnamed(comp.seq)
                   /\ FlushBusy => comp.seq # flush.seq
                   /\ Len(comp.inputs) = Fanout
                   /\ \E i \in 1 .. Len(sstables) : RunAt(i)
                   /\ [path |-> comp.inputs[1], seq |-> comp.logical] \in manifest.files
    /\ comp.pc = "publish" => comp.seq \in sstFiles
    /\ comp.pc = "unlink" =>
          /\ Serving
          /\ comp.old # <<>>
          /\ \A j \in DOMAIN comp.old :
                Unnamed(comp.old[j]) /\ (FlushBusy => comp.old[j] # flush.seq)

\* The life of the engine.
ModeInv ==
    /\ mode # "failed"
    /\ mode = "down" => manifest = NoFiles /\ sstables = <<>>
    /\ mode # "down" => manifestDisk.next <= manifest.next
    /\ mode = "closing" => crashes < MaxCrashes
    /\ drop.pc \in {"lock", "removing"} => drop.batch # {}

FilesInv ==
    /\ ManifestInv(manifestDisk)
    /\ ManifestInv(manifest)
    /\ TablesInv
    /\ FlushInv
    /\ CompInv
    /\ ModeInv

IInv == TypeOK /\ FilesInv

-----------------------------------------------------------------------------
(* TypeOK in four parts, so that an action needs only those it touches. *)

TypeLog ==
    /\ walFiles \subseteq Gens
    /\ walRecs \in [Gens -> Seq(Record)]
    /\ walDurable \in [Gens -> Nat]
    /\ memtable \in Table
    /\ immutables \in Seq([tab : Table, gen : Gens])
    /\ walGen \in Gens
    /\ walBad \subseteq Gens

TypeClients ==
    /\ writer \in [Writers -> [pc : {"idle", "commit"}, gen : Gens, id : Ids]]
    /\ drop \in [pc : {"idle", "scan", "lock", "removing", "commit"}, cursor : Keys \cup {-1},
                 batch : SUBSET TableKeys, from : Ids, gen : Gens, id : Ids]
    /\ hist \in Seq([key : Keys, val : Ids])
    /\ Len(hist) <= MaxWrites
    /\ saw \in Seq(Ids \cup {-1})
    /\ Len(saw) = Len(hist)
    /\ acked \in Ids
    /\ crashes \in 0 .. MaxCrashes

TypeTables ==
    /\ sstFiles \subseteq Seqs
    /\ sst \in [Seqs -> Table]
    /\ tier \in [Seqs -> Nat]

TypeManifest ==
    /\ manifestDisk \in ManifestContent
    /\ mode \in {"down", "failed", "loaded", "checkpoint", "discard", "up", "closing"}
    /\ sstables \in Seq(Seqs)
    /\ manifest \in ManifestContent
    /\ pending \in BOOLEAN
    /\ flush \in [pc : {"wait", "write", "publish", "unlink", "exited"},
                  gen : Gens, seq : Seqs]
    /\ comp \in [pc : {"wait", "select", "merge", "publish", "unlink", "exited"},
                 inputs : Seq(Seqs), full : BOOLEAN, seq : Seqs, logical : Seqs,
                 old : Seq(Seqs)]

-----------------------------------------------------------------------------
(* The content of the engine. *)

\* No append to a log fails, and no segment resists its deletion.
LogsReliable == "wal" \notin Faults /\ "unlink" \notin Faults

\* Write id is a write of k; it is the last one among the first n.
WriteOf(k, id) == id \in DOMAIN hist /\ hist[id].key = k
LastOf(k, id, n) == WriteOf(k, id) /\ id <= n /\ \A j \in id + 1 .. n : hist[j].key # k

\* Segment g has a record of write id of k; a file of the manifest holds it.
Rec(g, k, id) == \E i \in DOMAIN walRecs[g] : walRecs[g][i].key = k /\ walRecs[g][i].id = id
InFile(k, id) == id # 0 /\ \E f \in manifestDisk.files : sst[f.path][k] = id

\* The segments that are still needed: not the one flush_memtable deletes.
LiveLogs == {g \in walFiles : ~(flush.pc = "unlink" /\ g = flush.gen)}

Entry(k, id) == InFile(k, id) \/ \E g \in LiveLogs : Rec(g, k, id)

\* The writes that no crash can take: all but those in the tail of the
\* segment in use.
Durable == Len(hist) - Len(walRecs[walGen]) + walDurable[walGen]

LogsOpen == mode \in {"checkpoint", "discard", "up", "closing"}

\* Which segments exist, and how much of them is on stable storage.
SegmentsInv ==
    /\ walBad = {}
    /\ \A g \in Gens : walDurable[g] <= Len(walRecs[g])
    /\ \A g \in Gens : (Serving /\ g = walGen) \/ walDurable[g] = Len(walRecs[g])
    /\ \A g \in Gens \ walFiles : walRecs[g] = <<>>
    /\ LogsOpen => walGen \in walFiles /\ \A g \in walFiles : g <= walGen

\* Records name writes of their key; the tail of the segment in use is the
\* end of the history, in order, and nothing else is from there.
RecordsInv ==
    /\ \A g \in walFiles, k \in Keys, id \in Ids : Rec(g, k, id) => WriteOf(k, id)
    /\ \A g \in walFiles : \A i \in 1 .. walDurable[g] : walRecs[g][i].id <= Durable
    /\ \A i \in walDurable[walGen] + 1 .. Len(walRecs[walGen]) :
          walRecs[walGen][i].id = Len(hist) - Len(walRecs[walGen]) + i

\* In a segment, and from one segment to the next, writes get newer.
RecordOrder ==
    /\ \A g \in walFiles : \A i, j \in DOMAIN walRecs[g] :
          i < j /\ walRecs[g][i].key = walRecs[g][j].key => walRecs[g][i].id <= walRecs[g][j].id
    /\ \A g, h \in walFiles, k \in Keys, d, e \in Ids :
          g < h /\ Rec(g, k, d) /\ Rec(h, k, e) => d <= e

\* The files hold durable writes, newer ones under higher sequence numbers.
FilesHold ==
    /\ \A f \in manifestDisk.files, k \in Keys :
          sst[f.path][k] # 0 => WriteOf(k, sst[f.path][k]) /\ sst[f.path][k] <= Durable
    /\ \A f, g \in manifestDisk.files, k \in Keys :
          f.seq > g.seq /\ sst[f.path][k] # 0 => sst[f.path][k] >= sst[g.path][k]
    /\ mode # "down" => manifest.files = manifestDisk.files

\* What a segment has of a key is as new as what the files have of it.
LogsOverFiles ==
    /\ \A g \in walFiles, k \in Keys, d, e \in Ids :
          Rec(g, k, d) /\ InFile(k, e) => \E c \in Ids : Rec(g, k, c) /\ c >= e
    /\ LogsOpen => \A k \in Keys, d, e \in Ids : Rec(walGen, k, d) /\ InFile(k, e) => d >= e

\* However long the history is that a crash leaves, the last write of a key
\* is there, or was a removal and nothing of the key is.
Covered ==
    \A k \in Keys, id \in Ids : \A n \in Durable .. Len(hist) :
        LastOf(k, id, n) =>
            \/ Entry(k, id)
            \/ hist[id].val = 0 /\ \A e \in Ids : Entry(k, e) => e > n

\* The segment about to be deleted brings nothing back if a crash keeps it.
UnlinkCovered ==
    flush.pc = "unlink" =>
        \A k \in Keys, id, d \in Ids : \A n \in Durable .. Len(hist) :
            LastOf(k, id, n) /\ Rec(flush.gen, k, d) => Entry(k, id) \/ Rec(flush.gen, k, id)

DiskInv ==
    /\ SegmentsInv
    /\ RecordsInv
    /\ RecordOrder
    /\ FilesHold
    /\ LogsOverFiles
    /\ Covered
    /\ UnlinkCovered

\* tab is what replaying segment g leaves.
Holds(tab, g) ==
    \A k \in Keys :
        /\ tab[k] # 0 => Rec(g, k, tab[k])
        /\ \A id \in Ids : Rec(g, k, id) => id <= tab[k]

\* While the engine serves, memtables and segments match.
MemtablesInv ==
    Serving =>
        /\ Holds(memtable, walGen)
        /\ \A i \in DOMAIN immutables :
              /\ Holds(immutables[i].tab, immutables[i].gen)
              /\ immutables[i].gen \in walFiles
              /\ immutables[i].gen < walGen
        /\ \A i, j \in DOMAIN immutables : i < j => immutables[i].gen < immutables[j].gen
        /\ SegmentsMatchMemtables

\* While it recovers, the memtable is what the segments hold.
RecoveryInv ==
    /\ ~Serving => immutables = <<>> /\ flush.pc = "exited" /\ comp.pc = "exited"
    /\ mode \in {"down", "loaded"} => walGen = 0
    /\ mode \in {"checkpoint", "discard"} =>
          \A k \in Keys :
              /\ memtable[k] # 0 => \E g \in walFiles : Rec(g, k, memtable[k])
              /\ \A g \in walFiles, id \in Ids : Rec(g, k, id) => id <= memtable[k]
    /\ mode = "discard" => \A k \in Keys : memtable[k] # 0 => Rec(walGen, k, memtable[k])

\* The flush thread: its memtable is the oldest, and its segment the oldest.
FlushContent ==
    /\ FlushBusy => flush.gen = immutables[1].gen
    /\ flush.pc = "publish" => sst[flush.seq] = immutables[1].tab
    /\ flush.pc = "unlink" =>
          /\ flush.gen \in walFiles
          /\ flush.gen < walGen
          /\ \A i \in DOMAIN immutables : flush.gen < immutables[i].gen

\* The output has of each key the newest write of the inputs, unless that is
\* a removal and the inputs were the oldest tables there are.
MergedFrom(inputs, full, out) ==
    \A k \in Keys :
        \/ /\ out[k] # 0 => \E j \in DOMAIN inputs : sst[inputs[j]][k] = out[k]
           /\ \A j \in DOMAIN inputs : sst[inputs[j]][k] <= out[k]
        \/ /\ full /\ out[k] = 0
           /\ \E j \in DOMAIN inputs :
                 /\ Deleted(sst[inputs[j]][k])
                 /\ \A i \in DOMAIN inputs : sst[inputs[i]][k] <= sst[inputs[j]][k]

CompContent ==
    /\ CompBusy /\ comp.full => \E i \in 1 .. Len(sstables) : RunAt(i) /\ i + Fanout - 1 = Len(sstables)
    /\ comp.pc = "publish" => MergedFrom(comp.inputs, comp.full, sst[comp.seq])

\* What has been acknowledged is durable, and what is about to be will be.
AckInv ==
    /\ acked <= Durable
    /\ \A w \in Writers : writer[w].pc = "commit" =>
          writer[w].id <= Len(hist) /\ (writer[w].gen # walGen => writer[w].id <= Durable)
    /\ drop.pc = "commit" =>
          drop.id <= Len(hist) /\ (drop.gen # walGen => drop.id <= Durable)

CInv ==
    /\ DiskInv
    /\ MemtablesInv
    /\ RecoveryInv
    /\ FlushContent
    /\ CompContent
    /\ AckInv

\* drop_table: of the keys behind its cursor, those it has removed, or need
\* not, are gone unless they were written again after the call began.
DropInv ==
    /\ drop.pc \in {"scan", "commit"} => drop.batch = {}
    /\ drop.pc # "idle" =>
          /\ drop.from <= Len(hist)
          /\ \A k \in TableKeys :
                k <= drop.cursor /\ k \notin drop.batch =>
                    Live(LastWrite(k)) = 0 \/ LastWrite(k) > drop.from

=============================================================================
