-------------------------- MODULE LsmRestartProofs ---------------------------
(***************************************************************************)
(* The compaction thread of LsmEngine, shutdown, crashes and recovery      *)
(* preserve CInv, the invariant about which writes the memtables, the logs *)
(* and the files hold.                                                     *)
(* Every lemma takes IInv before and after the step as given, which        *)
(* LsmEngineProofs shows, and that logs take every record and can be       *)
(* deleted.                                                                *)
(***************************************************************************)
EXTENDS LsmFacts

\* A leaf that names no prover is for Zenon; those with arithmetic name SMT.
USE Zenon

-----------------------------------------------------------------------------
(* The compaction thread. *)

\* The steps of the compaction thread that leave the named files alone.
LEMMA CompQuietCInv ==
    ASSUME IInv, CInv, CompFrame, Serving,
           manifestDisk'.files = manifestDisk.files, manifest'.files = manifest.files,
           CompContent',
           \A f \in manifestDisk.files : sst'[f.path] = sst[f.path],
           flush.pc = "publish" => sst'[flush.seq] = sst[flush.seq]
    PROVE  CInv'
<1>1. UNCHANGED <<walFiles, walRecs, walDurable, walGen, walBad, memtable, immutables, hist, acked,
                  mode, flush, writer, drop>>
  BY DEF CompFrame, walVars, tableVars, clientVars, histVars
<1>2. Serving' /\ (LogsOpen' <=> LogsOpen)
  BY <1>1 DEF Serving, LogsOpen
<1>3. DiskInv'
  <2>1. mode' # "down" => manifest'.files = manifestDisk.files
    BY <1>1 DEF CInv, DiskInv, FilesHold
  <2> QED
    BY <1>1, <1>2, <2>1, DiskFrame DEF CInv, walVars
<1>4. MemtablesInv'
  BY <1>1, <1>2, MemtablesFrame DEF CInv
<1>5. FlushContent'
  BY <1>1, FlushContentFrame DEF CInv
<1>6. RecoveryInv'
  BY <1>1, <1>2 DEF RecoveryInv, Serving
<1>7. AckInv'
  <2>1. Durable' = Durable
    BY <1>1 DEF Durable
  <2> QED
    BY <1>1, <2>1 DEF CInv, AckInv
<1> QED
  BY <1>3, <1>4, <1>5, <1>6, <1>7 DEF CInv

\* CompExit, CompWake, CompNothing and CompMergeFails.
LEMMA CompMoveCInv ==
    ASSUME IInv, CInv, CompExit \/ CompWake \/ CompNothing \/ CompMergeFails
    PROVE  CInv'
<1>1. CompFrame /\ Serving /\ UNCHANGED <<sst, manifestDisk, manifest>>
  BY DEF CompExit, CompWake, CompNothing, CompMergeFails, Serving, sstVars
<1>2. comp'.pc \in {"wait", "select", "exited"}
  <2>1. comp \in [pc : {"wait", "select", "merge", "publish", "unlink", "exited"},
                  inputs : Seq(Seqs), full : BOOLEAN, seq : Seqs, logical : Seqs, old : Seq(Seqs)]
    BY DEF IInv, TypeOK
  <2>2. CASE CompWake
    BY <2>1, <2>2 DEF CompWake
  <2>3. CASE CompExit \/ CompNothing \/ CompMergeFails
    BY <2>3 DEF CompExit, CompNothing, CompMergeFails, CompGivesUp, CompTop, IdleComp
  <2> QED
    BY <2>2, <2>3
<1>3. CompContent'
  BY <1>2 DEF CompContent, CompBusy
<1> QED
  BY <1>1, <1>3, CompQuietCInv

\* Selecting a run: one as long as the list is the whole list.
LEMMA CompSelectCInv ==
    ASSUME IInv, IInv', CInv, CompSelect
    PROVE  CInv'
<1>1. /\ CompFrame /\ Serving /\ UNCHANGED <<sst, manifestDisk, sstables>>
      /\ comp'.pc = "merge" /\ (comp'.full => Fanout = Len(sstables))
  BY DEF CompSelect, sstVars
<1>2. manifest'.files = manifest.files
  BY DEF CompSelect, TakeSequence, IInv, TypeOK, ManifestContent
<1>3. CompContent'
  <2>1. SUFFICES ASSUME comp'.full
                 PROVE  \E i \in 1 .. Len(sstables') : RunAt(i)' /\ i + Fanout - 1 = Len(sstables')
    BY <1>1 DEF CompContent
  <2>2. Len(sstables') = Fanout /\ Fanout \in Nat
    BY <1>1, <2>1, SizesAssumption
  <2>3. PICK i \in 1 .. Len(sstables') : RunAt(i)'
    BY <1>1 DEF IInv, FilesInv, CompInv, CompBusy
  <2>4. i + Fanout - 1 <= Len(sstables')
    BY <1>1, <2>3 DEF IInv, FilesInv, CompInv, CompBusy, RunAt
  <2>5. i + Fanout - 1 = Len(sstables')
    BY <2>2, <2>3, <2>4, SMT
  <2> QED
    BY <2>3, <2>5
<1> QED
  BY <1>1, <1>2, <1>3, CompQuietCInv

\* A file no manifest names is deleted: the output after a failed save, or
\* an input after the publish.
LEMMA CompRemoveCInv ==
    ASSUME IInv, CInv, CompPublishFails \/ CompUnlink
    PROVE  CInv'
<1>1. CompFrame /\ Serving /\ manifest' = manifest
  BY DEF CompPublishFails, CompUnlink
<1>2. manifestDisk'.files = manifestDisk.files
  <2>1. manifestDisk.files = manifest.files
    BY <1>1 DEF CInv, DiskInv, FilesHold, Serving
  <2> QED
    BY <2>1 DEF CompPublishFails, CompUnlink
<1>3. ~CompBusy'
  <2>1. comp \in [pc : {"wait", "select", "merge", "publish", "unlink", "exited"},
                  inputs : Seq(Seqs), full : BOOLEAN, seq : Seqs, logical : Seqs, old : Seq(Seqs)]
    BY DEF IInv, TypeOK
  <2>2. CASE CompPublishFails
    BY <2>2 DEF CompPublishFails, CompGivesUp, CompTop, IdleComp, CompBusy
  <2>3. CASE CompUnlink
    <3>1. comp'.pc \in {"unlink", "exited", "select"}
      BY <2>1, <2>3 DEF CompUnlink, IdleComp
    <3> QED
      BY <3>1 DEF CompBusy
  <2> QED
    BY <2>2, <2>3
<1>4. /\ \A f \in manifestDisk.files : sst'[f.path] = sst[f.path]
      /\ flush.pc = "publish" => sst'[flush.seq] = sst[flush.seq]
  <2>1. \/ sst' = sst
        \/ \E p \in Seqs : /\ Unnamed(p) /\ (FlushBusy => p # flush.seq)
                           /\ sst' = [sst EXCEPT ![p] = EmptyTable]
    <3>1. CASE CompPublishFails
      <4>1. comp.seq \in Seqs /\ CompBusy /\ sst' = [sst EXCEPT ![comp.seq] = EmptyTable]
        BY <3>1 DEF CompPublishFails, CompBusy, RemoveSst, IInv, TypeOK
      <4> QED
        BY <4>1 DEF IInv, FilesInv, CompInv
    <3>2. CASE CompUnlink
      <4>1. comp.pc = "unlink" /\ comp.old # <<>> /\ comp.old \in Seq(Seqs)
        BY <3>2 DEF CompUnlink, IInv, TypeOK, FilesInv, CompInv
      <4>2. comp.old[1] \in Seqs /\ 1 \in DOMAIN comp.old
        BY <4>1, SMT
      <4>3. Unnamed(comp.old[1]) /\ (FlushBusy => comp.old[1] # flush.seq)
        BY <4>1, <4>2 DEF IInv, FilesInv, CompInv
      <4>4. sst' = sst \/ sst' = [sst EXCEPT ![comp.old[1]] = EmptyTable]
        BY <3>2 DEF CompUnlink, RemoveSst, sstVars
      <4> QED
        BY <4>2, <4>3, <4>4
    <3> QED
      BY <3>1, <3>2
  <2>2. ASSUME NEW p \in Seqs, Unnamed(p), FlushBusy => p # flush.seq, sst' = [sst EXCEPT ![p] = EmptyTable]
        PROVE  /\ \A f \in manifestDisk.files : sst'[f.path] = sst[f.path]
               /\ flush.pc = "publish" => sst'[flush.seq] = sst[flush.seq]
    <3>1. /\ \A f \in manifestDisk.files : sst'[f.path] = sst[f.path]
          /\ \A q \in Seqs : q # p => sst'[q] = sst[q]
      BY <2>2, UnnamedSst
    <3>2. flush.seq \in Seqs
      BY DEF IInv, TypeOK
    <3> QED
      BY <2>2, <3>1, <3>2 DEF FlushBusy
  <2> QED
    BY <2>1, <2>2
<1>5. CompContent'
  BY <1>3 DEF CompContent, CompBusy
<1> QED
  BY <1>1, <1>2, <1>4, <1>5, CompQuietCInv

\* The merge writes of each key the newest entry of its inputs.
LEMMA CompMergeCInv ==
    ASSUME IInv, IInv', CInv, CompMerge
    PROVE  CInv'
<1> DEFINE p == comp.seq
           ins == comp.inputs
           out == [k \in Keys |-> Purge(FirstEntry(ins, k), comp.full)]
<1>1. /\ CompFrame /\ Serving /\ UNCHANGED <<manifestDisk, manifest, sstables>>
      /\ comp.pc = "merge" /\ comp' = [comp EXCEPT !.pc = "publish"]
      /\ sst' = [sst EXCEPT ![p] = out]
  BY DEF CompMerge, CreateSst
<1>2. CompBusy /\ comp'.pc = "publish" /\ comp'.inputs = ins /\ comp'.full = comp.full /\ comp'.seq = p /\ p \in Seqs
  BY <1>1 DEF CompBusy, IInv, TypeOK
<1>3. Unnamed(p) /\ (FlushBusy => p # flush.seq)
  BY <1>2 DEF IInv, FilesInv, CompInv
<1>4. /\ \A f \in manifestDisk.files : sst'[f.path] = sst[f.path]
      /\ \A q \in Seqs : q # p => sst'[q] = sst[q]
      /\ sst'[p] = out
  <2> HIDE DEF out
  <2> QED
    BY <1>1, <1>2, <1>3, UnnamedSst
<1>5. flush.pc = "publish" => sst'[flush.seq] = sst[flush.seq]
  BY <1>3, <1>4 DEF FlushBusy, IInv, TypeOK
<1>6. /\ Len(ins) = Fanout /\ DOMAIN ins = 1 .. Fanout /\ Fanout \in Nat
      /\ \A j \in 1 .. Fanout : ins[j] \in Paths(manifest.files)
  BY <1>2, InputsNamed, SizesAssumption
<1>7. \A j \in 1 .. Fanout : sst'[ins[j]] = sst[ins[j]]
  <2>1. manifest.files = manifestDisk.files
    BY <1>1 DEF CInv, DiskInv, FilesHold, Serving
  <2> QED
    BY <1>4, <1>6, <2>1, SMT DEF Paths
<1>8. ASSUME NEW i \in 1 .. Fanout, NEW j \in 1 .. Fanout, NEW k \in Keys, i < j, sst[ins[i]][k] # 0
      PROVE  sst[ins[i]][k] >= sst[ins[j]][k]
  <2>1. PICK a \in 1 .. Len(sstables) : RunAt(a)
    BY <1>2 DEF IInv, FilesInv, CompInv
  <2>2. DOMAIN sstables = 1 .. Len(sstables) /\ Len(sstables) \in Nat
    <3>1. sstables \in Seq(Seqs)
      BY DEF IInv, TypeOK
    <3> QED
      BY <3>1, SeqFacts
  <2>3. /\ a + i - 1 \in 1 .. Len(sstables) /\ a + j - 1 \in 1 .. Len(sstables) /\ a + i - 1 < a + j - 1
        /\ sstables[a + i - 1] = ins[i] /\ sstables[a + j - 1] = ins[j]
    BY <1>6, <1>8, <2>1, <2>2, SMT DEF RunAt
  <2> DEFINE x == a + i - 1
             y == a + j - 1
  <2>4. x \in DOMAIN sstables /\ y \in DOMAIN sstables /\ x < y /\ sstables[x] = ins[i] /\ sstables[y] = ins[j]
    BY <2>2, <2>3
  <2> HIDE DEF x, y
  <2> QED
    BY <1>1, <1>8, <2>4, TableOrder DEF CInv, Serving
<1>9. \A k \in Keys, i \in 1 .. Fanout : sst[ins[i]][k] \in Nat
  <2>0. ins \in Seq(Seqs)
    BY DEF IInv, TypeOK
  <2>1. \A i \in 1 .. Fanout : ins[i] \in Seqs
    BY <1>6, <2>0, SeqFacts
  <2>2. Shapes
    BY ShapesOfTypes
  <2> QED
    BY <2>1, <2>2, NumberSets DEF Shapes
<1>10. ASSUME NEW k \in Keys
       PROVE  LET e == FirstEntry(ins, k)
              IN  \/ e = 0 /\ \A j \in 1 .. Fanout : sst[ins[j]][k] = 0
                  \/ \E i \in 1 .. Fanout : e = sst[ins[i]][k] /\ e # 0 /\ \A j \in 1 .. Fanout : sst[ins[j]][k] <= e
  <2>1. \/ FirstEntry(ins, k) = 0 /\ \A i \in 1 .. Fanout : sst[ins[i]][k] = 0
        \/ \E i \in 1 .. Fanout : /\ FirstEntry(ins, k) = sst[ins[i]][k]
                                  /\ sst[ins[i]][k] # 0
                                  /\ \A j \in 1 .. i - 1 : sst[ins[j]][k] = 0
    BY <1>6, FirstEntryFacts, SMT
  <2>2. ASSUME NEW i \in 1 .. Fanout, FirstEntry(ins, k) = sst[ins[i]][k],
               sst[ins[i]][k] # 0, \A j \in 1 .. i - 1 : sst[ins[j]][k] = 0
        PROVE  \A j \in 1 .. Fanout : sst[ins[j]][k] <= sst[ins[i]][k]
    <3>1. SUFFICES ASSUME NEW j \in 1 .. Fanout PROVE sst[ins[j]][k] <= sst[ins[i]][k]
      OBVIOUS
    <3>2. j \in 1 .. i - 1 \/ j = i \/ i < j
      BY <1>6, SMT
    <3> QED
      BY <1>8, <1>9, <2>2, <3>2, SMT
  <2> QED
    BY <2>1, <2>2
<1>11. MergedFrom(comp.inputs, comp.full, sst[comp.seq])'
  <2>1. SUFFICES ASSUME NEW k \in Keys
                 PROVE  \/ /\ out[k] # 0 => \E j \in 1 .. Fanout : sst[ins[j]][k] = out[k]
                           /\ \A j \in 1 .. Fanout : sst[ins[j]][k] <= out[k]
                        \/ /\ comp.full /\ out[k] = 0
                           /\ \E j \in 1 .. Fanout :
                                 /\ Deleted(sst[ins[j]][k])
                                 /\ \A i \in 1 .. Fanout : sst[ins[i]][k] <= sst[ins[j]][k]
    <3>1. hist' = hist
      BY <1>1 DEF CompFrame, histVars
    <3> HIDE DEF out
    <3> QED
      BY <1>2, <1>4, <1>6, <1>7, <3>1, SMT DEF MergedFrom, Deleted
  <2> DEFINE e == FirstEntry(ins, k)
  <2>3. out[k] = IF comp.full /\ Deleted(e) THEN 0 ELSE e
    BY DEF Purge
  <2>4. \/ e = 0 /\ \A j \in 1 .. Fanout : sst[ins[j]][k] = 0
        \/ \E i \in 1 .. Fanout : e = sst[ins[i]][k] /\ e # 0 /\ \A j \in 1 .. Fanout : sst[ins[j]][k] <= e
    BY <1>10
  <2>5. ~Deleted(0)
    BY SeqFacts, SMT DEF Deleted, IInv, TypeOK
  <2> HIDE DEF out, e
  <2>6. CASE e = 0 /\ \A j \in 1 .. Fanout : sst[ins[j]][k] = 0
    BY <2>3, <2>5, <2>6, SMT
  <2>7. ASSUME NEW i \in 1 .. Fanout, e = sst[ins[i]][k], e # 0, \A j \in 1 .. Fanout : sst[ins[j]][k] <= e
        PROVE  \/ /\ out[k] # 0 => \E j \in 1 .. Fanout : sst[ins[j]][k] = out[k]
                  /\ \A j \in 1 .. Fanout : sst[ins[j]][k] <= out[k]
               \/ /\ comp.full /\ out[k] = 0
                  /\ \E j \in 1 .. Fanout :
                        /\ Deleted(sst[ins[j]][k])
                        /\ \A m \in 1 .. Fanout : sst[ins[m]][k] <= sst[ins[j]][k]
    BY <2>3, <2>7
  <2> QED
    BY <2>4, <2>6, <2>7
<1>12. CompContent'
  <2>1. comp.full => \E i \in 1 .. Len(sstables) : RunAt(i) /\ i + Fanout - 1 = Len(sstables)
    BY <1>2 DEF CInv, CompContent
  <2>2. \A i : RunAt(i)' <=> RunAt(i)
    BY <1>1, <1>2 DEF RunAt
  <2> QED
    BY <1>1, <1>2, <1>11, <2>1, <2>2 DEF CompContent
<1> QED
  BY <1>1, <1>4, <1>5, <1>12, CompQuietCInv

\* A table that is not an input is newer than all inputs or older than all,
\* and newer if the inputs end the list.
LEMMA InputsInBlock ==
    ASSUME IInv, CInv, CompBusy, NEW g \in manifest.files,
           \A j \in 1 .. Fanout : comp.inputs[j] # g.path
    PROVE  /\ \/ g.seq > comp.logical /\ \A j \in 1 .. Fanout, f \in manifest.files :
                                            f.path = comp.inputs[j] => g.seq > f.seq
              \/ g.seq < comp.logical /\ \A j \in 1 .. Fanout, f \in manifest.files :
                                            f.path = comp.inputs[j] => g.seq < f.seq
           /\ comp.full => g.seq > comp.logical
<1> DEFINE ins == comp.inputs
           n == Len(sstables)
<1>1. /\ Len(ins) = Fanout /\ Fanout \in Nat /\ 1 \in 1 .. Fanout
      /\ sstables \in Seq(Seqs) /\ n \in Nat /\ DOMAIN sstables = 1 .. n
  <2>1. sstables \in Seq(Seqs)
    BY DEF IInv, TypeOK
  <2>2. n \in Nat /\ DOMAIN sstables = 1 .. n
    BY <2>1, SeqFacts
  <2> QED
    BY <2>1, <2>2, InputsNamed, SizesAssumption, SMT
<1>2. [path |-> ins[1], seq |-> comp.logical] \in manifest.files
  BY DEF IInv, FilesInv, CompInv
<1>3. PICK a \in 1 .. n : RunAt(a) /\ (comp.full => a + Fanout - 1 = n)
  BY DEF CInv, CompContent, IInv, FilesInv, CompInv
<1>4. PICK b \in 1 .. n : sstables[b] = g.path
  BY <1>1 DEF IInv, FilesInv, TablesInv, Range, Paths
<1>5. a + Fanout - 1 <= n /\ \A j \in 1 .. Fanout : a + j - 1 \in 1 .. n /\ sstables[a + j - 1] = ins[j]
  BY <1>1, <1>3, SMT DEF RunAt
<1>6. b < a \/ b > a + Fanout - 1
  <2>1. SUFFICES ASSUME b >= a, b <= a + Fanout - 1 PROVE FALSE
    BY <1>1, SMT
  <2>2. b - a + 1 \in 1 .. Fanout /\ a + (b - a + 1) - 1 = b
    BY <1>1, <2>1, SMT
  <2> QED
    BY <1>4, <1>5, <2>2
<1>7. ASSUME NEW j \in 1 .. Fanout, NEW f \in manifest.files, f.path = ins[j]
      PROVE  /\ b < a => g.seq > f.seq
             /\ b > a + Fanout - 1 => f.seq > g.seq
  <2> DEFINE x == a + j - 1
  <2>1. x \in DOMAIN sstables /\ b \in DOMAIN sstables /\ sstables[x] = f.path /\ sstables[b] = g.path
    BY <1>1, <1>4, <1>5, <1>7
  <2>2. (b < a => b < x) /\ (b > a + Fanout - 1 => x < b)
    BY <1>1, SMT
  <2> HIDE DEF x
  <2> QED
    BY <2>1, <2>2 DEF IInv, FilesInv, TablesInv
<1>8. \A f \in manifest.files : f.seq \in Nat
  BY NumberSets DEF IInv, TypeOK, ManifestContent, FileMeta
<1>9. (b < a => g.seq > comp.logical) /\ (b > a + Fanout - 1 => comp.logical > g.seq)
  BY <1>1, <1>2, <1>7
<1>10. comp.logical \in Nat
  BY NumberSets DEF IInv, TypeOK
<1>11. comp.full => b < a
  BY <1>1, <1>3, <1>6, SMT
<1> QED
  BY <1>6, <1>7, <1>8, <1>9, <1>10, <1>11

\* Only the segment in use holds writes that a crash can take.
LEMMA OtherLogsDurable ==
    ASSUME Shapes, SegmentsInv, RecordsInv, NEW g \in walFiles, g # walGen,
           NEW k \in Keys, NEW d \in Ids, Rec(g, k, d)
    PROVE  d <= Durable
<1>1. g \in Gens /\ walDurable[g] = Len(walRecs[g]) /\ DOMAIN walRecs[g] = 1 .. Len(walRecs[g])
  BY DEF Shapes, SegmentsInv
<1> QED
  BY <1>1 DEF Rec, RecordsInv

\* The output replaces the inputs in the manifest: what it leaves out is
\* older than what it has, or a removal that no older table needs.
LEMMA CompPublishCInv ==
    ASSUME IInv, IInv', CInv, CompPublish
    PROVE  CInv'
<1> DEFINE ins == comp.inputs
           out == sst[comp.seq]
           files == manifestDisk.files
           kept == {f \in files : \A j \in 1 .. Fanout : ins[j] # f.path}
           meta == [path |-> comp.seq, seq |-> comp.logical]
<1>1. /\ CompFrame /\ Serving /\ sst' = sst
      /\ comp.pc = "publish" /\ CompBusy /\ comp'.pc = "unlink"
  BY DEF CompPublish, sstVars, CompBusy, IdleComp
<1>2. UNCHANGED <<walFiles, walRecs, walDurable, walGen, walBad, memtable, immutables, hist, acked,
                  mode, flush, writer, drop>>
  BY <1>1 DEF CompFrame, walVars, tableVars, clientVars, histVars
<1>3. Shapes /\ Shapes'
  BY ShapesOfTypes, ShapesOfTypesNext
<1>4. /\ Len(ins) = Fanout /\ DOMAIN ins = 1 .. Fanout
      /\ \A j \in 1 .. Fanout : ins[j] \in Paths(files)
      /\ manifest.files = files
  <2>1. manifest.files = files
    BY <1>1 DEF CInv, DiskInv, FilesHold, Serving
  <2> QED
    BY <1>1, <2>1, InputsNamed
<1>5. manifest'.files = kept \cup {meta} /\ manifestDisk'.files = kept \cup {meta}
  <2>1. kept = {f \in manifest.files : f.path \notin Range(ins)}
    BY <1>4 DEF Range
  <2> QED
    BY <1>1, <1>4, <2>1 DEF CompPublish, SaveManifest, LogicalSequence, IInv, TypeOK, ManifestContent
<1>6. \A j \in 1 .. Fanout : ins[j] \in Seqs /\ \E f \in files : f.path = ins[j]
  <2>1. \A j \in 1 .. Fanout : \E f \in files : f.path = ins[j]
    BY <1>4 DEF Paths
  <2> QED
    BY <1>3, <2>1 DEF Shapes
<1>7. meta.path = comp.seq /\ meta.seq = comp.logical /\ comp.seq \in Seqs /\ comp.logical \in Nat
  BY NumberSets DEF IInv, TypeOK
<1>8. ASSUME NEW g \in kept
      PROVE  /\ \/ g.seq > comp.logical /\ \A j \in 1 .. Fanout, f \in files : f.path = ins[j] => g.seq > f.seq
                \/ g.seq < comp.logical /\ \A j \in 1 .. Fanout, f \in files : f.path = ins[j] => g.seq < f.seq
             /\ comp.full => g.seq > comp.logical
  BY <1>1, <1>4, InputsInBlock
<1> HIDE DEF kept
<1>9. ASSUME NEW k \in Keys
      PROVE  \/ /\ out[k] # 0 => \E j \in 1 .. Fanout : sst[ins[j]][k] = out[k]
                /\ \A j \in 1 .. Fanout : sst[ins[j]][k] <= out[k]
             \/ /\ comp.full /\ out[k] = 0
                /\ \E j \in 1 .. Fanout :
                      /\ Deleted(sst[ins[j]][k])
                      /\ \A i \in 1 .. Fanout : sst[ins[i]][k] <= sst[ins[j]][k]
  <2>1. MergedFrom(ins, comp.full, out)
    BY <1>1 DEF CInv, CompContent
  <2> QED
    BY <1>4, <2>1 DEF MergedFrom
<1> HIDE DEF out, meta, files, ins
<1>10. ASSUME NEW k \in Keys, out[k] # 0
       PROVE  \E f \in files, j \in 1 .. Fanout : f.path = ins[j] /\ sst[f.path][k] = out[k]
  BY <1>6, <1>9, <1>10, SMT
<1>11. /\ \A h, k, e : Rec(h, k, e)' <=> Rec(h, k, e)
       /\ \A k, e : WriteOf(k, e)' <=> WriteOf(k, e)
       /\ \A k, e, n : LastOf(k, e, n)' <=> LastOf(k, e, n)
       /\ LiveLogs' = LiveLogs
       /\ Durable' = Durable
       /\ Serving' /\ LogsOpen' /\ LogsOpen
  <2>1. \A k, e : WriteOf(k, e)' <=> WriteOf(k, e)
    BY <1>2 DEF WriteOf
  <2> QED
    BY <1>1, <1>2, <2>1 DEF Rec, LastOf, LiveLogs, Durable, Serving, LogsOpen
<1>12. \A k, e : InFile(k, e)' <=> e # 0 /\ (out[k] = e \/ \E f \in kept : sst[f.path][k] = e)
  <2>1. \A k, e : InFile(k, e)' <=> e # 0 /\ \E f \in kept \cup {meta} : sst[f.path][k] = e
    BY <1>1, <1>5 DEF InFile
  <2> QED
    BY <1>7, <2>1 DEF out
<1>13. \A k \in Keys : \A e : InFile(k, e)' => InFile(k, e)
  <2>1. kept \subseteq files
    BY DEF kept
  <2> QED
    BY <1>10, <1>12, <2>1, SMT DEF InFile, files
<1>14. \A k \in Keys : \A e : Entry(k, e)' => Entry(k, e)
  BY <1>11, <1>13 DEF Entry
<1>15. SegmentsInv' /\ RecordsInv' /\ RecordOrder'
  <2>1. SegmentsInv'
    BY <1>1, <1>2, <1>11 DEF CInv, DiskInv, SegmentsInv
  <2>2. RecordsInv'
    BY <1>2, <1>11 DEF CInv, DiskInv, RecordsInv
  <2>3. RecordOrder'
    BY <1>2, <1>11 DEF CInv, DiskInv, RecordOrder
  <2> QED
    BY <2>1, <2>2, <2>3
<1>16. LogsOverFiles'
  BY <1>2, <1>11, <1>13 DEF CInv, DiskInv, LogsOverFiles
<1>17. \A f \in files, k \in Keys : sst[f.path][k] \in Nat
  BY <1>3, NumberSets DEF Shapes, files
<1>18. \A k \in Keys, j \in 1 .. Fanout : out[k] \in Nat /\ sst[ins[j]][k] \in Nat
  BY <1>3, <1>6, <1>7, NumberSets DEF Shapes, out
<1>19. FilesHold'
  <2>0. /\ \A f \in files, k \in Keys : sst[f.path][k] # 0 => WriteOf(k, sst[f.path][k]) /\ sst[f.path][k] <= Durable
        /\ \A f, g \in files, k \in Keys : f.seq > g.seq /\ sst[f.path][k] # 0 => sst[f.path][k] >= sst[g.path][k]
        /\ \A f \in files : f.seq \in Nat
        /\ kept \subseteq files
        /\ sst[meta.path] = out
    BY <1>3, <1>7, NumberSets DEF CInv, DiskInv, FilesHold, files, kept, Shapes, out
  <2>1. ASSUME NEW f \in kept \cup {meta}, NEW k \in Keys, sst[f.path][k] # 0
        PROVE  WriteOf(k, sst[f.path][k]) /\ sst[f.path][k] <= Durable
    <3>1. CASE f \in kept
      BY <2>0, <2>1, <3>1
    <3>2. CASE f = meta
      BY <1>10, <2>0, <2>1, <3>2
    <3> QED
      BY <3>1, <3>2
  <2>2. ASSUME NEW f \in kept, NEW k \in Keys, f.seq > comp.logical, sst[f.path][k] # 0
        PROVE  sst[f.path][k] >= out[k]
    <3>1. CASE out[k] = 0
      BY <1>17, <2>0, <3>1, SMT
    <3>2. CASE out[k] # 0
      <4>1. PICK b \in files, j \in 1 .. Fanout : b.path = ins[j] /\ sst[b.path][k] = out[k]
        BY <1>10, <3>2
      <4>2. f.seq > b.seq
        BY <1>7, <1>8, <2>0, <2>2, <4>1, SMT
      <4> QED
        BY <2>0, <2>2, <4>1, <4>2
    <3> QED
      BY <3>1, <3>2
  <2>3. ASSUME NEW g \in kept, NEW k \in Keys, comp.logical > g.seq, out[k] # 0
        PROVE  out[k] >= sst[g.path][k]
    <3>1. PICK b \in files, j \in 1 .. Fanout : b.path = ins[j] /\ sst[b.path][k] = out[k]
      BY <1>10, <2>3
    <3>2. b.seq > g.seq
      BY <1>7, <1>8, <2>0, <2>3, <3>1, SMT
    <3> QED
      BY <2>0, <2>3, <3>1, <3>2
  <2>4. ASSUME NEW f \in kept \cup {meta}, NEW g \in kept \cup {meta}, NEW k \in Keys, f.seq > g.seq, sst[f.path][k] # 0
        PROVE  sst[f.path][k] >= sst[g.path][k]
    <3>1. CASE f \in kept /\ g \in kept
      BY <2>0, <2>4, <3>1
    <3>2. CASE f \in kept /\ g = meta
      BY <1>7, <2>0, <2>2, <2>4, <3>2
    <3>3. CASE f = meta /\ g \in kept
      BY <1>7, <2>0, <2>3, <2>4, <3>3
    <3>4. CASE f = meta /\ g = meta
      BY <1>7, <2>4, <3>4, SMT
    <3> QED
      BY <3>1, <3>2, <3>3, <3>4
  <2> QED
    BY <1>1, <1>5, <1>11, <2>1, <2>4 DEF FilesHold
<1>20. ASSUME NEW k \in Keys, NEW id \in Ids, NEW n \in Durable .. Len(hist), LastOf(k, id, n), InFile(k, id), ~InFile(k, id)'
       PROVE  /\ comp.full /\ out[k] = 0 /\ hist[id].val = 0
              /\ \E j \in 1 .. Fanout, f \in files : f.path = ins[j] /\ sst[f.path][k] = id
              /\ \A e \in Ids : WriteOf(k, e) /\ e <= n => e <= id
  <2>1. PICK f \in files : sst[f.path][k] = id
    BY <1>20 DEF InFile, files
  <2>2. id # 0 /\ f \notin kept /\ out[k] # id
    <3>1. id # 0
      BY <1>20 DEF InFile
    <3>2. ~(out[k] = id \/ \E h \in kept : sst[h.path][k] = id)
      BY <1>12, <1>20, <3>1
    <3> QED
      BY <2>1, <3>1, <3>2
  <2>3. PICK j \in 1 .. Fanout : ins[j] = f.path
    BY <2>2 DEF kept
  <2>4. Durable \in Nat /\ Len(hist) \in Nat /\ id \in Nat /\ n \in Nat /\ id <= Durable
    <3>1. Durable \in Nat /\ Len(hist) \in Nat
      BY <1>3, DurableFacts DEF CInv, DiskInv
    <3>2. id \in Nat /\ id <= Durable
      BY <2>1, <2>2, NumberSets DEF CInv, DiskInv, FilesHold, files
    <3> QED
      BY <3>1, <3>2, SMT
  <2>5. \A e \in Ids : WriteOf(k, e) /\ e <= n => e <= id
    <3>1. SUFFICES ASSUME NEW e \in Ids, WriteOf(k, e), e <= n, e > id PROVE FALSE
      BY <2>4, SMT DEF Ids
    <3>2. e \in id + 1 .. n
      BY <2>4, <3>1, SMT DEF Ids
    <3> QED
      BY <1>20, <3>1, <3>2 DEF LastOf, WriteOf
  <2>6. ASSUME NEW i \in 1 .. Fanout PROVE sst[ins[i]][k] <= id
    <3>1. PICK b \in files : b.path = ins[i]
      BY <1>6
    <3>2. CASE sst[b.path][k] = 0
      BY <2>4, <3>1, <3>2, SMT
    <3>3. CASE sst[b.path][k] # 0
      <4>1. WriteOf(k, sst[b.path][k]) /\ sst[b.path][k] <= Durable /\ sst[b.path][k] \in Ids
        BY <1>3, <3>1, <3>3 DEF CInv, DiskInv, FilesHold, files, Shapes
      <4> QED
        BY <2>4, <2>5, <3>1, <4>1, SMT DEF Ids
    <3> QED
      BY <3>2, <3>3
  <2>7. ~(\A i \in 1 .. Fanout : sst[ins[i]][k] <= out[k]) \/ out[k] = 0
    <3>1. SUFFICES ASSUME \A i \in 1 .. Fanout : sst[ins[i]][k] <= out[k], out[k] # 0 PROVE FALSE
      OBVIOUS
    <3>2. id <= out[k] /\ out[k] <= id
      BY <1>10, <2>1, <2>3, <2>6, <3>1
    <3> QED
      BY <1>18, <2>2, <2>4, <3>2, SMT
  <2>8. ~(\A i \in 1 .. Fanout : sst[ins[i]][k] <= out[k])
    <3>1. SUFFICES ASSUME \A i \in 1 .. Fanout : sst[ins[i]][k] <= out[k], out[k] = 0 PROVE FALSE
      BY <2>7
    <3>2. id <= 0
      BY <2>1, <2>3, <3>1
    <3> QED
      BY <2>2, <2>4, <3>2, SMT
  <2>9. PICK m \in 1 .. Fanout : /\ Deleted(sst[ins[m]][k]) /\ comp.full /\ out[k] = 0
                                 /\ \A i \in 1 .. Fanout : sst[ins[i]][k] <= sst[ins[m]][k]
    BY <1>9, <2>8
  <2>10. sst[ins[m]][k] = id
    <3>1. id <= sst[ins[m]][k] /\ sst[ins[m]][k] <= id
      BY <2>1, <2>3, <2>6, <2>9
    <3> QED
      BY <1>18, <2>4, <3>1, SMT
  <2> QED
    BY <2>1, <2>3, <2>5, <2>9, <2>10 DEF Deleted
<1>21. ASSUME NEW k \in Keys, NEW id \in Ids, NEW n \in Durable .. Len(hist), LastOf(k, id, n), Entry(k, id), ~Entry(k, id)'
       PROVE  hist[id].val = 0 /\ \A e \in Ids : Entry(k, e)' => e > n
  <2>1. InFile(k, id) /\ ~InFile(k, id)'
    BY <1>11, <1>21 DEF Entry
  <2>2. /\ comp.full /\ out[k] = 0 /\ hist[id].val = 0
        /\ \E j \in 1 .. Fanout, f \in files : f.path = ins[j] /\ sst[f.path][k] = id
        /\ \A e \in Ids : WriteOf(k, e) /\ e <= n => e <= id
    BY <1>20, <1>21, <2>1
  <2>3. Durable \in Nat /\ Len(hist) \in Nat /\ n \in Nat /\ id \in Nat /\ Durable <= n
    <3>1. Durable \in Nat /\ Len(hist) \in Nat
      BY <1>3, DurableFacts DEF CInv, DiskInv
    <3> QED
      BY <3>1, SMT DEF Ids
  <2>4. SUFFICES ASSUME NEW e \in Ids, Entry(k, e)', e <= n PROVE FALSE
    BY <2>2, <2>3, SMT DEF Ids
  <2>5. WriteOf(k, e) /\ e <= id /\ e # id /\ e \in Nat /\ e < id
    <3>1. WriteOf(k, e)
      BY <1>3, <1>14, <2>4, HeldIsWritten DEF CInv, DiskInv
    <3>2. e <= id /\ e # id
      BY <1>21, <2>2, <2>4, <3>1
    <3> QED
      BY <2>3, <3>1, <3>2, SMT DEF Ids
  <2>6. CASE InFile(k, e)'
    <3>1. PICK f \in kept : sst[f.path][k] = e /\ e # 0
      BY <1>12, <2>2, <2>6
    <3>2. PICK j \in 1 .. Fanout, b \in files : b.path = ins[j] /\ sst[b.path][k] = id
      BY <2>2
    <3>3. f.seq \in Nat /\ f \in files
      BY <1>3, <3>1, NumberSets DEF Shapes, kept, files
    <3>4. f.seq > b.seq
      BY <1>7, <1>8, <2>2, <3>2, <3>3, SMT
    <3>5. e >= id
      BY <3>1, <3>2, <3>3, <3>4 DEF CInv, DiskInv, FilesHold, files
    <3> QED
      BY <2>3, <2>5, <3>5, SMT
  <2>7. CASE \E h \in LiveLogs : Rec(h, k, e)
    <3>1. PICK h \in LiveLogs : Rec(h, k, e)
      BY <2>7
    <3>2. h \in walFiles
      BY DEF LiveLogs
    <3>3. PICK c \in Ids : Rec(h, k, c) /\ c >= id
      BY <2>1, <3>1, <3>2 DEF CInv, DiskInv, LogsOverFiles
    <3>4. h # walGen
      <4>1. SUFFICES ASSUME h = walGen PROVE FALSE
        OBVIOUS
      <4>2. e >= id
        BY <1>11, <2>1, <3>1, <4>1 DEF CInv, DiskInv, LogsOverFiles
      <4> QED
        BY <2>3, <2>5, <4>2, SMT
    <3>5. c <= Durable /\ WriteOf(k, c)
      BY <1>3, <3>2, <3>3, <3>4, OtherLogsDurable DEF CInv, DiskInv, RecordsInv
    <3>6. c = id
      <4>1. c \in Nat /\ c <= n
        BY <2>3, <3>5, SMT DEF Ids
      <4> QED
        BY <2>2, <2>3, <3>3, <3>5, <4>1, SMT
    <3> QED
      BY <1>11, <1>21, <3>1, <3>3, <3>6 DEF Entry
  <2> QED
    BY <1>11, <2>4, <2>6, <2>7 DEF Entry
<1>22. Covered'
  <2>1. SUFFICES ASSUME NEW k \in Keys, NEW id \in Ids, NEW n \in Durable .. Len(hist), LastOf(k, id, n), ~Entry(k, id)'
                 PROVE  hist[id].val = 0 /\ \A e \in Ids : Entry(k, e)' => e > n
    BY <1>2, <1>11 DEF Covered
  <2>2. CASE Entry(k, id)
    BY <1>21, <2>1, <2>2
  <2>3. CASE ~Entry(k, id)
    BY <1>14, <2>1, <2>3 DEF CInv, DiskInv, Covered
  <2> QED
    BY <2>2, <2>3
<1>23. UnlinkCovered'
  <2>1. SUFFICES ASSUME flush.pc = "unlink", NEW k \in Keys, NEW id \in Ids, NEW d \in Ids, NEW n \in Durable .. Len(hist),
                        LastOf(k, id, n), Rec(flush.gen, k, d), ~Entry(k, id)'
                 PROVE  Rec(flush.gen, k, id)
    BY <1>2, <1>11 DEF UnlinkCovered
  <2>2. Entry(k, id) \/ Rec(flush.gen, k, id)
    BY <2>1 DEF CInv, DiskInv, UnlinkCovered
  <2>3. CASE Entry(k, id)
    <3>1. InFile(k, id) /\ ~InFile(k, id)'
      BY <1>11, <2>1, <2>3 DEF Entry
    <3>2. \A e \in Ids : WriteOf(k, e) /\ e <= n => e <= id
      BY <1>20, <2>1, <3>1
    <3>3. flush.gen \in walFiles /\ flush.gen # walGen
      <4>1. \A a, b \in Gens : a < b => a # b
        BY SMT DEF Gens
      <4>2. flush.gen \in walFiles /\ flush.gen < walGen
        BY <2>1 DEF CInv, FlushContent
      <4> QED
        BY <1>3, <4>1, <4>2 DEF Shapes
    <3>4. PICK c \in Ids : Rec(flush.gen, k, c) /\ c >= id
      BY <2>1, <3>1, <3>3 DEF CInv, DiskInv, LogsOverFiles
    <3>5. c <= Durable /\ WriteOf(k, c)
      BY <1>3, <3>3, <3>4, OtherLogsDurable DEF CInv, DiskInv, RecordsInv
    <3>6. Durable \in Nat /\ Len(hist) \in Nat /\ n \in Nat /\ id \in Nat /\ c \in Nat
      <4>1. Durable \in Nat /\ Len(hist) \in Nat /\ id \in Nat /\ c \in Nat
        BY <1>3, NumberSets, DurableFacts DEF CInv, DiskInv
      <4> QED
        BY <4>1, SMT
    <3>7. c = id
      BY <3>2, <3>4, <3>5, <3>6, SMT
    <3> QED
      BY <3>4, <3>7
  <2> QED
    BY <2>2, <2>3
<1>24. MemtablesInv'
  BY <1>2, <1>11, MemtablesFrame, <1>1 DEF CInv
<1>25. FlushContent'
  BY <1>1, <1>2, FlushContentFrame DEF CInv
<1>26. CompContent'
  BY <1>1 DEF CompContent, CompBusy
<1>27. RecoveryInv'
  BY <1>11 DEF RecoveryInv, Serving
<1>28. AckInv'
  BY <1>2, <1>11 DEF CInv, AckInv
<1> QED
  BY <1>15, <1>16, <1>19, <1>22, <1>23, <1>24, <1>25, <1>26, <1>27, <1>28 DEF CInv, DiskInv

\* Every step of the compaction thread preserves CInv.
LEMMA CompStepCInv ==
    ASSUME IInv, IInv', CInv, CompStep
    PROVE  CInv'
BY CompMoveCInv, CompSelectCInv, CompRemoveCInv, CompMergeCInv, CompPublishCInv DEF CompStep

-----------------------------------------------------------------------------
(* Shutdown and crash. *)

\* shutting_down_ changes nothing that is stored.
LEMMA ShutDownCInv ==
    ASSUME CInv, ShutDown
    PROVE  CInv'
<1>1. /\ mode = "up" /\ mode' = "closing"
      /\ UNCHANGED <<walFiles, walRecs, walDurable, walGen, walBad, memtable, immutables, hist, acked,
                     sst, manifestDisk, manifest, sstables, flush, comp, writer, drop>>
  BY DEF ShutDown, diskVars, walVars, sstVars, tableVars, threadVars, clientVars, histVars
<1>2. Serving /\ Serving' /\ LogsOpen /\ LogsOpen'
  BY <1>1 DEF Serving, LogsOpen
<1>3. DiskInv'
  <2>1. manifest'.files = manifestDisk.files
    BY <1>1 DEF CInv, DiskInv, FilesHold
  <2> QED
    BY <1>1, <1>2, <2>1, DiskFrame DEF CInv, walVars
<1>4. MemtablesInv'
  BY <1>1, <1>2, MemtablesFrame DEF CInv
<1>5. FlushContent'
  BY <1>1, FlushContentFrame DEF CInv
<1>6. CompContent'
  <2>1. \A id : Deleted(id) => Deleted(id)'
    BY <1>1 DEF Deleted
  <2> QED
    BY <1>1, <2>1, MergeFrame DEF CInv
<1>7. RecoveryInv'
  BY <1>1, <1>2 DEF RecoveryInv
<1>8. AckInv'
  <2>1. Durable' = Durable
    BY <1>1 DEF Durable
  <2> QED
    BY <1>1, <2>1 DEF CInv, AckInv
<1> QED
  BY <1>3, <1>4, <1>5, <1>6, <1>7, <1>8 DEF CInv

\* An engine that does not serve has nothing that a crash can take.
LEMMA AllDurable ==
    ASSUME Shapes, SegmentsInv, RecordsInv, NEW g \in walFiles, g # walGen \/ ~Serving,
           NEW k \in Keys, NEW d \in Ids, Rec(g, k, d)
    PROVE  d <= Durable
<1>1. g \in Gens /\ walDurable[g] = Len(walRecs[g]) /\ DOMAIN walRecs[g] = 1 .. Len(walRecs[g])
  BY DEF Shapes, SegmentsInv
<1> QED
  BY <1>1 DEF Rec, RecordsInv

\* What going down leaves: the first m writes, and of the logs the records of
\* those writes.
LEMMA GoneDown ==
    ASSUME Shapes, Shapes', CInv, MemoryGone, acked \in Nat,
           UNCHANGED <<walFiles, sst, acked>>, manifestDisk'.files = manifestDisk.files,
           NEW m \in Durable .. Len(hist), Len(hist') = m,
           \A i \in 1 .. m : hist'[i] = hist[i],
           \A g \in Gens : /\ walDurable'[g] = Len(walRecs'[g])
                           /\ Len(walRecs'[g]) <= Len(walRecs[g])
                           /\ \A i \in 1 .. Len(walRecs'[g]) : walRecs'[g][i] = walRecs[g][i],
           \A g \in Gens \ walFiles : walRecs'[g] = <<>>,
           \A g \in walFiles, k \in Keys, e \in Ids : Rec(g, k, e)' <=> Rec(g, k, e) /\ e <= m
    PROVE  CInv'
<1>1. /\ mode' = "down" /\ immutables' = <<>> /\ walGen' = 0 /\ walBad' = {}
      /\ flush'.pc = "exited" /\ comp'.pc = "exited" /\ drop'.pc = "idle"
      /\ \A w \in Writers : writer'[w].pc = "idle"
      /\ ~Serving' /\ ~LogsOpen'
  BY DEF MemoryGone, IdleFlush, IdleComp, IdleDrop, IdleWriter, Serving, LogsOpen
<1>2. Durable \in Nat /\ Len(hist) \in Nat /\ m \in Nat /\ Durable <= m /\ m <= Len(hist)
  <2>1. Durable \in Nat /\ Len(hist) \in Nat
    BY DurableFacts DEF CInv, DiskInv
  <2> QED
    BY <2>1, SMT
<1>3. Durable' = m
  <2>1. walGen' \in Gens
    BY DEF Shapes
  <2>2. Len(walRecs'[walGen']) \in Nat /\ walDurable'[walGen'] = Len(walRecs'[walGen'])
    BY <2>1 DEF Shapes
  <2>3. \A a, b \in Nat : a - b + b = a
    BY SMT
  <2> QED
    BY <1>2, <2>2, <2>3, SMT DEF Durable
<1>4. DOMAIN hist = 1 .. Len(hist) /\ DOMAIN hist' = 1 .. m
  BY DEF Shapes
<1>5. \A k, e : WriteOf(k, e)' <=> WriteOf(k, e) /\ e <= m
  <2>1. \A e : e \in 1 .. m <=> e \in 1 .. Len(hist) /\ e <= m
    BY <1>2, SMT
  <2> QED
    BY <1>4, <2>1 DEF WriteOf
<1>6. \A k, e : LastOf(k, e, m)' <=> LastOf(k, e, m)
  <2>1. ASSUME NEW k, NEW e, WriteOf(k, e), e <= m
        PROVE  (\A j \in e + 1 .. m : hist'[j].key # k) <=> (\A j \in e + 1 .. m : hist[j].key # k)
    <3>1. \A j \in e + 1 .. m : j \in 1 .. m
      BY <1>2, <1>4, <2>1, SMT DEF WriteOf
    <3> QED
      BY <3>1
  <2> QED
    BY <1>5, <2>1 DEF LastOf
<1>7. \A k, e : InFile(k, e)' <=> InFile(k, e)
  BY DEF InFile
<1>8. LiveLogs' = walFiles /\ LiveLogs \subseteq walFiles /\ walFiles \subseteq Gens
  BY <1>1 DEF LiveLogs, Shapes
<1>9. SegmentsInv'
  <2>1. \A n \in Nat : n <= n
    BY SMT
  <2> QED
    BY <1>1, <2>1 DEF SegmentsInv, Shapes
<1>10. RecordsInv'
  <2>1. \A g \in walFiles, k \in Keys, id \in Ids : Rec(g, k, id)' => WriteOf(k, id)'
    BY <1>5 DEF CInv, DiskInv, RecordsInv
  <2>2. ASSUME NEW g \in walFiles, NEW i \in 1 .. Len(walRecs'[g])
        PROVE  walRecs'[g][i].id <= m
    <3>1. g \in Gens /\ walRecs'[g][i].key \in Keys /\ walRecs'[g][i].id \in Ids /\ DOMAIN walRecs'[g] = 1 .. Len(walRecs'[g])
      BY <1>8 DEF Shapes
    <3>2. \A k, e : k = walRecs'[g][i].key /\ e = walRecs'[g][i].id => Rec(g, k, e)'
      BY <3>1 DEF Rec
    <3> QED
      BY <3>1, <3>2
  <2>3. \A i \in walDurable'[walGen'] + 1 .. Len(walRecs'[walGen']) : FALSE
    <3>1. walGen' \in Gens
      BY DEF Shapes
    <3>2. walDurable'[walGen'] = Len(walRecs'[walGen']) /\ Len(walRecs'[walGen']) \in Nat
      BY <3>1 DEF Shapes
    <3> QED
      BY <3>2, SMT
  <2> QED
    BY <1>3, <1>8, <2>1, <2>2, <2>3 DEF RecordsInv
<1>11. RecordOrder'
  <2>1. ASSUME NEW g \in walFiles, NEW i \in DOMAIN walRecs'[g], NEW j \in DOMAIN walRecs'[g],
               i < j, walRecs'[g][i].key = walRecs'[g][j].key
        PROVE  walRecs'[g][i].id <= walRecs'[g][j].id
    <3>1. g \in Gens
      BY <1>8
    <3>2. /\ i \in DOMAIN walRecs[g] /\ j \in DOMAIN walRecs[g]
          /\ walRecs'[g][i] = walRecs[g][i] /\ walRecs'[g][j] = walRecs[g][j]
      <4>1. /\ DOMAIN walRecs'[g] = 1 .. Len(walRecs'[g]) /\ DOMAIN walRecs[g] = 1 .. Len(walRecs[g])
            /\ Len(walRecs'[g]) \in Nat /\ Len(walRecs[g]) \in Nat
        BY <3>1 DEF Shapes
      <4>2. \A a, b \in Nat : a <= b => \A x \in 1 .. a : x \in 1 .. b
        BY SMT
      <4> QED
        BY <3>1, <4>1, <4>2
    <3> QED
      BY <2>1, <3>2 DEF CInv, DiskInv, RecordOrder
  <2> QED
    BY <2>1 DEF CInv, DiskInv, RecordOrder
<1>12. FilesHold'
  <2>1. ASSUME NEW f \in manifestDisk.files, NEW k \in Keys, sst[f.path][k] # 0
        PROVE  WriteOf(k, sst[f.path][k])' /\ sst[f.path][k] <= m
    <3>1. WriteOf(k, sst[f.path][k]) /\ sst[f.path][k] <= Durable /\ sst[f.path][k] \in Nat
      <4>1. f.path \in Seqs
        BY DEF Shapes
      <4>2. sst[f.path][k] \in Nat
        BY <4>1, NumberSets DEF Shapes
      <4> QED
        BY <2>1, <4>2 DEF CInv, DiskInv, FilesHold
    <3>2. sst[f.path][k] <= m
      BY <1>2, <3>1, SMT
    <3>3. \A e : e = sst[f.path][k] => WriteOf(k, e)'
      BY <1>5, <3>1, <3>2
    <3> QED
      BY <3>2, <3>3 DEF WriteOf
  <2> QED
    BY <1>1, <1>3, <2>1 DEF CInv, DiskInv, FilesHold, WriteOf
<1>13. LogsOverFiles'
  <2>1. ASSUME NEW g \in walFiles, NEW k \in Keys, NEW d \in Ids, NEW e \in Ids, Rec(g, k, d)', InFile(k, e)
        PROVE  \E c \in Ids : Rec(g, k, c)' /\ c >= e
    <3>1. Rec(g, k, d) /\ d <= m
      BY <2>1
    <3>2. PICK c \in Ids : Rec(g, k, c) /\ c >= e
      BY <2>1, <3>1 DEF CInv, DiskInv, LogsOverFiles
    <3>3. CASE g # walGen \/ ~Serving
      <4>1. c <= Durable
        BY <3>2, <3>3, AllDurable DEF CInv, DiskInv
      <4>2. c <= m
        BY <1>2, <4>1, SMT DEF Ids
      <4> QED
        BY <3>2, <4>2
    <3>4. CASE g = walGen /\ Serving
      <4>1. d >= e
        BY <2>1, <3>1, <3>4 DEF CInv, DiskInv, LogsOverFiles, Serving, LogsOpen
      <4> QED
        BY <2>1, <4>1
    <3> QED
      BY <3>3, <3>4
  <2> QED
    BY <1>1, <1>7, <2>1 DEF LogsOverFiles
<1>14. ASSUME NEW k \in Keys, NEW e \in Ids PROVE Entry(k, e)' <=> InFile(k, e) \/ \E g \in walFiles : Rec(g, k, e) /\ e <= m
  BY <1>7, <1>8 DEF Entry
<1>15. Covered'
  <2>1. SUFFICES ASSUME NEW k \in Keys, NEW id \in Ids, LastOf(k, id, m)
                 PROVE  \/ Entry(k, id)'
                        \/ hist'[id].val = 0 /\ \A e \in Ids : Entry(k, e)' => e > m
    <3>1. \A n \in m .. m : n = m
      BY <1>2, SMT
    <3> QED
      BY <1>3, <1>6, <3>1 DEF Covered
  <2>2. id <= m /\ id \in 1 .. m
    BY <1>2, <1>4, <2>1, SMT DEF LastOf, WriteOf
  <2>3. m \in Durable .. Len(hist)
    OBVIOUS
  <2>4. CASE Entry(k, id) \/ (flush.pc = "unlink" /\ flush.gen \in walFiles /\ Rec(flush.gen, k, id))
    <3>1. InFile(k, id) \/ \E g \in walFiles : Rec(g, k, id)
      BY <1>8, <2>4 DEF Entry
    <3> QED
      BY <1>14, <2>2, <3>1
  <2>5. CASE ~Entry(k, id) /\ ~(flush.pc = "unlink" /\ flush.gen \in walFiles /\ Rec(flush.gen, k, id))
    <3>1. hist[id].val = 0 /\ \A e \in Ids : Entry(k, e) => e > m
      BY <2>1, <2>3, <2>5 DEF CInv, DiskInv, Covered
    <3>2. hist'[id] = hist[id]
      BY <2>2
    <3>3. ASSUME NEW e \in Ids, Entry(k, e)' PROVE e > m
      <4>1. InFile(k, e) \/ \E g \in walFiles : Rec(g, k, e)
        BY <1>14, <3>3
      <4>2. CASE InFile(k, e)
        BY <3>1, <4>2 DEF Entry
      <4>3. ASSUME NEW g \in walFiles, Rec(g, k, e) PROVE e > m
        <5>1. CASE g \in LiveLogs
          BY <3>1, <4>3, <5>1 DEF Entry
        <5>2. CASE g \notin LiveLogs
          <6>1. flush.pc = "unlink" /\ g = flush.gen
            BY <5>2 DEF LiveLogs
          <6> QED
            BY <2>1, <2>3, <2>5, <4>3, <6>1 DEF CInv, DiskInv, UnlinkCovered
        <5> QED
          BY <5>1, <5>2
      <4> QED
        BY <4>1, <4>2, <4>3
    <3> QED
      BY <3>1, <3>2, <3>3
  <2> QED
    BY <2>4, <2>5
<1>16. UnlinkCovered' /\ MemtablesInv' /\ FlushContent' /\ CompContent'
  BY <1>1 DEF UnlinkCovered, MemtablesInv, FlushContent, CompContent, FlushBusy, CompBusy
<1>17. RecoveryInv'
  BY <1>1 DEF RecoveryInv
<1>18. AckInv'
  BY <1>1, <1>2, <1>3, SMT DEF CInv, AckInv
<1> QED
  BY <1>9, <1>10, <1>11, <1>12, <1>13, <1>15, <1>16, <1>17, <1>18 DEF CInv, DiskInv

\* A clean shutdown keeps everything.
LEMMA CloseCInv ==
    ASSUME IInv, IInv', CInv, Close
    PROVE  CInv'
<1>1. Shapes /\ Shapes'
  BY ShapesOfTypes, ShapesOfTypesNext
<1>2. /\ MemoryGone /\ UNCHANGED <<walFiles, walRecs, sst, acked, hist>> /\ mode = "closing"
      /\ walDurable' = [g \in Gens |-> Len(walRecs[g])]
  BY DEF Close, sstVars
<1>3. manifestDisk'.files = manifestDisk.files
  <2>1. manifest.files = manifestDisk.files
    BY <1>2 DEF CInv, DiskInv, FilesHold
  <2> QED
    BY <2>1 DEF Close
<1>4. acked \in Nat
  BY NumberSets DEF IInv, TypeOK
<1>5. Durable \in 0 .. Len(hist) /\ Len(hist) \in Nat /\ Len(hist) \in Durable .. Len(hist)
  <2>1. Durable \in 0 .. Len(hist) /\ Len(hist) \in Nat
    BY <1>1, DurableFacts DEF CInv, DiskInv
  <2> QED
    BY <2>1, SMT
<1>6. \A g \in walFiles, k \in Keys, e \in Ids : Rec(g, k, e)' <=> Rec(g, k, e) /\ e <= Len(hist)
  <2>1. \A g, k, e : Rec(g, k, e)' <=> Rec(g, k, e)
    BY <1>2 DEF Rec
  <2>2. \A g \in walFiles, k \in Keys, e \in Ids : Rec(g, k, e) => e <= Len(hist)
    <3>1. \A g \in walFiles, k \in Keys, e \in Ids : Rec(g, k, e) => e \in 1 .. Len(hist)
      BY <1>1 DEF CInv, DiskInv, RecordsInv, WriteOf, Shapes
    <3> QED
      BY <1>5, <3>1, SMT
  <2> QED
    BY <2>1, <2>2
<1>7. \A g \in Gens : /\ walDurable'[g] = Len(walRecs'[g])
                      /\ Len(walRecs'[g]) <= Len(walRecs[g])
                      /\ \A i \in 1 .. Len(walRecs'[g]) : walRecs'[g][i] = walRecs[g][i]
  <2>1. \A n \in Nat : n <= n
    BY SMT
  <2> QED
    BY <1>1, <1>2, <2>1 DEF Shapes
<1>8. \A g \in Gens \ walFiles : walRecs'[g] = <<>>
  BY <1>2 DEF CInv, DiskInv, SegmentsInv
<1> DEFINE m == Len(hist)
<1>9. Len(hist') = m /\ \A i \in 1 .. m : hist'[i] = hist[i]
  BY <1>2
<1>10. m \in Durable .. Len(hist)
  BY <1>5
<1> HIDE DEF m
<1>11. \A g \in walFiles, k \in Keys, e \in Ids : Rec(g, k, e)' <=> Rec(g, k, e) /\ e <= m
  BY <1>6 DEF m
<1> QED
  BY <1>1, <1>2, <1>3, <1>4, <1>7, <1>8, <1>9, <1>10, <1>11, GoneDown

\* A crash at any point preserves CInv.
LEMMA CrashCInv ==
    ASSUME IInv, IInv', CInv, Crash
    PROVE  CInv'
<1>1. Shapes /\ Shapes'
  BY ShapesOfTypes, ShapesOfTypesNext
<1>2. PICK extra \in Ids :
          /\ walRecs' = [g \in Gens |-> SubSeq(walRecs[g], 1, Kept(g, extra))]
          /\ walDurable' = [g \in Gens |-> Kept(g, extra)]
          /\ hist' = SubSeq(hist, 1, Surviving(extra))
  BY DEF Crash
<1>3. MemoryGone /\ UNCHANGED <<walFiles, sst, acked, manifestDisk>> /\ acked \in Nat
  BY NumberSets DEF Crash, sstVars, IInv, TypeOK
<1>4. SegmentsInv /\ RecordsInv
  BY DEF CInv, DiskInv
<1> DEFINE m == Surviving(extra)
           n == Len(walRecs[walGen])
           q == Kept(walGen, extra)
<1>5. m = Len(hist) - n + q /\ m \in Durable .. Len(hist) /\ m \in 0 .. Len(hist)
  <2>1. m = Len(hist) - n + q /\ m \in Durable .. Len(hist)
    BY <1>1, <1>4, SurvivingHistory
  <2>2. Durable \in 0 .. Len(hist) /\ Len(hist) \in Nat
    BY <1>1, <1>4, DurableFacts DEF Shapes
  <2> HIDE DEF m, n, q
  <2> QED
    BY <2>1, <2>2, SMT
<1> HIDE DEF m
<1>6. Len(hist') = m /\ \A i \in 1 .. m : hist'[i] = hist[i]
  <2>1. hist \in Seq([key : Keys, val : Ids])
    BY DEF IInv, TypeOK
  <2>2. hist' = SubSeq(hist, 1, m)
    BY <1>2 DEF m
  <2> QED
    BY <1>5, <2>1, <2>2, PrefixContent
<1>7. ASSUME NEW g \in Gens
      PROVE  /\ Len(walRecs'[g]) = Kept(g, extra) /\ walDurable'[g] = Kept(g, extra)
             /\ Len(walRecs'[g]) <= Len(walRecs[g])
             /\ \A i \in 1 .. Len(walRecs'[g]) : walRecs'[g][i] = walRecs[g][i]
             /\ ~(Serving /\ g = walGen) => Len(walRecs'[g]) = Len(walRecs[g])
  <2>1. walRecs[g] \in Seq(Record) /\ walRecs'[g] = SubSeq(walRecs[g], 1, Kept(g, extra)) /\ walDurable'[g] = Kept(g, extra)
    BY <1>2 DEF IInv, TypeOK
  <2>2. Kept(g, extra) \in 0 .. Len(walRecs[g]) /\ (~(Serving /\ g = walGen) => Kept(g, extra) = Len(walRecs[g]))
    BY <1>1, <1>4, KeptOfSegment
  <2>3. Len(walRecs[g]) \in Nat
    BY <1>1 DEF Shapes
  <2> QED
    BY <2>1, <2>2, <2>3, PrefixContent, SMT
<1>8. \A g \in Gens \ walFiles : walRecs'[g] = <<>>
  <2>1. SUFFICES ASSUME NEW g \in Gens \ walFiles PROVE walRecs'[g] = <<>>
    OBVIOUS
  <2>2. walRecs[g] = <<>> /\ Len(<<>>) = 0
    BY <1>4 DEF SegmentsInv
  <2>3. walRecs'[g] \in Seq(Record)
    BY DEF IInv, TypeOK
  <2>4. Len(walRecs'[g]) \in Nat /\ Len(walRecs'[g]) <= 0
    BY <1>1, <1>7, <2>2 DEF Shapes
  <2>5. Len(walRecs'[g]) = 0
    BY <2>4, SMT
  <2>6. \A s \in Seq(Record) : Len(s) = 0 => s = <<>>
    BY SMT
  <2> QED
    BY <2>3, <2>5, <2>6
<1>9. ASSUME NEW g \in walFiles, NEW k \in Keys, NEW e \in Ids
      PROVE  Rec(g, k, e)' <=> Rec(g, k, e) /\ e <= m
  <2>1. /\ g \in Gens /\ Len(walRecs[g]) \in Nat /\ Len(walRecs'[g]) \in Nat
        /\ DOMAIN walRecs[g] = 1 .. Len(walRecs[g]) /\ DOMAIN walRecs'[g] = 1 .. Len(walRecs'[g])
    BY <1>1 DEF Shapes
  <2>2. Durable \in Nat /\ Len(hist) \in Nat /\ m \in Nat /\ Durable <= m
    <3>1. Durable \in Nat /\ Len(hist) \in Nat
      BY <1>1, <1>4, DurableFacts
    <3> QED
      BY <1>5, <3>1, SMT
  <2>3. CASE ~(Serving /\ g = walGen)
    <3>1. Len(walRecs'[g]) = Len(walRecs[g])
      BY <1>7, <2>1, <2>3
    <3>2. Rec(g, k, e)' <=> Rec(g, k, e)
      BY <1>7, <2>1, <3>1 DEF Rec
    <3>3. Rec(g, k, e) => e <= Durable
      BY <1>1, <1>4, <2>3, AllDurable
    <3> QED
      BY <2>2, <3>2, <3>3, SMT DEF Ids
  <2>4. CASE Serving /\ g = walGen
    <3>1. q \in walDurable[walGen] .. n /\ n \in Nat /\ walDurable[walGen] \in Nat /\ Len(walRecs'[g]) = q
      BY <1>1, <1>4, <1>7, <2>1, <2>4, KeptOfSegment DEF Shapes
    <3>2. ASSUME NEW i \in 1 .. n
          PROVE  i \in 1 .. q <=> walRecs[g][i].id <= m
      <4>1. CASE i \in 1 .. walDurable[walGen]
        <5>1. walRecs[g][i].id <= Durable /\ walRecs[g][i].id \in Nat
          <6>1. walRecs[g][i].id \in Nat
            BY <1>1, <2>1, <2>4, NumberSets DEF Shapes
          <6> QED
            BY <1>4, <2>4, <4>1, <6>1 DEF RecordsInv
        <5> QED
          BY <2>2, <3>1, <4>1, <5>1, SMT
      <4>2. CASE i \in walDurable[walGen] + 1 .. n
        <5>1. walRecs[g][i].id = Len(hist) - n + i
          BY <1>4, <2>4, <4>2 DEF RecordsInv
        <5>2. m = Len(hist) - n + q /\ q \in Int
          BY <1>5, <3>1, SMT
        <5> HIDE DEF n, q
        <5> QED
          BY <2>2, <3>1, <5>1, <5>2, SMT
      <4> QED
        BY <3>1, <4>1, <4>2, SMT
    <3>3. \A i \in 1 .. q : i \in 1 .. n /\ walRecs'[g][i] = walRecs[g][i]
      BY <1>7, <2>1, <3>1, SMT
    <3> HIDE DEF n, q
    <3>4. DOMAIN walRecs[g] = 1 .. n /\ DOMAIN walRecs'[g] = 1 .. q
      BY <2>1, <2>4, <3>1 DEF n
    <3> QED
      BY <3>2, <3>3, <3>4 DEF Rec
  <2> QED
    BY <2>3, <2>4
<1> QED
  BY <1>1, <1>3, <1>5, <1>6, <1>7, <1>8, <1>9, GoneDown

-----------------------------------------------------------------------------
(* Recovery. *)

\* Loading the files of the manifest and deleting the others.
LEMMA LoadSstablesCInv ==
    ASSUME IInv', CInv, LoadSstables
    PROVE  CInv'
<1>1. mode = "down" /\ mode' # "failed"
  BY DEF LoadSstables, IInv, FilesInv, ModeInv
<1>2. /\ mode' = "loaded" /\ manifest' = manifestDisk
      /\ sst' = [p \in Seqs |-> IF p \in Paths(manifestDisk.files) THEN sst[p] ELSE EmptyTable]
  BY <1>1 DEF LoadSstables
<1>3. UNCHANGED <<walFiles, walRecs, walDurable, walGen, walBad, memtable, immutables, hist, acked,
                  manifestDisk, flush, comp, writer, drop>>
  BY DEF LoadSstables, walVars, tableVars, threadVars, clientVars, histVars
<1>4. ~Serving /\ ~Serving' /\ ~LogsOpen /\ ~LogsOpen'
  BY <1>1, <1>2 DEF Serving, LogsOpen
<1>5. \A f \in manifestDisk.files : sst'[f.path] = sst[f.path]
  <2>1. \A f \in manifestDisk.files : f.path \in Seqs
    BY <1>3 DEF IInv, TypeOK, ManifestContent, FileMeta
  <2> QED
    BY <1>2, <2>1 DEF Paths
<1>6. DiskInv'
  BY <1>2, <1>3, <1>4, <1>5, DiskFrame DEF CInv, walVars
<1>7. RecoveryInv' /\ flush.pc = "exited" /\ comp.pc = "exited"
  BY <1>1, <1>2, <1>3, <1>4 DEF CInv, RecoveryInv
<1>8. MemtablesInv' /\ FlushContent' /\ CompContent'
  BY <1>3, <1>4, <1>7 DEF MemtablesInv, FlushContent, CompContent, FlushBusy, CompBusy
<1>9. AckInv'
  <2>1. Durable' = Durable
    BY <1>3 DEF Durable
  <2> QED
    BY <1>3, <2>1 DEF CInv, AckInv
<1> QED
  BY <1>6, <1>7, <1>8, <1>9 DEF CInv

\* Nothing can be lost of an engine that does not serve.
LEMMA RecoveryIsDurable ==
    ASSUME Shapes, SegmentsInv, ~Serving
    PROVE  Durable = Len(hist)
<1>1. walGen \in Gens /\ Len(hist) \in Nat /\ Len(walRecs[walGen]) \in Nat /\ walDurable[walGen] = Len(walRecs[walGen])
  BY DEF Shapes, SegmentsInv
<1>2. \A a, b \in Nat : a - b + b = a
  BY SMT
<1> QED
  BY <1>1, <1>2 DEF Durable

\* recover_from_wal: replaying the segments and opening a fresh one.
LEMMA ReplayWalCInv ==
    ASSUME IInv, IInv', CInv, ReplayWal
    PROVE  CInv'
<1> DEFINE new == IF walFiles = {} THEN 0 ELSE Max(walFiles) + 1
<1>1. /\ mode = "loaded" /\ mode' = "checkpoint"
      /\ new <= MaxGen /\ walGen' = new /\ walFiles' = walFiles \cup {new}
      /\ memtable' = [k \in Keys |-> Replayed(k)]
  BY DEF ReplayWal
<1>2. UNCHANGED <<walRecs, walDurable, walBad, immutables, hist, acked, sst, manifestDisk, manifest, flush, comp, writer, drop>>
  BY DEF ReplayWal, sstVars, threadVars, clientVars, histVars
<1>3. Shapes /\ Shapes'
  BY ShapesOfTypes, ShapesOfTypesNext
<1>4. ~Serving /\ ~Serving' /\ LogsOpen'
  BY <1>1 DEF Serving, LogsOpen
<1>5. new \in Gens /\ new \notin walFiles /\ \A g \in walFiles : g <= new
  <2>1. CASE walFiles = {}
    BY <1>1, <1>3, <2>1 DEF Shapes
  <2>2. CASE walFiles # {}
    <3>1. walFiles \in SUBSET (0 .. MaxGen) /\ MaxGen \in Nat
      BY <1>3, BoundsAssumption DEF Shapes, Gens
    <3>2. Max(walFiles) \in walFiles /\ \A g \in walFiles : Max(walFiles) >= g
      BY <2>2, <3>1, MaxFacts
    <3>3. new = Max(walFiles) + 1
      BY <2>2
    <3> HIDE DEF new
    <3>4. new \in Gens
      BY <1>1, <1>3 DEF Shapes
    <3>5. \A g \in walFiles : g < new
      <4>0. \A x \in 0 .. MaxGen : x \in Nat
        BY <3>1, SMT
      <4>1. Max(walFiles) \in Nat /\ \A g \in walFiles : g \in Nat
        BY <3>1, <3>2, <4>0
      <4>2. \A a, b \in Nat : b >= a => a < b + 1
        BY SMT
      <4> QED
        BY <3>2, <3>3, <4>1, <4>2
    <3>6. \A a \in Gens : ~(a < a)
      BY SMT DEF Gens
    <3>7. \A a, b \in Gens : a < b => a <= b
      BY SMT DEF Gens
    <3> QED
      BY <3>1, <3>4, <3>5, <3>6, <3>7 DEF Gens
  <2> QED
    BY <2>1, <2>2
<1> HIDE DEF new
<1>6. walRecs[new] = <<>> /\ walRecs'[new] = <<>> /\ DOMAIN <<>> = {}
  BY <1>2, <1>5, SMT DEF CInv, DiskInv, SegmentsInv
<1>7. /\ \A h, k, e : Rec(h, k, e)' <=> Rec(h, k, e)
      /\ \A k, e : ~Rec(new, k, e)
      /\ \A k, e : ~Rec(walGen, k, e)'
  BY <1>1, <1>2, <1>6 DEF Rec
<1>8. /\ \A k, e : InFile(k, e)' <=> InFile(k, e)
      /\ \A k, e : WriteOf(k, e)' <=> WriteOf(k, e)
      /\ \A k, e, n : LastOf(k, e, n)' <=> LastOf(k, e, n)
  <2>1. \A k, e : WriteOf(k, e)' <=> WriteOf(k, e)
    BY <1>2 DEF WriteOf
  <2> QED
    BY <1>2, <2>1 DEF InFile, LastOf
<1>9. flush.pc = "exited" /\ comp.pc = "exited" /\ immutables = <<>>
  BY <1>4 DEF CInv, RecoveryInv
<1>10. LiveLogs = walFiles /\ LiveLogs' = walFiles \cup {new}
  BY <1>1, <1>2, <1>9 DEF LiveLogs
<1>11. \A k, e : Entry(k, e)' <=> Entry(k, e)
  BY <1>7, <1>8, <1>10 DEF Entry
<1>12. SegmentsInv'
  <2>1. \A g \in Gens : walDurable[g] = Len(walRecs[g]) /\ Len(walRecs[g]) \in Nat
    BY <1>3, <1>4 DEF CInv, DiskInv, SegmentsInv, Shapes
  <2>2. \A g \in walFiles' : g <= new
    BY <1>1, <1>5, SMT DEF Gens
  <2> QED
    BY <1>1, <1>2, <2>1, <2>2 DEF CInv, DiskInv, SegmentsInv
<1>13. Durable = Len(hist) /\ Durable' = Len(hist)
  <2>1. Durable = Len(hist)
    BY <1>3, <1>4, RecoveryIsDurable DEF CInv, DiskInv
  <2>2. walDurable'[walGen'] = Len(walRecs'[walGen'])
    BY <1>3, <1>4, <1>12 DEF SegmentsInv, Shapes
  <2>3. \A a, b \in Nat : a - b + b = a
    BY SMT
  <2>4. Len(hist') \in Nat /\ Len(walRecs'[walGen']) \in Nat /\ hist' = hist
    BY <1>2, <1>3 DEF Shapes
  <2> QED
    BY <2>1, <2>2, <2>3, <2>4 DEF Durable
<1>14. RecordsInv'
  <2>1. \A g \in walFiles', k \in Keys, id \in Ids : Rec(g, k, id)' => WriteOf(k, id)'
    BY <1>1, <1>7, <1>8, SMT DEF CInv, DiskInv, RecordsInv
  <2>2. \A g \in walFiles' : \A i \in 1 .. walDurable'[g] : walRecs'[g][i].id <= Durable'
    <3>1. walDurable'[new] = 0
      <4>1. walDurable[new] = Len(<<>>) /\ Len(<<>>) = 0
        BY <1>4, <1>5, <1>6 DEF CInv, DiskInv, SegmentsInv
      <4> QED
        BY <1>2, <4>1
    <3>2. \A i \in 1 .. walDurable'[new] : FALSE
      BY <3>1, SMT
    <3> QED
      BY <1>1, <1>2, <1>13, <3>2 DEF CInv, DiskInv, RecordsInv
  <2>3. \A i \in walDurable'[walGen'] + 1 .. Len(walRecs'[walGen']) : FALSE
    <3>1. walDurable'[walGen'] = Len(walRecs'[walGen']) /\ Len(walRecs'[walGen']) \in Nat
      BY <1>3, <1>4, <1>12 DEF SegmentsInv, Shapes
    <3> QED
      BY <3>1, SMT
  <2> QED
    BY <2>1, <2>2, <2>3 DEF RecordsInv
<1>15. RecordOrder'
  <2>1. \A g \in walFiles' : \A i, j \in DOMAIN walRecs'[g] :
           i < j /\ walRecs'[g][i].key = walRecs'[g][j].key => walRecs'[g][i].id <= walRecs'[g][j].id
    BY <1>1, <1>2, <1>6, SMT DEF CInv, DiskInv, RecordOrder
  <2>2. \A g, h \in walFiles', k \in Keys, d, e \in Ids :
           g < h /\ Rec(g, k, d)' /\ Rec(h, k, e)' => d <= e
    BY <1>1, <1>7, SMT DEF CInv, DiskInv, RecordOrder
  <2> QED
    BY <2>1, <2>2 DEF RecordOrder
<1>16. FilesHold'
  BY <1>1, <1>2, <1>8, <1>13 DEF CInv, DiskInv, FilesHold
<1>17. LogsOverFiles'
  <2>1. \A h \in walFiles', k \in Keys, d, e \in Ids :
           Rec(h, k, d)' /\ InFile(k, e)' => \E c \in Ids : Rec(h, k, c)' /\ c >= e
    BY <1>1, <1>7, <1>8, SMT DEF CInv, DiskInv, LogsOverFiles
  <2> QED
    BY <1>7, <2>1 DEF LogsOverFiles
<1>18. Covered'
  BY <1>2, <1>8, <1>11, <1>13 DEF CInv, DiskInv, Covered
<1>19. UnlinkCovered' /\ MemtablesInv' /\ FlushContent' /\ CompContent'
  BY <1>2, <1>4, <1>9 DEF UnlinkCovered, MemtablesInv, FlushContent, CompContent, FlushBusy, CompBusy
<1>20. RecoveryInv'
  <2>1. ASSUME NEW k \in Keys
        PROVE  /\ memtable'[k] # 0 => \E g \in walFiles' : Rec(g, k, memtable[k])'
               /\ \A g \in walFiles', id \in Ids : Rec(g, k, id)' => id <= memtable'[k]
    <3>1. memtable'[k] = Replayed(k)
      BY <1>1
    <3>2. \/ Replayed(k) = 0 /\ \A g \in walFiles : \A e : ~Rec(g, k, e)
          \/ /\ Replayed(k) \in Ids /\ Replayed(k) # 0
             /\ \E g \in walFiles : Rec(g, k, Replayed(k))
             /\ \A g \in walFiles, e \in Ids : Rec(g, k, e) => e <= Replayed(k)
      BY <1>3, ReplayedFacts DEF CInv, DiskInv
    <3>3. \A g, e : e = memtable'[k] => (Rec(g, k, memtable[k])' <=> Rec(g, k, e))
      BY <1>2 DEF Rec
    <3> QED
      BY <1>1, <1>7, <3>1, <3>2, <3>3, SMT
  <2> QED
    BY <1>1, <1>2, <1>9, <2>1 DEF RecoveryInv
<1>21. AckInv'
  <2>1. \A w \in Writers : writer[w].pc = "commit" => writer[w].id <= Len(hist)
    BY DEF CInv, AckInv
  <2>2. drop.pc = "commit" => drop.id <= Len(hist)
    BY DEF CInv, AckInv
  <2> QED
    BY <1>2, <1>13, <2>1, <2>2 DEF CInv, AckInv
<1> QED
  BY <1>12, <1>14, <1>15, <1>16, <1>17, <1>18, <1>19, <1>20, <1>21 DEF CInv, DiskInv

\* recover_from_wal: appending the next entry of the memtable to the fresh
\* segment, whose records are durable at once.
LEMMA CheckpointEntryCInv ==
    ASSUME LogsReliable, IInv, IInv', CInv, CheckpointEntry
    PROVE  CInv'
<1> DEFINE k == Min(Unchecked)
           id == memtable[k]
           n == Len(walRecs[walGen])
<1>1. /\ mode = "checkpoint" /\ Unchecked # {}
      /\ UNCHANGED <<walFiles, walGen, memtable, immutables, hist, acked, mode, sst, manifestDisk, manifest, flush, comp, writer, drop>>
  BY DEF CheckpointEntry, sstVars, threadVars, clientVars, histVars
<1>2. Shapes /\ Shapes'
  BY ShapesOfTypes, ShapesOfTypesNext
<1>3. ~Serving /\ ~Serving' /\ LogsOpen /\ LogsOpen' /\ flush.pc = "exited" /\ comp.pc = "exited"
  BY <1>1 DEF CInv, RecoveryInv, Serving, LogsOpen
<1>4. k \in Unchecked /\ k \in Keys
  <2>1. Unchecked \in SUBSET Nat
    BY KeysAssumption DEF Unchecked
  <2> QED
    BY <1>1, <2>1, MinFacts DEF Unchecked
<1>5. id # 0 /\ id \in Ids /\ id \in 1 .. MaxWrites /\ \A i \in 1 .. n : walRecs[walGen][i].key # k
  <2>1. DOMAIN walRecs[walGen] = 1 .. n /\ walGen \in Gens /\ id \in Ids
    BY <1>2, <1>4 DEF Shapes
  <2>2. \A j \in Unchecked : memtable[j] # 0 /\ \A i \in DOMAIN walRecs[walGen] : walRecs[walGen][i].key # j
    BY DEF Unchecked
  <2> HIDE DEF k
  <2>3. id # 0 /\ \A i \in 1 .. n : walRecs[walGen][i].key # k
    BY <1>4, <2>1, <2>2
  <2> HIDE DEF id
  <2> QED
    BY <2>1, <2>3, BoundsAssumption, SMT DEF Ids
<1> DEFINE rec == [key |-> k, id |-> id]
           recs == Append(walRecs[walGen], rec)
<1>6. /\ walRecs' = [walRecs EXCEPT ![walGen] = recs]
      /\ walDurable' = [walDurable EXCEPT ![walGen] = Len(recs)]
      /\ walBad' = {}
  <2>1. LogOutcomes = {TRUE} /\ walBad = {}
    BY DEF LogOutcomes, CInv, DiskInv, SegmentsInv, LogsReliable
  <2>2. PICK ok \in LogOutcomes :
            LET rs == IF ok THEN Append(walRecs[walGen], [key |-> k, id |-> memtable[k]])
                      ELSE walRecs[walGen]
            IN  /\ walRecs' = [walRecs EXCEPT ![walGen] = rs]
                /\ walDurable' = [walDurable EXCEPT ![walGen] = Len(rs)]
                /\ walBad' = IF ok THEN walBad ELSE walBad \cup {walGen}
    BY DEF CheckpointEntry
  <2>3. ok = TRUE
    BY <2>1
  <2> QED
    BY <2>1, <2>2, <2>3
<1>7. /\ walGen \in Gens /\ n \in Nat /\ DOMAIN walRecs[walGen] = 1 .. n
      /\ Len(recs) = n + 1 /\ DOMAIN recs = 1 .. n + 1
      /\ \A i \in 1 .. n : recs[i] = walRecs[walGen][i]
      /\ recs[n + 1].key = k /\ recs[n + 1].id = id
  <2>1. walRecs[walGen] \in Seq(Record)
    BY DEF IInv, TypeOK
  <2>2. rec \in Record /\ rec.key = k /\ rec.id = id
    BY <1>4, <1>5 DEF Record
  <2>3. walGen \in Gens /\ n \in Nat /\ DOMAIN walRecs[walGen] = 1 .. n
    BY <1>2 DEF Shapes
  <2> HIDE DEF rec
  <2> QED
    BY <2>1, <2>2, <2>3, AppendFacts, SMT
<1> HIDE DEF recs, rec
<1>8. /\ walRecs'[walGen] = recs /\ walDurable'[walGen] = n + 1
      /\ \A g \in Gens : g # walGen => walRecs'[g] = walRecs[g] /\ walDurable'[g] = walDurable[g]
  BY <1>2, <1>6, <1>7 DEF IInv, TypeOK
<1> HIDE DEF k, id, n
<1>9. \A i : i \in 1 .. n + 1 <=> i \in 1 .. n \/ i = n + 1
  BY <1>7, SMT
<1>10. \A g \in Gens : \A j, e : Rec(g, j, e)' <=> Rec(g, j, e) \/ (g = walGen /\ j = k /\ e = id)
  <2>1. ASSUME NEW g \in Gens, NEW j, NEW e, g = walGen
        PROVE  Rec(g, j, e)' <=> Rec(g, j, e) \/ (j = k /\ e = id)
    <3>1. walRecs'[g] = recs /\ DOMAIN walRecs[g] = 1 .. n /\ walRecs[g] = walRecs[walGen]
      BY <1>7, <1>8, <2>1
    <3> QED
      BY <1>7, <1>9, <3>1 DEF Rec
  <2>2. ASSUME NEW g \in Gens, NEW j, NEW e, g # walGen
        PROVE  Rec(g, j, e)' <=> Rec(g, j, e)
    <3>1. walRecs'[g] = walRecs[g]
      BY <1>8, <2>2
    <3> QED
      BY <3>1 DEF Rec
  <2> QED
    BY <2>1, <2>2, SMT
<1>11. /\ \A j, e : InFile(j, e)' <=> InFile(j, e)
       /\ \A j, e : WriteOf(j, e)' <=> WriteOf(j, e)
       /\ \A j, e, m : LastOf(j, e, m)' <=> LastOf(j, e, m)
       /\ LiveLogs' = walFiles /\ LiveLogs = walFiles
  <2>1. \A j, e : WriteOf(j, e)' <=> WriteOf(j, e)
    BY <1>1 DEF WriteOf
  <2> QED
    BY <1>1, <1>3, <2>1 DEF InFile, LastOf, LiveLogs
<1>12. /\ walFiles \subseteq Gens /\ walGen \in walFiles /\ \A g \in walFiles : g <= walGen
       /\ \A e : ~Rec(walGen, k, e)
       /\ \A g \in walFiles, e \in Ids : Rec(g, k, e) => e <= id
  <2>1. walFiles \subseteq Gens /\ walGen \in walFiles /\ \A g \in walFiles : g <= walGen
    BY <1>2, <1>3 DEF Shapes, CInv, DiskInv, SegmentsInv
  <2>2. \A e : ~Rec(walGen, k, e)
    BY <1>5, <1>7 DEF Rec
  <2>3. \A g \in walFiles, e \in Ids : Rec(g, k, e) => e <= id
    BY <1>1, <1>4 DEF CInv, RecoveryInv, id
  <2> QED
    BY <2>1, <2>2, <2>3
<1>13. PICK src \in walFiles : Rec(src, k, id) /\ src # walGen
  BY <1>1, <1>4, <1>5, <1>12 DEF CInv, RecoveryInv, id
<1>14. WriteOf(k, id)
  BY <1>4, <1>5, <1>13 DEF CInv, DiskInv, RecordsInv
<1>15. \A j, e : Entry(j, e)' <=> Entry(j, e)
  BY <1>10, <1>11, <1>12, <1>13 DEF Entry
<1>16. SegmentsInv'
  <2>1. \A g \in Gens : walDurable'[g] = Len(walRecs'[g]) /\ Len(walRecs'[g]) \in Nat
    <3>1. \A g \in Gens : g # walGen => walDurable[g] = Len(walRecs[g]) /\ Len(walRecs[g]) \in Nat
      BY <1>2, <1>3 DEF CInv, DiskInv, SegmentsInv, Shapes
    <3> QED
      BY <1>7, <1>8, <3>1, SMT
  <2>2. \A g \in Gens \ walFiles : walRecs'[g] = <<>>
    BY <1>8, <1>12 DEF CInv, DiskInv, SegmentsInv
  <2> QED
    BY <1>1, <1>6, <1>12, <2>1, <2>2, SMT DEF SegmentsInv
<1>17. Durable = Len(hist) /\ Durable' = Len(hist)
  <2>1. Durable = Len(hist)
    BY <1>2, <1>3, RecoveryIsDurable DEF CInv, DiskInv
  <2>2. Len(hist) \in Nat /\ Len(walRecs'[walGen]) = n + 1
    BY <1>2, <1>7, <1>8 DEF Shapes
  <2>3. \A a, b \in Nat : a - (b + 1) + (b + 1) = a
    BY SMT
  <2> QED
    BY <1>1, <1>7, <1>8, <2>1, <2>2, <2>3 DEF Durable
<1>18. RecordsInv'
  <2>1. \A g \in walFiles, j \in Keys, e \in Ids : Rec(g, j, e)' => WriteOf(j, e)
    BY <1>10, <1>12, <1>14 DEF CInv, DiskInv, RecordsInv
  <2>2. ASSUME NEW g \in walFiles, NEW i \in 1 .. walDurable'[g] PROVE walRecs'[g][i].id <= Len(hist)
    <3>1. CASE g # walGen
      BY <1>8, <1>12, <1>17, <2>2, <3>1 DEF CInv, DiskInv, RecordsInv
    <3>2. CASE g = walGen /\ i = n + 1
      <4>1. walRecs'[g][i].id \in 1 .. Len(hist) /\ Len(hist) \in Nat
        BY <1>2, <1>7, <1>8, <1>14, <3>2 DEF WriteOf, Shapes
      <4> QED
        BY <4>1, SMT
    <3>3. CASE g = walGen /\ i \in 1 .. n
      <4>1. walDurable[walGen] = n
        BY <1>3, <1>7 DEF CInv, DiskInv, SegmentsInv, n
      <4> QED
        BY <1>7, <1>8, <1>17, <3>3, <4>1 DEF CInv, DiskInv, RecordsInv
    <3> QED
      BY <1>8, <1>9, <3>1, <3>2, <3>3
  <2>3. \A i \in walDurable'[walGen'] + 1 .. Len(walRecs'[walGen']) : FALSE
    BY <1>1, <1>7, <1>8, SMT
  <2> QED
    BY <1>1, <1>11, <1>17, <2>1, <2>2, <2>3 DEF RecordsInv
<1>19. RecordOrder'
  <2>1. ASSUME NEW g \in walFiles, NEW i \in DOMAIN walRecs'[g], NEW j \in DOMAIN walRecs'[g],
               i < j, walRecs'[g][i].key = walRecs'[g][j].key
        PROVE  walRecs'[g][i].id <= walRecs'[g][j].id
    <3>1. CASE g # walGen
      BY <1>8, <1>12, <2>1, <3>1 DEF CInv, DiskInv, RecordOrder
    <3>2. CASE g = walGen
      <4>1. i \in 1 .. n + 1 /\ j \in 1 .. n + 1 /\ walRecs'[g] = recs
        BY <1>7, <1>8, <3>2
      <4>2. i \in 1 .. n
        BY <1>7, <2>1, <4>1, SMT
      <4>3. CASE j \in 1 .. n
        BY <1>7, <2>1, <3>2, <4>1, <4>2, <4>3 DEF CInv, DiskInv, RecordOrder
      <4>4. CASE j = n + 1
        BY <1>5, <1>7, <2>1, <4>1, <4>2, <4>4
      <4> QED
        BY <1>9, <4>1, <4>3, <4>4
    <3> QED
      BY <3>1, <3>2
  <2>2. ASSUME NEW g \in walFiles, NEW h \in walFiles, NEW j \in Keys, NEW d \in Ids, NEW e \in Ids,
               g < h, Rec(g, j, d)', Rec(h, j, e)'
        PROVE  d <= e
    <3>1. g # walGen
      <4>1. \A a, b \in Gens : a < b => ~(b <= a)
        BY SMT DEF Gens
      <4> QED
        BY <1>12, <2>2, <4>1
    <3>2. Rec(g, j, d)
      BY <1>10, <1>12, <2>2, <3>1
    <3>3. CASE Rec(h, j, e)
      BY <2>2, <3>2, <3>3 DEF CInv, DiskInv, RecordOrder
    <3>4. CASE j = k /\ e = id
      BY <1>12, <3>2, <3>4
    <3> QED
      BY <1>10, <1>12, <2>2, <3>3, <3>4, SMT
  <2> QED
    BY <1>1, <2>1, <2>2 DEF RecordOrder
<1>20. FilesHold'
  BY <1>1, <1>11, <1>17 DEF CInv, DiskInv, FilesHold
<1>21. \A e \in Ids : InFile(k, e) => id >= e
  <2>1. SUFFICES ASSUME NEW e \in Ids, InFile(k, e) PROVE id >= e
    OBVIOUS
  <2>2. PICK c \in Ids : Rec(src, k, c) /\ c >= e
    BY <1>4, <1>5, <1>13, <2>1 DEF CInv, DiskInv, LogsOverFiles
  <2>3. c <= id
    BY <1>12, <2>2
  <2> QED
    BY <1>5, <2>2, <2>3, SMT DEF Ids
<1>22. LogsOverFiles'
  <2>1. ASSUME NEW g \in walFiles, NEW j \in Keys, NEW d \in Ids, NEW e \in Ids, Rec(g, j, d)', InFile(j, e)
        PROVE  \E c \in Ids : Rec(g, j, c)' /\ c >= e
    <3>1. CASE Rec(g, j, d)
      BY <1>10, <1>12, <2>1, <3>1 DEF CInv, DiskInv, LogsOverFiles
    <3>2. CASE g = walGen /\ j = k /\ d = id
      BY <1>21, <2>1, <3>2
    <3> QED
      BY <1>10, <1>12, <2>1, <3>1, <3>2, SMT
  <2>2. ASSUME NEW j \in Keys, NEW d \in Ids, NEW e \in Ids, Rec(walGen, j, d)', InFile(j, e)
        PROVE  d >= e
    <3>0. \A g : g = walGen => Rec(g, j, d)'
      BY <1>1, <2>2 DEF Rec
    <3>1. Rec(walGen, j, d) \/ (j = k /\ d = id)
      BY <1>7, <1>10, <3>0
    <3> QED
      BY <1>3, <1>21, <2>2, <3>1 DEF CInv, DiskInv, LogsOverFiles
  <2> QED
    BY <1>1, <1>11, <2>1, <2>2 DEF LogsOverFiles
<1>23. Covered'
  BY <1>1, <1>11, <1>15, <1>17 DEF CInv, DiskInv, Covered
<1>24. UnlinkCovered' /\ MemtablesInv' /\ FlushContent' /\ CompContent'
  BY <1>1, <1>3 DEF UnlinkCovered, MemtablesInv, FlushContent, CompContent, FlushBusy, CompBusy
<1>25. RecoveryInv'
  <2>1. ASSUME NEW j \in Keys
        PROVE  /\ memtable[j] # 0 => \E g \in walFiles : Rec(g, j, memtable[j])'
               /\ \A g \in walFiles, e \in Ids : Rec(g, j, e)' => e <= memtable[j]
    <3>1. memtable[j] # 0 => \E g \in walFiles : Rec(g, j, memtable[j])
      BY <1>1 DEF CInv, RecoveryInv
    <3>2. \A g \in walFiles : Rec(g, j, memtable[j]) => Rec(g, j, memtable[j])'
      <4>1. \A g \in walFiles : \A e : Rec(g, j, e) => Rec(g, j, e)'
        BY <1>10, <1>12
      <4>2. \A g, e : e = memtable[j] => (Rec(g, j, memtable[j])' <=> Rec(g, j, e)')
        BY <1>1 DEF Rec
      <4> QED
        BY <4>1, <4>2
    <3>3. \A g \in walFiles, e \in Ids : Rec(g, j, e) => e <= memtable[j]
      BY <1>1 DEF CInv, RecoveryInv
    <3>4. id <= memtable[k]
      BY <1>5, SMT DEF id, Ids
    <3> QED
      BY <1>10, <1>12, <3>1, <3>2, <3>3, <3>4
  <2>2. immutables' = <<>>
    BY <1>1, <1>3 DEF CInv, RecoveryInv
  <2> QED
    BY <1>1, <1>3, <2>1, <2>2 DEF RecoveryInv
<1>26. AckInv'
  BY <1>1, <1>17 DEF CInv, AckInv
<1> QED
  BY <1>16, <1>18, <1>19, <1>20, <1>22, <1>23, <1>24, <1>25, <1>26 DEF CInv, DiskInv

\* The checkpoint is complete: the fresh segment has all the memtable has.
LEMMA FinishCheckpointCInv ==
    ASSUME LogsReliable, IInv, CInv, FinishCheckpoint
    PROVE  CInv'
<1>1. /\ mode = "checkpoint" /\ mode' = "discard"
      /\ UNCHANGED <<walFiles, walRecs, walDurable, walGen, walBad, memtable, immutables, hist, acked,
                     sst, manifestDisk, manifest, sstables, flush, comp, writer, drop>>
  BY DEF FinishCheckpoint, CheckpointDone, diskVars, walVars, sstVars, tableVars, threadVars, clientVars, histVars
<1>2. ~Serving /\ ~Serving' /\ LogsOpen /\ LogsOpen' /\ flush.pc = "exited" /\ comp.pc = "exited" /\ immutables = <<>>
  BY <1>1 DEF CInv, RecoveryInv, Serving, LogsOpen
<1>3. Shapes
  BY ShapesOfTypes
<1>4. Unchecked = {}
  BY DEF FinishCheckpoint, CheckpointDone, CInv, DiskInv, SegmentsInv
<1>5. DiskInv'
  <2>1. manifest'.files = manifestDisk.files
    BY <1>1 DEF CInv, DiskInv, FilesHold
  <2> QED
    BY <1>1, <1>2, <2>1, DiskFrame DEF CInv, walVars
<1>6. MemtablesInv' /\ FlushContent' /\ CompContent'
  BY <1>1, <1>2 DEF MemtablesInv, FlushContent, CompContent, FlushBusy, CompBusy
<1>7. ASSUME NEW k \in Keys, memtable[k] # 0 PROVE Rec(walGen, k, memtable[k])
  <2>1. PICK i \in DOMAIN walRecs[walGen] : walRecs[walGen][i].key = k
    BY <1>4, <1>7 DEF Unchecked
  <2> DEFINE d == walRecs[walGen][i].id
             m == memtable[k]
  <2>2. Rec(walGen, k, d)
    BY <2>1 DEF Rec
  <2>3. d \in Ids /\ m \in Ids /\ walGen \in walFiles /\ \A h \in walFiles : h <= walGen
    BY <1>2, <1>3, <2>1 DEF Shapes, CInv, DiskInv, SegmentsInv
  <2>4. d <= m
    BY <1>1, <2>2, <2>3 DEF CInv, RecoveryInv
  <2>5. PICK g \in walFiles : Rec(g, k, m)
    BY <1>1, <1>7 DEF CInv, RecoveryInv
  <2>6. CASE g = walGen
    BY <2>5, <2>6
  <2>7. CASE g # walGen
    <3>1. \A a, b \in Gens : a <= b /\ a # b => a < b
      BY SMT DEF Gens
    <3>2. g < walGen
      BY <1>3, <2>3, <2>7, <3>1 DEF Shapes
    <3> HIDE DEF d, m
    <3>3. m <= d
      BY <2>2, <2>3, <2>5, <3>2 DEF CInv, DiskInv, RecordOrder
    <3>4. m = d
      BY <2>3, <2>4, <3>3, SMT DEF Ids
    <3>5. Rec(walGen, k, m)
      BY <2>2, <3>4
    <3> QED
      BY <3>5 DEF m
  <2> QED
    BY <2>6, <2>7
<1>8. RecoveryInv'
  <2>1. \A g, k, e : Rec(g, k, e)' <=> Rec(g, k, e)
    BY <1>1 DEF Rec
  <2>2. \A k \in Keys :
           /\ memtable[k] # 0 => \E g \in walFiles : Rec(g, k, memtable[k])
           /\ \A g \in walFiles, id \in Ids : Rec(g, k, id) => id <= memtable[k]
    BY <1>1 DEF CInv, RecoveryInv
  <2>3. \A k : Rec(walGen, k, memtable[k])' <=> Rec(walGen, k, memtable[k])
    BY <1>1 DEF Rec
  <2>4. \A g, k : Rec(g, k, memtable[k])' <=> Rec(g, k, memtable[k])
    BY <1>1 DEF Rec
  <2> QED
    BY <1>1, <1>2, <1>7, <2>1, <2>2, <2>3, <2>4 DEF RecoveryInv
<1>9. AckInv'
  <2>1. Durable' = Durable
    BY <1>1 DEF Durable
  <2> QED
    BY <1>1, <2>1 DEF CInv, AckInv
<1> QED
  BY <1>5, <1>6, <1>8, <1>9 DEF CInv

\* Deleting an old segment: the fresh one has the newest record of each key.
LEMMA DiscardSegmentCInv ==
    ASSUME IInv, IInv', CInv, DiscardSegment
    PROVE  CInv'
<1>1. /\ mode = "discard"
      /\ UNCHANGED <<mode, walGen, walBad, memtable, immutables, hist, acked,
                     sst, manifestDisk, manifest, flush, comp, writer, drop>>
  BY DEF DiscardSegment, sstVars, tableVars, threadVars, clientVars, histVars
<1>2. PICK g \in walFiles \ {walGen} : RemoveSegment(g)
  BY DEF DiscardSegment, OldSegments
<1>3. /\ walFiles' = walFiles \ {g}
      /\ walRecs' = [walRecs EXCEPT ![g] = <<>>]
      /\ walDurable' = [walDurable EXCEPT ![g] = 0]
  BY <1>2 DEF RemoveSegment
<1>4. Shapes /\ Shapes'
  BY ShapesOfTypes, ShapesOfTypesNext
<1>5. ~Serving /\ ~Serving' /\ LogsOpen /\ LogsOpen' /\ flush.pc = "exited" /\ comp.pc = "exited" /\ immutables = <<>>
  BY <1>1 DEF CInv, RecoveryInv, Serving, LogsOpen
<1>6. g \in Gens /\ g \in walFiles /\ g # walGen /\ walGen \in Gens /\ walGen \in walFiles
  BY <1>4, <1>5 DEF Shapes, CInv, DiskInv, SegmentsInv
<1>7. /\ walRecs'[g] = <<>> /\ walDurable'[g] = 0
      /\ \A h \in Gens : h # g => walRecs'[h] = walRecs[h] /\ walDurable'[h] = walDurable[h]
  <2>1. DOMAIN walRecs = Gens /\ DOMAIN walDurable = Gens
    BY DEF IInv, TypeOK
  <2> QED
    BY <1>3, <1>6, <2>1
<1>8. \A h \in Gens : \A k, e : Rec(h, k, e)' <=> h # g /\ Rec(h, k, e)
  <2>1. \A k, e : ~Rec(g, k, e)'
    BY <1>7, SMT DEF Rec
  <2>2. ASSUME NEW h \in Gens, NEW k, NEW e, h # g
        PROVE  Rec(h, k, e)' <=> Rec(h, k, e)
    <3>1. walRecs'[h] = walRecs[h]
      BY <1>7, <2>2
    <3> QED
      BY <3>1 DEF Rec
  <2> QED
    BY <2>1, <2>2
<1>9. /\ \A k, e : InFile(k, e)' <=> InFile(k, e)
      /\ \A k, e : WriteOf(k, e)' <=> WriteOf(k, e)
      /\ \A k, e, n : LastOf(k, e, n)' <=> LastOf(k, e, n)
      /\ LiveLogs = walFiles /\ LiveLogs' = walFiles'
      /\ Durable' = Durable
  <2>1. \A k, e : WriteOf(k, e)' <=> WriteOf(k, e)
    BY <1>1 DEF WriteOf
  <2> QED
    BY <1>1, <1>5, <1>6, <1>7, <2>1 DEF InFile, LastOf, LiveLogs, Durable
<1>10. \A h \in walFiles' : h \in Gens /\ h \in walFiles /\ h # g /\ walRecs'[h] = walRecs[h] /\ walDurable'[h] = walDurable[h]
  BY <1>3, <1>4, <1>7 DEF Shapes
<1>11. \A k, e : Entry(k, e)' => Entry(k, e)
  BY <1>8, <1>9, <1>10 DEF Entry
<1>12. SegmentsInv'
  <2>1. Len(<<>>) = 0
    OBVIOUS
  <2>2. \A h \in Gens : walDurable'[h] = Len(walRecs'[h]) /\ Len(walRecs'[h]) \in Nat
    BY <1>4, <1>5, <1>7, <2>1 DEF CInv, DiskInv, SegmentsInv, Shapes
  <2>3. \A h \in Gens \ walFiles' : walRecs'[h] = <<>>
    BY <1>3, <1>7 DEF CInv, DiskInv, SegmentsInv
  <2>4. walGen \in walFiles' /\ \A h \in walFiles' : h <= walGen
    BY <1>3, <1>5, <1>6 DEF CInv, DiskInv, SegmentsInv
  <2> QED
    BY <1>1, <2>2, <2>3, <2>4, SMT DEF CInv, DiskInv, SegmentsInv
<1>13. RecordsInv'
  <2>1. \A h \in walFiles', k \in Keys, id \in Ids : Rec(h, k, id)' => WriteOf(k, id)'
    BY <1>8, <1>9, <1>10 DEF CInv, DiskInv, RecordsInv
  <2>2. \A h \in walFiles' : \A i \in 1 .. walDurable'[h] : walRecs'[h][i].id <= Durable'
    BY <1>9, <1>10 DEF CInv, DiskInv, RecordsInv
  <2> QED
    BY <1>1, <1>6, <1>7, <2>1, <2>2 DEF CInv, DiskInv, RecordsInv
<1>14. RecordOrder'
  BY <1>8, <1>10 DEF CInv, DiskInv, RecordOrder
<1>15. FilesHold'
  BY <1>1, <1>9 DEF CInv, DiskInv, FilesHold
<1>16. \A k, d : Rec(walGen, k, d)' <=> Rec(walGen, k, d)
  BY <1>1, <1>6, <1>7 DEF Rec
<1>17. LogsOverFiles'
  <2>1. \A h \in walFiles', k \in Keys, d, e \in Ids :
           Rec(h, k, d)' /\ InFile(k, e)' => \E c \in Ids : Rec(h, k, c)' /\ c >= e
    BY <1>8, <1>9, <1>10 DEF CInv, DiskInv, LogsOverFiles
  <2>2. \A k \in Keys, d, e \in Ids : Rec(walGen, k, d)' /\ InFile(k, e)' => d >= e
    BY <1>5, <1>9, <1>16 DEF CInv, DiskInv, LogsOverFiles
  <2> QED
    BY <2>1, <2>2 DEF LogsOverFiles
<1>18. Durable = Len(hist) /\ Len(hist) \in Nat
  BY <1>4, <1>5, RecoveryIsDurable DEF CInv, DiskInv, Shapes
<1>19. ASSUME NEW k \in Keys, NEW id \in Ids, NEW n \in Durable .. Len(hist), LastOf(k, id, n), Entry(k, id)
       PROVE  Entry(k, id)'
  <2>1. CASE Rec(g, k, id)
    <3>1. id <= memtable[k] /\ memtable[k] \in Ids /\ id \in 1 .. Len(hist)
      BY <1>1, <1>4, <1>6, <1>19, <2>1 DEF CInv, RecoveryInv, Shapes, LastOf, WriteOf
    <3>2. memtable[k] # 0 /\ memtable[k] \in Nat
      BY <1>18, <3>1, SMT DEF Ids
    <3>3. Rec(walGen, k, memtable[k])
      BY <1>1, <3>2 DEF CInv, RecoveryInv
    <3>4. WriteOf(k, memtable[k]) /\ memtable[k] \in 1 .. Len(hist)
      BY <1>4, <1>6, <3>1, <3>3 DEF CInv, DiskInv, RecordsInv, WriteOf, Shapes
    <3>5. memtable[k] \notin id + 1 .. n
      BY <1>19, <3>4 DEF LastOf, WriteOf
    <3>6. memtable[k] = id
      <4>1. n = Len(hist)
        BY <1>18, SMT
      <4> QED
        BY <1>18, <3>1, <3>2, <3>4, <3>5, <4>1, SMT
    <3>7. \A h : h = walGen => Rec(h, k, id)'
      BY <1>6, <1>8, <3>3, <3>6
    <3> QED
      BY <1>3, <1>6, <1>9, <3>7 DEF Entry
  <2>2. CASE ~Rec(g, k, id)
    <3>1. InFile(k, id) \/ \E h \in walFiles : h # g /\ Rec(h, k, id)
      BY <1>9, <1>19, <2>2 DEF Entry
    <3>2. \A h \in walFiles : h # g => h \in walFiles' /\ (Rec(h, k, id) => Rec(h, k, id)')
      BY <1>3, <1>4, <1>8 DEF Shapes
    <3> QED
      BY <1>9, <3>1, <3>2 DEF Entry
  <2> QED
    BY <2>1, <2>2
<1>20. Covered'
  <2>1. SUFFICES ASSUME NEW k \in Keys, NEW id \in Ids, NEW n \in Durable .. Len(hist), LastOf(k, id, n)
                 PROVE  \/ Entry(k, id)'
                        \/ hist[id].val = 0 /\ \A e \in Ids : Entry(k, e)' => e > n
    BY <1>1, <1>9 DEF Covered
  <2> QED
    BY <1>11, <1>19, <2>1 DEF CInv, DiskInv, Covered
<1>21. UnlinkCovered' /\ MemtablesInv' /\ FlushContent' /\ CompContent'
  BY <1>1, <1>5 DEF UnlinkCovered, MemtablesInv, FlushContent, CompContent, FlushBusy, CompBusy
<1>22. RecoveryInv'
  <2>1. ASSUME NEW k \in Keys
        PROVE  /\ memtable[k] # 0 => Rec(walGen, k, memtable[k])'
               /\ \A h \in walFiles', id \in Ids : Rec(h, k, id)' => id <= memtable[k]
    <3>1. Rec(walGen, k, memtable[k])' <=> Rec(walGen, k, memtable[k])
      BY <1>1, <1>6, <1>7 DEF Rec
    <3>2. memtable[k] # 0 => Rec(walGen, k, memtable[k])
      BY <1>1 DEF CInv, RecoveryInv
    <3>3. \A h \in walFiles, id \in Ids : Rec(h, k, id) => id <= memtable[k]
      BY <1>1 DEF CInv, RecoveryInv
    <3> QED
      BY <1>8, <1>10, <3>1, <3>2, <3>3
  <2>2. walGen' \in walFiles'
    BY <1>1, <1>3, <1>6
  <2> QED
    BY <1>1, <1>5, <2>1, <2>2 DEF RecoveryInv
<1>23. AckInv'
  BY <1>1, <1>9 DEF CInv, AckInv
<1> QED
  BY <1>12, <1>13, <1>14, <1>15, <1>17, <1>20, <1>21, <1>22, <1>23 DEF CInv, DiskInv

\* The engine comes up with the fresh segment and the memtable it describes.
LEMMA StartCInv ==
    ASSUME LogsReliable, IInv, CInv, Start
    PROVE  CInv'
<1>1. /\ mode = "discard" /\ mode' = "up" /\ OldSegments = {}
      /\ flush'.pc = "wait" /\ comp'.pc = "wait"
      /\ UNCHANGED <<walFiles, walRecs, walDurable, walGen, walBad, memtable, immutables, hist, acked,
                     sst, manifestDisk, manifest, sstables, writer, drop>>
  BY DEF Start, LogsReliable, diskVars, walVars, sstVars, tableVars, clientVars, histVars, IdleFlush, IdleComp
<1>2. ~Serving /\ Serving' /\ LogsOpen /\ LogsOpen' /\ flush.pc = "exited" /\ comp.pc = "exited" /\ immutables = <<>>
  BY <1>1 DEF CInv, RecoveryInv, Serving, LogsOpen
<1>3. walFiles = {walGen}
  BY <1>1, <1>2 DEF OldSegments, CInv, DiskInv, SegmentsInv
<1>4. DiskInv'
  <2>1. manifest'.files = manifestDisk.files
    BY <1>1 DEF CInv, DiskInv, FilesHold
  <2> QED
    BY <1>1, <1>2, <2>1, DiskFrame DEF CInv, walVars
<1>5. DOMAIN immutables' = {} /\ immutables' = <<>>
  BY <1>1, <1>2, SMT
<1>6. MemtablesInv'
  <2>1. Holds(memtable, walGen)
    BY <1>1, <1>3 DEF CInv, RecoveryInv, Holds
  <2>2. Holds(memtable, walGen)'
    BY <1>1, <2>1 DEF Holds, Rec
  <2>3. SegmentsMatchMemtables'
    BY <1>1, <1>3, <1>5 DEF SegmentsMatchMemtables
  <2> QED
    BY <1>5, <2>2, <2>3 DEF MemtablesInv
<1>7. FlushContent' /\ CompContent' /\ RecoveryInv'
  BY <1>1, <1>2 DEF FlushContent, CompContent, FlushBusy, CompBusy, RecoveryInv
<1>8. AckInv'
  <2>1. Durable' = Durable
    BY <1>1 DEF Durable
  <2> QED
    BY <1>1, <2>1 DEF CInv, AckInv
<1> QED
  BY <1>4, <1>6, <1>7, <1>8 DEF CInv

-----------------------------------------------------------------------------
(* The initial state, all steps of recovery, and no step. *)

\* The empty directory of the first start satisfies CInv.
LEMMA InitCInv == Init => CInv
<1> SUFFICES ASSUME Init PROVE CInv
  OBVIOUS
<1>1. /\ walFiles = {} /\ \A g \in Gens : walRecs[g] = <<>> /\ walDurable[g] = 0
      /\ manifestDisk.files = {} /\ mode = "down" /\ immutables = <<>>
      /\ walGen = 0 /\ walGen \in Gens /\ walBad = {} /\ hist = <<>> /\ acked = 0
      /\ flush.pc = "exited" /\ comp.pc = "exited" /\ drop.pc = "idle"
      /\ \A w \in Writers : writer[w].pc = "idle"
  BY BoundsAssumption, SMT DEF Init, NoFiles, IdleFlush, IdleComp, IdleDrop, IdleWriter, Gens
<1>2. Len(<<>>) = 0 /\ DOMAIN <<>> = {}
  BY SMT
<1>3. ~Serving /\ ~LogsOpen
  BY <1>1 DEF Serving, LogsOpen
<1>4. Durable = 0
  BY <1>1, <1>2, SMT DEF Durable
<1>5. SegmentsInv
  BY <1>1, <1>2, <1>3, SMT DEF SegmentsInv
<1>6. RecordsInv
  <2>1. \A i \in walDurable[walGen] + 1 .. Len(walRecs[walGen]) : FALSE
    BY <1>1, <1>2, SMT
  <2> QED
    BY <1>1, <2>1 DEF RecordsInv
<1>7. RecordOrder /\ FilesHold /\ LogsOverFiles
  BY <1>1, <1>3 DEF RecordOrder, FilesHold, LogsOverFiles
<1>8. Covered /\ UnlinkCovered
  BY <1>1, <1>2 DEF Covered, UnlinkCovered, LastOf, WriteOf
<1>9. MemtablesInv /\ RecoveryInv /\ FlushContent /\ CompContent /\ AckInv
  BY <1>1, <1>3, <1>4, SMT DEF MemtablesInv, RecoveryInv, FlushContent, CompContent, AckInv, FlushBusy, CompBusy
<1> QED
  BY <1>5, <1>6, <1>7, <1>8, <1>9 DEF CInv, DiskInv

\* Every step of the recovery preserves CInv.
LEMMA RecoveryStepCInv ==
    ASSUME LogsReliable, IInv, IInv', CInv, RecoveryStep
    PROVE  CInv'
BY LoadSstablesCInv, ReplayWalCInv, CheckpointEntryCInv, FinishCheckpointCInv, DiscardSegmentCInv, StartCInv
   DEF RecoveryStep

\* A step that changes nothing preserves CInv.
LEMMA StutterCInv ==
    ASSUME CInv, UNCHANGED vars
    PROVE  CInv'
<1>1. UNCHANGED <<walFiles, walRecs, walDurable, walGen, walBad, memtable, immutables, hist, acked,
                  sst, manifestDisk, manifest, sstables, flush, comp, writer, drop, mode>>
  BY DEF vars, walVars, sstVars, tableVars, threadVars, clientVars, histVars
<1>2. (Serving' <=> Serving) /\ (LogsOpen' <=> LogsOpen)
  BY <1>1 DEF Serving, LogsOpen
<1>3. DiskInv'
  <2>1. mode' # "down" => manifest'.files = manifestDisk.files
    BY <1>1 DEF CInv, DiskInv, FilesHold
  <2> QED
    BY <1>1, <1>2, <2>1, DiskFrame DEF CInv, walVars
<1>4. MemtablesInv'
  BY <1>1, <1>2, MemtablesFrame DEF CInv
<1>5. FlushContent'
  BY <1>1, FlushContentFrame DEF CInv
<1>6. CompContent'
  <2>1. \A id : Deleted(id) => Deleted(id)'
    BY <1>1 DEF Deleted
  <2> QED
    BY <1>1, <2>1, MergeFrame DEF CInv
<1>7. RecoveryInv'
  BY <1>1, <1>2, SMT DEF CInv, RecoveryInv, Rec
<1>8. AckInv'
  <2>1. Durable' = Durable
    BY <1>1 DEF Durable
  <2> QED
    BY <1>1, <2>1 DEF CInv, AckInv
<1> QED
  BY <1>3, <1>4, <1>5, <1>6, <1>7, <1>8 DEF CInv

=============================================================================
