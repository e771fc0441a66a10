------------------------- MODULE LsmEngineInvariant -------------------------
(***************************************************************************)
(* Steps of LsmEngine that preserve IInv: the initial state, puts, the     *)
(* flush thread, shutdown, and the compaction thread with the run that     *)
(* compact() selects, the number its output gets, and the place the output *)
(* takes in sstables_.  LsmEngineProofs adds the other steps.              *)
(***************************************************************************)
EXTENDS LsmFacts

\* A leaf that names no prover is for Zenon; those with arithmetic name SMT.
USE Zenon

\* TypeOK is the conjunction of four parts, each about the variables that
\* change together; the steps below preserve them one at a time.
LEMMA TypeParts ==
    /\ TypeOK <=> TypeLog /\ TypeClients /\ TypeTables /\ TypeManifest
    /\ TypeOK' <=> TypeLog' /\ TypeClients' /\ TypeTables' /\ TypeManifest'
BY DEF TypeOK, TypeLog, TypeClients, TypeTables, TypeManifest

-----------------------------------------------------------------------------
(* What the operators of the model return. *)

\* What a read returns for an entry is again a write id.
LEMMA LiveType ==
    ASSUME TypeClients, NEW id \in Ids
    PROVE  Live(id) \in Ids
<1>1. CASE id \in DOMAIN hist
  <2>1. hist \in Seq([key : Keys, val : Ids])
    BY DEF TypeClients
  <2>2. hist[id] \in [key : Keys, val : Ids]
    BY <1>1, <2>1, LenProperties, ElementOfSeq
  <2> QED
    BY <1>1, <2>2 DEF Live
<1>2. CASE id \notin DOMAIN hist
  BY <1>2 DEF Live
<1> QED
  BY <1>1, <1>2

\* An element of a sequence, by any index of its domain.
LEMMA SeqElement ==
    ASSUME NEW S, NEW s \in Seq(S), NEW i \in DOMAIN s
    PROVE  s[i] \in S /\ i \in 1 .. Len(s) /\ Len(s) \in Nat
BY LenProperties, ElementOfSeq

-----------------------------------------------------------------------------
(* The initial state. *)

\* The values that stand for an idle thread, an empty table, no file.
LEMMA IdleTypes ==
    /\ EmptyTable \in Table
    /\ NoFiles \in ManifestContent
    /\ \A pc \in {"wait", "write", "publish", "unlink", "exited"} :
          [IdleFlush EXCEPT !.pc = pc] \in
             [pc : {"wait", "write", "publish", "unlink", "exited"}, gen : Gens, seq : Seqs]
    /\ IdleFlush \in
          [pc : {"wait", "write", "publish", "unlink", "exited"}, gen : Gens, seq : Seqs]
    /\ \A old \in Seq(Seqs), pc \in {"wait", "select", "merge", "publish", "unlink", "exited"} :
          [IdleComp EXCEPT !.pc = pc, !.old = old] \in
             [pc : {"wait", "select", "merge", "publish", "unlink", "exited"},
              inputs : Seq(Seqs), full : BOOLEAN, seq : Seqs, logical : Seqs, old : Seq(Seqs)]
    /\ \A pc \in {"wait", "select", "merge", "publish", "unlink", "exited"} :
          [IdleComp EXCEPT !.pc = pc] \in
             [pc : {"wait", "select", "merge", "publish", "unlink", "exited"},
              inputs : Seq(Seqs), full : BOOLEAN, seq : Seqs, logical : Seqs, old : Seq(Seqs)]
    /\ IdleComp \in
          [pc : {"wait", "select", "merge", "publish", "unlink", "exited"},
           inputs : Seq(Seqs), full : BOOLEAN, seq : Seqs, logical : Seqs, old : Seq(Seqs)]
<1>1. 0 \in Seqs /\ 0 \in Gens /\ 0 \in Ids /\ 0 \in 0 .. MaxSeq + 1
  BY BoundsAssumption, SMT DEF Seqs, Gens, Ids
<1>2. <<>> \in Seq(Seqs) /\ FALSE \in BOOLEAN
  BY SMT
<1>3. EmptyTable \in Table
  BY <1>1 DEF EmptyTable, Table
<1>4. NoFiles \in ManifestContent
  BY <1>1 DEF NoFiles, ManifestContent
<1> QED
  BY <1>1, <1>2, <1>3, <1>4 DEF IdleFlush, IdleComp

\* The empty directory of the first start satisfies the invariant.
LEMMA InitIInv == Init => IInv
<1> SUFFICES ASSUME Init PROVE IInv
  OBVIOUS
<1>1. EmptyTable \in Table
  BY IdleTypes
<1>2. 0 \in Seqs /\ 0 \in Gens /\ 0 \in Ids /\ 0 \in 0 .. MaxSeq + 1 /\ 0 \in 0 .. MaxCrashes
  BY BoundsAssumption, SMT DEF Seqs, Gens, Ids
<1>3. TypeLog
  BY <1>1, <1>2, SMT DEF Init, TypeLog
<1>4. TypeClients
  BY <1>2, BoundsAssumption, SMT DEF Init, TypeClients, IdleWriter, IdleDrop
<1>5. TypeTables
  BY <1>1, <1>2 DEF Init, TypeTables
<1>6. TypeManifest
  <2>1. pending \in BOOLEAN
    BY DEF Init
  <2>2. /\ manifestDisk = NoFiles /\ mode = "down" /\ sstables = <<>> /\ manifest = NoFiles
        /\ flush = IdleFlush /\ comp = IdleComp
    BY DEF Init
  <2>3. sstables \in Seq(Seqs)
    BY <2>2, SMT
  <2> QED
    BY <2>1, <2>2, <2>3, IdleTypes DEF TypeManifest
<1>7. FilesInv
  <2>1. ManifestInv(manifestDisk) /\ ManifestInv(manifest)
    BY DEF Init, ManifestInv, NoFiles
  <2>2. TablesInv
    BY SMT DEF Init, TablesInv, NoFiles, Paths, Range
  <2>3. FlushInv /\ CompInv
    BY DEF Init, FlushInv, CompInv, FlushBusy, CompBusy, IdleFlush, IdleComp
  <2>4. ModeInv
    BY DEF Init, ModeInv, NoFiles, IdleDrop
  <2> QED
    BY <2>1, <2>2, <2>3, <2>4 DEF FilesInv
<1> QED
  BY <1>3, <1>4, <1>5, <1>6, <1>7, TypeParts DEF IInv

-----------------------------------------------------------------------------
(* The steps of clients. *)

\* A step that leaves the files, the manifests and the threads alone.
LEMMA ClientFiles ==
    ASSUME FilesInv,
           UNCHANGED <<sstFiles, manifestDisk, mode, sstables, manifest, flush, comp, crashes>>,
           immutables # <<>> => immutables' # <<>>,
           drop'.pc \in {"lock", "removing"} => drop'.batch # {}
    PROVE  FilesInv'
<1>1. ManifestInv(manifestDisk)' /\ ManifestInv(manifest)'
  BY DEF FilesInv, ManifestInv
<1>2. TablesInv'
  BY DEF FilesInv, TablesInv
<1>3. FlushInv'
  BY DEF FilesInv, FlushInv, FlushBusy, Unnamed, Paths, Serving
<1>4. CompInv'
  BY DEF FilesInv, CompInv, CompBusy, FlushBusy, Unnamed, Paths, Serving, RunAt
<1>5. ModeInv'
  BY DEF FilesInv, ModeInv
<1> QED
  BY <1>1, <1>2, <1>3, <1>4, <1>5 DEF FilesInv

\* put_locked and remove_locked keep the types.
LEMMA WriteLockedType ==
    ASSUME TypeLog, TypeClients,
           NEW k \in Keys, NEW del \in BOOLEAN, NEW seen \in Ids \cup {-1},
           WriteLocked(k, del, seen)
    PROVE  /\ TypeLog'
           /\ hist' \in Seq([key : Keys, val : Ids])
           /\ Len(hist) + 1 \in 1 .. MaxWrites
           /\ Len(hist') <= MaxWrites
           /\ saw' \in Seq(Ids \cup {-1})
           /\ Len(saw') = Len(hist')
           /\ immutables # <<>> => immutables' # <<>>
<1> DEFINE id == Len(hist) + 1
           mt == [memtable EXCEPT ![k] = id]
<1>0. hist \in Seq([key : Keys, val : Ids]) /\ saw \in Seq(Ids \cup {-1}) /\ Len(saw) = Len(hist)
  BY DEF TypeClients
<1>1. Len(hist) \in Nat /\ Len(hist) < MaxWrites /\ id \in 1 .. MaxWrites /\ id \in Ids /\ 0 \in Ids
  BY <1>0, LenProperties, BoundsAssumption, SMT DEF WriteLocked, Ids
<1>2. hist' = Append(hist, [key |-> k, val |-> IF del THEN 0 ELSE id]) /\ saw' = Append(saw, seen)
  BY DEF WriteLocked
<1>3. [key |-> k, val |-> IF del THEN 0 ELSE id] \in [key : Keys, val : Ids]
  BY <1>1
<1>4. hist' \in Seq([key : Keys, val : Ids]) /\ Len(hist') = Len(hist) + 1
  BY <1>0, <1>2, <1>3, AppendProperties, SMT
<1>5. saw' \in Seq(Ids \cup {-1}) /\ Len(saw') = Len(saw) + 1
  BY <1>0, <1>2, AppendProperties, SMT
<1>6. mt \in Table
  BY <1>1 DEF TypeLog, Table
<1>7. PICK ok \in LogOutcomes :
        LET recs == IF ok THEN Append(walRecs[walGen], [key |-> k, id |-> id])
                    ELSE walRecs[walGen]
        IN  /\ walBad' = IF ok THEN walBad ELSE walBad \cup {walGen}
            /\ IF Size(mt) < MemtableThreshold
               THEN KeepMemtable(mt, recs)
               ELSE Rotate(mt, recs)
  BY DEF WriteLocked
<1> DEFINE recs == IF ok THEN Append(walRecs[walGen], [key |-> k, id |-> id]) ELSE walRecs[walGen]
<1>8. recs \in Seq(Record)
  <2>1. walRecs[walGen] \in Seq(Record)
    BY DEF TypeLog
  <2>2. [key |-> k, id |-> id] \in Record
    BY <1>1 DEF Record
  <2> QED
    BY <2>1, <2>2, AppendProperties
<1>9. walBad' \subseteq Gens
  BY <1>7 DEF TypeLog
<1>10. KeepMemtable(mt, recs) \/ Rotate(mt, recs)
  BY <1>7
<1> HIDE DEF recs, mt, id
<1>11. CASE KeepMemtable(mt, recs)
  BY <1>1, <1>4, <1>5, <1>0, <1>6, <1>8, <1>9, <1>11, SMT DEF KeepMemtable, TypeLog, id
<1>12. CASE Rotate(mt, recs)
  <2>1. immutables \in Seq([tab : Table, gen : Gens]) /\ [tab |-> mt, gen |-> walGen] \in [tab : Table, gen : Gens]
    BY <1>6 DEF TypeLog
  <2>2. immutables' \in Seq([tab : Table, gen : Gens]) /\ immutables' # <<>>
    BY <1>12, <2>1, AppendProperties, SMT DEF Rotate
  <2>3. Len(recs) \in Nat
    BY <1>8, LenProperties
  <2>4. EmptyTable \in Table
    BY IdleTypes
  <2>5. walGen + 1 \in Gens
    BY <1>12, BoundsAssumption, SMT DEF Rotate, TypeLog, Gens
  <2>6. TypeLog'
    BY <1>8, <1>9, <1>12, <2>2, <2>3, <2>4, <2>5, SMTT(30) DEF Rotate, TypeLog
  <2> QED
    BY <1>1, <1>4, <1>5, <1>0, <2>2, <2>6, SMT DEF id
<1> QED
  BY <1>10, <1>11, <1>12

\* A step of a client leaves the types of files and threads alone.
LEMMA SameFiles ==
    ASSUME TypeTables, TypeManifest,
           UNCHANGED <<sstVars, manifestDisk, mode, sstables, manifest, threadVars>>
    PROVE  TypeTables' /\ TypeManifest'
BY DEF TypeTables, TypeManifest, sstVars, threadVars

\* put, remove and mutate preserve the invariant.
LEMMA ClientWriteIInv ==
    ASSUME IInv, NEW w \in Writers, NEW k \in Keys, NEW del \in BOOLEAN,
           NEW seen \in Ids \cup {-1}, ClientWrite(w, k, del, seen)
    PROVE  IInv'
<1>0. TypeLog /\ TypeClients /\ TypeTables /\ TypeManifest /\ FilesInv
  BY TypeParts DEF IInv
<1>1. WriteLocked(k, del, seen)
  BY DEF ClientWrite
<1>2. /\ TypeLog'
      /\ hist' \in Seq([key : Keys, val : Ids])
      /\ Len(hist) + 1 \in 1 .. MaxWrites
      /\ Len(hist') <= MaxWrites
      /\ saw' \in Seq(Ids \cup {-1})
      /\ Len(saw') = Len(hist')
      /\ immutables # <<>> => immutables' # <<>>
  BY <1>0, <1>1, WriteLockedType
<1>3. TypeTables' /\ TypeManifest'
  BY <1>0, SameFiles DEF ClientWrite
<1>4. TypeClients'
  <2>1. Ticket \in [pc : {"idle", "commit"}, gen : Gens, id : Ids]
    BY <1>0, <1>2, BoundsAssumption, SMT DEF Ticket, TypeLog, Ids
  <2>2. writer' \in [Writers -> [pc : {"idle", "commit"}, gen : Gens, id : Ids]]
    BY <1>0, <2>1 DEF ClientWrite, TypeClients
  <2> QED
    BY <1>0, <1>2, <2>2 DEF ClientWrite, TypeClients
<1>5. FilesInv'
  <2>1. drop'.pc \in {"lock", "removing"} => drop'.batch # {}
    BY <1>0 DEF ClientWrite, FilesInv, ModeInv
  <2> QED
    BY <1>0, <1>2, <2>1, ClientFiles DEF ClientWrite, sstVars, threadVars
<1> QED
  BY <1>2, <1>3, <1>4, <1>5, TypeParts DEF IInv

\* commit() of the segment of a ticket.
LEMMA CommitType ==
    ASSUME TypeLog, NEW g \in Gens,
           walDurable' = [walDurable EXCEPT ![g] = Len(walRecs[g])],
           UNCHANGED <<walFiles, walRecs, tableVars>>
    PROVE  TypeLog'
<1>1. Len(walRecs[g]) \in Nat
  <2>1. walRecs[g] \in Seq(Record)
    BY DEF TypeLog
  <2> QED
    BY <2>1, LenProperties
<1> QED
  BY <1>1 DEF TypeLog, tableVars

\* The steps of drop_table that only move the thread.
LEMMA DropMoveIInv ==
    ASSUME IInv, DropUnchanged, UNCHANGED <<walVars, tableVars, hist, saw, acked>>,
           drop' \in [pc : {"idle", "scan", "lock", "removing", "commit"}, cursor : Keys \cup {-1},
                      batch : SUBSET TableKeys, from : Ids, gen : Gens, id : Ids],
           drop'.pc \in {"lock", "removing"} => drop'.batch # {}
    PROVE  IInv'
<1>0. TypeLog /\ TypeClients /\ TypeTables /\ TypeManifest /\ FilesInv
  BY TypeParts DEF IInv
<1>1. TypeLog'
  BY <1>0 DEF TypeLog, walVars, tableVars
<1>2. TypeTables' /\ TypeManifest'
  BY <1>0, SameFiles DEF DropUnchanged
<1>3. TypeClients'
  BY <1>0 DEF TypeClients, DropUnchanged
<1>4. FilesInv'
  BY <1>0, ClientFiles DEF DropUnchanged, sstVars, threadVars, tableVars
<1> QED
  BY <1>1, <1>2, <1>3, <1>4, TypeParts DEF IInv

-----------------------------------------------------------------------------
(* The steps of the flush thread. *)

\* SSTableWriter::finish adds a well-formed file.
LEMMA CreateSstType ==
    ASSUME TypeTables, NEW p \in Seqs, NEW tab \in Table, CreateSst(p, tab)
    PROVE  TypeTables'
<1>1. PICK t \in Tiers : tier' = [tier EXCEPT ![p] = t]
  BY DEF CreateSst
<1>2. t \in Nat
  BY TiersAssumption
<1>3. tier' \in [Seqs -> Nat]
  BY <1>1, <1>2 DEF TypeTables
<1>4. sstFiles' \subseteq Seqs /\ sst' \in [Seqs -> Table]
  BY DEF TypeTables, CreateSst
<1> QED
  BY <1>3, <1>4 DEF TypeTables

\* Deleting an SSTable leaves the rest well-formed.
LEMMA RemoveSstType ==
    ASSUME TypeTables, NEW p \in Seqs, RemoveSst(p)
    PROVE  TypeTables'
<1>1. EmptyTable \in Table
  BY IdleTypes
<1>2. sst' \in [Seqs -> Table] /\ tier' \in [Seqs -> Nat]
  BY <1>1 DEF TypeTables, RemoveSst
<1> QED
  BY <1>2 DEF TypeTables, RemoveSst

\* Deleting a log segment leaves the rest well-formed.
LEMMA RemoveSegmentType ==
    ASSUME TypeLog, NEW g \in Gens, RemoveSegment(g), UNCHANGED tableVars
    PROVE  TypeLog'
<1>1. walRecs' \in [Gens -> Seq(Record)]
  <2>1. <<>> \in Seq(Record)
    BY SMT
  <2> QED
    BY <2>1 DEF TypeLog, RemoveSegment
<1> QED
  BY <1>1 DEF TypeLog, RemoveSegment, tableVars

\* sstables_.push_front: the new table is first, the others move by one.
LEMMA PushFrontFacts ==
    ASSUME NEW s \in Seq(Seqs), NEW p \in Seqs
    PROVE  /\ <<p>> \o s \in Seq(Seqs)
           /\ Len(<<p>> \o s) = Len(s) + 1
           /\ Len(s) \in Nat
           /\ (<<p>> \o s)[1] = p
           /\ \A i \in 2 .. Len(s) + 1 : (<<p>> \o s)[i] = s[i - 1]
<1>1. <<p>> \in Seq(Seqs) /\ Len(<<p>>) = 1 /\ <<p>>[1] = p /\ Len(s) \in Nat
  BY LenProperties, SMT
<1> DEFINE t == <<p>> \o s
<1>2. /\ t \in Seq(Seqs) /\ Len(t) = Len(<<p>>) + Len(s)
      /\ \A i \in 1 .. Len(<<p>>) + Len(s) :
            t[i] = IF i <= Len(<<p>>) THEN <<p>>[i] ELSE s[i - Len(<<p>>)]
  BY <1>1, ConcatProperties
<1> HIDE DEF t
<1>3. \A i \in 1 .. 1 + Len(s) : t[i] = IF i <= 1 THEN <<p>>[i] ELSE s[i - 1]
  BY <1>1, <1>2
<1>4. t[1] = p
  BY <1>1, <1>3, SMT
<1>5. \A i \in 2 .. Len(s) + 1 : t[i] = s[i - 1]
  BY <1>1, <1>3, SMT
<1> QED
  BY <1>1, <1>2, <1>4, <1>5, SMT DEF t

\* A step that changes only what the flush thread does next, and leaves it idle.
LEMMA FlushIdleFiles ==
    ASSUME FilesInv, flush'.pc \notin {"write", "publish"},
           UNCHANGED <<sstFiles, manifestDisk, mode, sstables, manifest, comp, crashes, drop>>
    PROVE  FilesInv'
<1>1. ManifestInv(manifestDisk)' /\ ManifestInv(manifest)'
  BY DEF FilesInv, ManifestInv
<1>2. TablesInv'
  BY DEF FilesInv, TablesInv
<1>3. FlushInv'
  BY DEF FlushInv, FlushBusy
<1>4. CompInv'
  BY DEF FilesInv, CompInv, CompBusy, FlushBusy, Unnamed, Paths, Serving, RunAt
<1>5. ModeInv'
  BY DEF FilesInv, ModeInv
<1> QED
  BY <1>1, <1>2, <1>3, <1>4, <1>5 DEF FilesInv

\* The number the flush thread takes names no file and no other output.
LEMMA FlushTakeFiles ==
    ASSUME IInv, FlushTake
    PROVE  FilesInv'
<1> DEFINE n == manifest.next
<1>0. TypeManifest /\ FilesInv
  BY TypeParts DEF IInv
<1>1. n \in Nat /\ n <= MaxSeq /\ manifest' = [manifest EXCEPT !.next = n + 1]
      /\ manifest.files \subseteq FileMeta /\ manifestDisk.files \subseteq FileMeta
      /\ manifestDisk.next \in Nat
  BY <1>0, BoundsAssumption, SMTT(30) DEF FlushTake, TakeSequence, TypeManifest, ManifestContent
<1>2. manifest'.files = manifest.files /\ manifest'.next = n + 1
  BY <1>0, <1>1 DEF TypeManifest, ManifestContent
<1>3. /\ UNCHANGED <<sstFiles, manifestDisk, mode, sstables, comp, crashes, drop, immutables>>
      /\ flush' = [pc |-> "write", gen |-> immutables[1].gen, seq |-> n]
      /\ Serving /\ immutables # <<>>
  BY DEF FlushTake, FlushFrame, diskVars, sstVars, clientVars, histVars
<1>4. flush'.pc = "write" /\ flush'.seq = n
  BY <1>3
<1> HIDE DEF n
<1>5. \A f \in manifest.files : f.path \in Nat /\ f.seq \in Nat /\ f.path < n /\ f.seq < n
  BY <1>0, <1>1, BoundsAssumption, SMT DEF FilesInv, ManifestInv, FileMeta, Seqs, n
<1>6. \A f \in manifestDisk.files : f.path \in Nat /\ f.path < n
  <2>1. mode # "down"
    BY <1>3 DEF Serving
  <2>2. manifestDisk.next <= n
    BY <1>0, <2>1 DEF FilesInv, ModeInv, n
  <2>3. ASSUME NEW f \in manifestDisk.files PROVE f.path \in Nat /\ f.path < n
    <3>1. f.path \in Nat
      BY <1>1, BoundsAssumption, SMT DEF FileMeta, Seqs
    <3>2. f.path < manifestDisk.next
      BY <1>0 DEF FilesInv, ManifestInv
    <3> QED
      BY <1>1, <2>2, <3>1, <3>2, SMT
  <2> QED
    BY <2>3
<1>7. ManifestInv(manifestDisk)'
  BY <1>0, <1>3 DEF FilesInv, ManifestInv
<1>8. ManifestInv(manifest)'
  <2>1. ASSUME NEW f \in manifest.files PROVE f.path < n + 1 /\ f.seq < n + 1
    BY <1>1, <1>5, SMT
  <2> QED
    BY <1>0, <1>2, <1>3, <2>1 DEF FilesInv, ManifestInv
<1>9. TablesInv'
  BY <1>0, <1>2, <1>3 DEF FilesInv, TablesInv
<1>11. FlushInv'
  <2>1. n < n + 1 /\ n \notin Paths(manifest.files) /\ n \notin Paths(manifestDisk.files)
    <3>1. \A f \in manifest.files : f.path # n
      BY <1>1, <1>5, SMT
    <3>2. \A f \in manifestDisk.files : f.path # n
      BY <1>1, <1>6, SMT
    <3> QED
      BY <1>1, <3>1, <3>2, SMT DEF Paths
  <2>2. Unnamed(flush.seq)'
    BY <1>2, <1>3, <1>4, <2>1 DEF Unnamed
  <2>3. \A f \in manifest'.files : f.seq < flush'.seq
    BY <1>2, <1>4, <1>5
  <2> QED
    BY <1>3, <1>4, <2>2, <2>3 DEF FlushInv, FlushBusy, Serving
<1>12. CompInv'
  <2>0. comp.seq \in Seqs /\ comp.old \in Seq(Seqs)
    BY <1>0 DEF TypeManifest
  <2>1. CASE CompBusy
    <3>1. Unnamed(comp.seq)' /\ comp.seq # n
      <4>1. Unnamed(comp.seq)
        BY <1>0, <2>1 DEF FilesInv, CompInv
      <4> QED
        BY <1>1, <1>2, <1>3, <2>0, <4>1, BoundsAssumption, SMT DEF Unnamed, Seqs, n
    <3>2. comp.pc # "unlink"
      BY <2>1 DEF CompBusy
    <3> QED
      BY <1>0, <1>2, <1>3, <1>4, <2>1, <3>1, <3>2 DEF FilesInv, CompInv, CompBusy, Serving, RunAt, Unnamed
  <2>2. CASE comp.pc = "unlink"
    <3>1. ASSUME NEW j \in DOMAIN comp.old PROVE Unnamed(comp.old[j])' /\ comp.old[j] # n
      <4>1. comp.old[j] \in Seqs
        BY <2>0, SeqElement
      <4>2. Unnamed(comp.old[j])
        BY <1>0, <2>2 DEF FilesInv, CompInv
      <4>3. Unnamed(comp.old[j])' /\ comp.old[j] # n
        BY <1>1, <1>2, <1>3, <4>1, <4>2, BoundsAssumption, SMT DEF Unnamed, Seqs, n
      <4> QED
        BY <4>3
    <3> QED
      BY <1>0, <1>3, <1>4, <2>2, <3>1 DEF FilesInv, CompInv, CompBusy, Serving
  <2>3. CASE ~CompBusy /\ comp.pc # "unlink"
    BY <1>3, <2>3 DEF CompInv, CompBusy
  <2> QED
    BY <2>1, <2>2, <2>3
<1>13. ModeInv'
  BY <1>0, <1>1, <1>2, <1>3, SMT DEF FilesInv, ModeInv, Serving, n
<1> QED
  BY <1>7, <1>8, <1>9, <1>11, <1>12, <1>13 DEF FilesInv

\* A file that no manifest names appears or disappears: of the facts about
\* the files only those of the two threads need another look.
LEMMA UnnamedFileFiles ==
    ASSUME FilesInv, NEW p,
           p \notin Paths(manifest.files), p \notin Paths(manifestDisk.files),
           sstFiles' \in {sstFiles \cup {p}, sstFiles \ {p}},
           UNCHANGED <<manifestDisk, mode, sstables, manifest, crashes, drop>>
    PROVE  ManifestInv(manifestDisk)' /\ ManifestInv(manifest)' /\ TablesInv' /\ ModeInv'
<1>1. ManifestInv(manifestDisk)'
  BY DEF FilesInv, ManifestInv, Paths
<1>2. ManifestInv(manifest)'
  BY DEF FilesInv, ManifestInv, Paths
<1>3. TablesInv'
  BY DEF FilesInv, TablesInv
<1>4. ModeInv'
  BY DEF FilesInv, ModeInv
<1> QED
  BY <1>1, <1>2, <1>3, <1>4

\* The file that a flush creates is not named by any manifest yet.
LEMMA FlushWriteFiles ==
    ASSUME IInv, FlushWrite
    PROVE  FilesInv'
<1>0. TypeManifest /\ FilesInv
  BY TypeParts DEF IInv
<1>1. /\ UNCHANGED <<manifestDisk, mode, sstables, manifest, comp, crashes, drop, immutables>>
      /\ sstFiles' = sstFiles \cup {flush.seq}
      /\ flush.pc = "write" /\ flush' = [flush EXCEPT !.pc = "publish"]
  BY DEF FlushWrite, FlushGoes, FlushFrame, CreateSst, clientVars, histVars
<1>2. flush'.pc = "publish" /\ flush'.seq = flush.seq
  BY <1>0, <1>1 DEF TypeManifest
<1>3. FlushBusy /\ FlushBusy'
  BY <1>1, <1>2 DEF FlushBusy
<1>4. Unnamed(flush.seq)
  BY <1>0, <1>3 DEF FilesInv, FlushInv
<1>5. ManifestInv(manifestDisk)' /\ ManifestInv(manifest)' /\ TablesInv' /\ ModeInv'
  BY <1>0, <1>1, <1>4, UnnamedFileFiles DEF Unnamed
<1>6. FlushInv'
  BY <1>0, <1>1, <1>2, <1>3, SMT DEF FilesInv, FlushInv, Serving, Unnamed
<1>7. CompInv'
  BY <1>0, <1>1, <1>2, <1>3 DEF FilesInv, CompInv, CompBusy, Unnamed, Serving, RunAt
<1> QED
  BY <1>5, <1>6, <1>7 DEF FilesInv

\* A flush whose manifest save fails deletes a file that nothing names.
LEMMA FlushPublishFailsFiles ==
    ASSUME IInv, FlushPublishFails
    PROVE  FilesInv'
<1>0. TypeManifest /\ FilesInv
  BY TypeParts DEF IInv
<1>1. /\ UNCHANGED <<manifestDisk, mode, sstables, manifest, comp, crashes, drop, immutables>>
      /\ sstFiles' = sstFiles \ {flush.seq}
      /\ flush.pc = "publish" /\ flush' = [flush EXCEPT !.pc = FlushTop]
  BY DEF FlushPublishFails, FlushGoes, FlushFrame, RemoveSst, clientVars, histVars
<1>2. flush'.pc \in {"wait", "exited"}
  BY <1>0, <1>1 DEF TypeManifest, FlushTop
<1>3. FlushBusy /\ ~FlushBusy'
  BY <1>1, <1>2 DEF FlushBusy
<1>4. Unnamed(flush.seq)
  BY <1>0, <1>3 DEF FilesInv, FlushInv
<1>5. ManifestInv(manifestDisk)' /\ ManifestInv(manifest)' /\ TablesInv' /\ ModeInv'
  BY <1>0, <1>1, <1>4, UnnamedFileFiles DEF Unnamed
<1>6. FlushInv'
  BY <1>2, <1>3 DEF FlushInv
<1>7. CompInv'
  <2>1. comp.pc = "publish" => comp.seq \in sstFiles'
    BY <1>0, <1>1, <1>3 DEF FilesInv, CompInv, CompBusy
  <2> QED
    BY <1>0, <1>1, <1>2, <1>3, <2>1 DEF FilesInv, CompInv, CompBusy, Unnamed, Serving, RunAt
<1> QED
  BY <1>5, <1>6, <1>7 DEF FilesInv

\* The heart of the flush thread: its file gets the highest number, at the
\* front of sstables_, and the run of a compaction moves back by one.
LEMMA FlushPublishFiles ==
    ASSUME IInv, FlushPublish
    PROVE  FilesInv'
<1> DEFINE q == flush.seq
           m == [path |-> q, seq |-> q]
<1>0. TypeManifest /\ FilesInv
  BY TypeParts DEF IInv
<1>1. /\ UNCHANGED <<sstFiles, mode, comp, crashes, drop>>
      /\ manifest' = [manifest EXCEPT !.files = @ \cup {m}] /\ manifestDisk' = manifest'
      /\ sstables' = <<q>> \o sstables
      /\ flush.pc = "publish" /\ flush' = [flush EXCEPT !.pc = "unlink"] /\ Serving
  BY DEF FlushPublish, FlushGoes, FlushFrame, SaveManifest, sstVars, clientVars, histVars
<1>2. flush'.pc = "unlink" /\ FlushBusy /\ ~FlushBusy'
  BY <1>0, <1>1 DEF TypeManifest, FlushBusy
<1>3. Unnamed(q) /\ q \in sstFiles /\ (\A f \in manifest.files : f.seq < q)
  BY <1>0, <1>1, <1>2 DEF FilesInv, FlushInv
<1>4. /\ manifest'.files = manifest.files \cup {m} /\ manifest'.next = manifest.next
      /\ q \in Seqs /\ q \in Nat /\ q < manifest.next
      /\ sstables \in Seq(Seqs)
      /\ manifest.files \subseteq FileMeta
  BY <1>0, <1>1, <1>3, BoundsAssumption, SMT DEF TypeManifest, ManifestContent, Unnamed, Seqs
<1>5. m.path = q /\ m.seq = q
  OBVIOUS
<1> HIDE DEF m, q
<1>6. \A f \in manifest.files : f.path # q /\ f.seq # q
  BY <1>3, <1>4, SMT DEF Unnamed, Paths, FileMeta, Seqs
<1>7. ManifestInv(manifest)' /\ ManifestInv(manifestDisk)'
  <2>1. ManifestInv(manifest)
    BY <1>0 DEF FilesInv
  <2>2. \A f \in manifest'.files : f.path \in sstFiles' /\ f.path < manifest'.next /\ f.seq < manifest'.next
    BY <1>1, <1>3, <1>4, <1>5, <2>1 DEF ManifestInv
  <2>3. \A f, g \in manifest'.files : f # g => f.path # g.path /\ f.seq # g.seq
    BY <1>4, <1>5, <1>6, <2>1 DEF ManifestInv
  <2>4. ManifestInv(manifest)'
    BY <2>2, <2>3 DEF ManifestInv
  <2> QED
    BY <1>1, <2>2, <2>3, <2>4 DEF ManifestInv
<1> DEFINE t == <<q>> \o sstables
           N == Len(sstables)
<1>8. /\ t \in Seq(Seqs) /\ Len(t) = N + 1 /\ N \in Nat /\ t[1] = q
      /\ \A i \in 2 .. N + 1 : t[i] = sstables[i - 1]
  BY <1>4, PushFrontFacts
<1>9. sstables' = t
  BY <1>1
<1> HIDE DEF t
<1>10. DOMAIN t = 1 .. N + 1 /\ DOMAIN sstables = 1 .. N
  BY <1>4, <1>8, LenProperties
<1> HIDE DEF N
<1>11. \A i \in DOMAIN t : i = 1 \/ (i - 1 \in DOMAIN sstables /\ t[i] = sstables[i - 1])
  BY <1>8, <1>10, SMT
<1>12. \A i \in DOMAIN sstables : i + 1 \in DOMAIN t /\ t[i + 1] = sstables[i]
  BY <1>8, <1>10, SMT
<1>13. TablesInv'
  <2>0. TablesInv
    BY <1>0 DEF FilesInv
  <2>1. \A i \in DOMAIN sstables : \E f \in manifest.files : f.path = sstables[i]
    BY <2>0 DEF TablesInv, Range, Paths
  <2>2. \A f \in manifest.files : \E i \in DOMAIN sstables : f.path = sstables[i]
    BY <2>0 DEF TablesInv, Range, Paths
  <2>3. \A i \in DOMAIN t : \E f \in manifest'.files : f.path = t[i]
    BY <1>4, <1>5, <1>8, <1>11, <2>1
  <2>4. \A f \in manifest'.files : \E i \in DOMAIN t : f.path = t[i]
    <3>1. 1 \in DOMAIN t
      BY <1>8, <1>10, SMT
    <3> QED
      BY <1>4, <1>5, <1>8, <1>12, <2>2, <3>1, ZenonT(60)
  <2>5. Range(t) = Paths(manifest'.files)
    BY <2>3, <2>4, SMT DEF Range, Paths
  <2>6. ASSUME NEW i \in DOMAIN t, NEW j \in DOMAIN t, i < j
        PROVE  /\ j - 1 \in DOMAIN sstables /\ t[j] = sstables[j - 1]
               /\ \/ i = 1 /\ t[i] = q
                  \/ i - 1 \in DOMAIN sstables /\ t[i] = sstables[i - 1] /\ i - 1 < j - 1
    BY <1>8, <1>10, <2>6, SMT
  <2>7. ASSUME NEW i \in DOMAIN t, NEW j \in DOMAIN t, i < j
        PROVE  t[i] # t[j]
    <3>1. PICK f \in manifest.files : f.path = t[j]
      BY <2>1, <2>6, <2>7
    <3>2. t[j] # q
      BY <1>6, <3>1
    <3>3. CASE i - 1 \in DOMAIN sstables /\ t[i] = sstables[i - 1] /\ i - 1 < j - 1
      <4>1. i - 1 # j - 1
        BY <3>3, <1>10, <1>8, SMT
      <4> QED
        BY <2>0, <2>6, <2>7, <3>3, <4>1, SMT DEF TablesInv
    <3> QED
      BY <2>6, <2>7, <3>2, <3>3
  <2>8. \A i, j \in DOMAIN t : i # j => t[i] # t[j]
    <3>1. \A i, j \in DOMAIN t : i < j \/ j < i \/ i = j
      BY <1>8, <1>10, SMT
    <3> QED
      BY <2>7, <3>1
  <2>9. ASSUME NEW i \in DOMAIN t, NEW j \in DOMAIN t, i < j,
               NEW f \in manifest'.files, NEW g \in manifest'.files,
               f.path = t[i], g.path = t[j]
        PROVE  f.seq > g.seq
    <3>0. PICK h \in manifest.files : h.path = t[j]
      BY <2>1, <2>6, <2>9
    <3>1. t[j] # q
      BY <1>6, <3>0
    <3>2. g \in manifest.files
      BY <1>4, <1>5, <2>9, <3>1
    <3>3. CASE i = 1 /\ t[i] = q
      <4>1. f = m
        BY <1>4, <1>6, <2>9, <3>3
      <4>2. g.seq < q /\ g.seq \in Nat
        BY <1>3, <1>4, <3>2, BoundsAssumption, SMT DEF FileMeta, Seqs
      <4> QED
        BY <1>4, <1>5, <4>1, <4>2
    <3>4. CASE i - 1 \in DOMAIN sstables /\ t[i] = sstables[i - 1] /\ i - 1 < j - 1
      <4>1. PICK h2 \in manifest.files : h2.path = t[i]
        BY <2>1, <3>4
      <4>2. f \in manifest.files
        BY <1>4, <1>5, <1>6, <2>9, <4>1
      <4> QED
        BY <2>0, <2>6, <2>9, <3>2, <3>4, <4>2, SMT DEF TablesInv
    <3> QED
      BY <2>6, <2>9, <3>3, <3>4
  <2>10. \A i, j \in DOMAIN t : \A f, g \in manifest'.files :
           i < j /\ f.path = t[i] /\ g.path = t[j] => f.seq > g.seq
    BY <2>9
  <2> QED
    BY <1>9, <2>5, <2>8, <2>10 DEF TablesInv
<1>14. FlushInv'
  BY <1>2 DEF FlushInv
<1>15. CompInv'
  <2>0. comp.seq \in Seqs /\ comp.old \in Seq(Seqs) /\ comp.inputs \in Seq(Seqs)
    BY <1>0 DEF TypeManifest
  <2>1. ASSUME NEW p, Unnamed(p), p # q
        PROVE  p < manifest'.next /\ p \notin Paths(manifest'.files) /\ p \notin Paths(manifestDisk'.files)
    BY <1>1, <1>4, <1>5, <2>1 DEF Unnamed, Paths
  <2>2. CASE CompBusy
    <3>1. Unnamed(comp.seq) /\ comp.seq # q
      BY <1>0, <1>2, <2>2 DEF FilesInv, CompInv, q
    <3>2. Unnamed(comp.seq)'
      BY <1>1, <2>1, <3>1 DEF Unnamed
    <3>3. PICK i \in 1 .. Len(sstables) : RunAt(i)
      BY <1>0, <2>2 DEF FilesInv, CompInv
    <3>4. i + 1 \in 1 .. Len(sstables') /\ RunAt(i + 1)'
      <4> DEFINE K == Len(comp.inputs)
      <4>0. K \in Nat /\ i \in Nat /\ i >= 1 /\ i <= N /\ N \in Nat
        BY <2>0, LenProperties, <3>3, <1>8, SMT DEF N
      <4>1. i + K - 1 <= N
        BY <3>3 DEF RunAt, N
      <4>2. \A j \in 1 .. K : sstables[i + j - 1] = comp.inputs[j]
        BY <3>3 DEF RunAt
      <4> HIDE DEF K
      <4>3. ASSUME NEW j \in 1 .. K PROVE t[i + 1 + j - 1] = comp.inputs[j]
        <5>0. i + j - 1 \in 1 .. N /\ i + 1 + j - 1 = (i + j - 1) + 1
          BY <4>0, <4>1, SMT
        <5>1. i + j - 1 \in DOMAIN sstables
          BY <1>10, <5>0
        <5>2. t[(i + j - 1) + 1] = sstables[i + j - 1]
          BY <1>12, <5>1
        <5> QED
          BY <4>2, <5>0, <5>2
      <4>4. i + 1 + K - 1 <= N + 1 /\ i + 1 \in 1 .. N + 1
        BY <4>0, <4>1, SMT
      <4>5. i + 1 + K - 1 <= Len(t) /\ i + 1 \in 1 .. Len(t)
        BY <1>8, <4>4
      <4> QED
        BY <1>1, <1>9, <4>3, <4>5 DEF RunAt, K
    <3>5. [path |-> comp.inputs[1], seq |-> comp.logical] \in manifest'.files
      BY <1>0, <1>4, <2>2 DEF FilesInv, CompInv
    <3>6. Len(comp.inputs) = Fanout /\ (comp.pc = "publish" => comp.seq \in sstFiles)
      BY <1>0, <2>2 DEF FilesInv, CompInv
    <3>7. comp.pc # "unlink"
      BY <2>2 DEF CompBusy
    <3> QED
      BY <1>1, <1>2, <3>2, <3>4, <3>5, <3>6, <3>7 DEF CompInv, CompBusy, Serving
  <2>3. CASE comp.pc = "unlink"
    <3>1. comp.old # <<>> /\ Serving
      BY <1>0, <2>3 DEF FilesInv, CompInv
    <3>2. ASSUME NEW j \in DOMAIN comp.old PROVE Unnamed(comp.old[j])'
      <4>1. Unnamed(comp.old[j]) /\ comp.old[j] # q
        BY <1>0, <1>2, <2>3 DEF FilesInv, CompInv, q
      <4> QED
        BY <1>1, <2>1, <4>1 DEF Unnamed
    <3> QED
      BY <1>1, <1>2, <2>3, <3>1, <3>2 DEF CompInv, CompBusy, Serving
  <2>4. CASE ~CompBusy /\ comp.pc # "unlink"
    BY <1>1, <2>4 DEF CompInv, CompBusy
  <2> QED
    BY <2>2, <2>3, <2>4
<1>16. ModeInv'
  <2>1. manifest'.next \in Nat /\ mode # "down"
    BY <1>0, <1>1, <1>4, BoundsAssumption, SMTT(30) DEF TypeManifest, ManifestContent, Serving
  <2> QED
    BY <1>0, <1>1, <2>1, SMT DEF FilesInv, ModeInv
<1> QED
  BY <1>7, <1>13, <1>14, <1>15, <1>16 DEF FilesInv

\* First element and rest of a sequence that is not empty.
LEMMA NonEmptySeq ==
    ASSUME NEW S, NEW s \in Seq(S), s # <<>>
    PROVE  /\ 1 \in DOMAIN s /\ s[1] \in S
           /\ Tail(s) \in Seq(S) /\ Len(Tail(s)) = Len(s) - 1 /\ Len(s) \in Nat \ {0}
           /\ \A i \in DOMAIN Tail(s) : i + 1 \in DOMAIN s /\ Tail(s)[i] = s[i + 1]
<1>1. Len(s) \in Nat /\ DOMAIN s = 1 .. Len(s)
  BY LenProperties
<1>2. Len(s) # 0
  BY EmptySeq
<1>3. 1 \in DOMAIN s
  BY <1>1, <1>2, SMT
<1>4. s[1] \in S
  BY <1>3, SeqElement
<1>5. Tail(s) \in Seq(S) /\ Len(Tail(s)) = Len(s) - 1 /\ \A i \in 1 .. Len(Tail(s)) : Tail(s)[i] = s[i + 1]
  BY HeadTailProperties
<1>6. DOMAIN Tail(s) = 1 .. Len(s) - 1
  BY <1>5, LenProperties
<1>7. ASSUME NEW i \in DOMAIN Tail(s) PROVE i + 1 \in DOMAIN s /\ Tail(s)[i] = s[i + 1]
  BY <1>1, <1>5, <1>6, SMT
<1> QED
  BY <1>1, <1>2, <1>3, <1>4, <1>5, <1>7

\* Every step of the flush thread preserves the invariant.
LEMMA FlushStepIInv ==
    ASSUME IInv, FlushStep
    PROVE  IInv'
<1> DEFINE FlushType == [pc : {"wait", "write", "publish", "unlink", "exited"}, gen : Gens, seq : Seqs]
<1>0. TypeLog /\ TypeClients /\ TypeTables /\ TypeManifest /\ FilesInv
  BY TypeParts DEF IInv
<1>1. /\ flush \in FlushType
      /\ immutables \in Seq([tab : Table, gen : Gens])
  BY <1>0 DEF TypeManifest, TypeLog
<1>2. FlushTop \in {"wait", "exited"}
  BY DEF FlushTop
<1>3. ASSUME FlushFrame PROVE TypeClients'
  BY <1>0, <1>3 DEF TypeClients, FlushFrame, clientVars, histVars
<1>4. ASSUME FlushFrame, UNCHANGED <<walVars, immutables>> PROVE TypeLog'
  BY <1>0, <1>4 DEF TypeLog, FlushFrame, walVars
<1>5. ASSUME FlushFrame, UNCHANGED <<manifestDisk, sstables, manifest, pending>>, flush' \in FlushType
      PROVE  TypeManifest'
  BY <1>0, <1>5 DEF TypeManifest, FlushFrame
<1>6. ASSUME UNCHANGED sstVars PROVE TypeTables'
  BY <1>0, <1>6 DEF TypeTables, sstVars
<1>7. ASSUME FlushFrame, UNCHANGED <<diskVars, immutables, sstables, manifest, pending>>,
             flush' \in FlushType, flush'.pc \notin {"write", "publish"}
      PROVE  IInv'
  <2>1. UNCHANGED <<walVars, sstVars, manifestDisk>>
    BY <1>7 DEF diskVars
  <2>2. TypeClients' /\ TypeLog' /\ TypeManifest' /\ TypeTables'
    BY <1>3, <1>4, <1>5, <1>6, <1>7, <2>1
  <2>3. FilesInv'
    BY <1>0, <1>7, <2>1, FlushIdleFiles DEF FlushFrame, clientVars, histVars, sstVars
  <2> QED
    BY <2>2, <2>3, TypeParts DEF IInv
<1>8. CASE FlushExit
  <2>1. flush' \in FlushType /\ flush'.pc = "exited"
    BY <1>1, <1>8 DEF FlushExit, FlushGoes
  <2> QED
    BY <1>7, <1>8, <2>1 DEF FlushExit
<1>9. CASE FlushTake
  <2>1. immutables[1] \in [tab : Table, gen : Gens]
    BY <1>1, <1>9, NonEmptySeq DEF FlushTake
  <2>2. manifest.next \in Nat /\ manifest.next <= MaxSeq /\ manifest' = [manifest EXCEPT !.next = @ + 1]
        /\ manifest \in ManifestContent
    BY <1>0, <1>9, BoundsAssumption, SMT DEF FlushTake, TakeSequence, TypeManifest, ManifestContent
  <2>3. manifest.next \in Seqs /\ manifest.next + 1 \in 0 .. MaxSeq + 1
    BY <2>2, BoundsAssumption, SMT DEF Seqs
  <2>4. manifest' \in ManifestContent
    BY <2>2, <2>3 DEF ManifestContent
  <2>5. flush' \in FlushType
    <3>1. immutables[1].gen \in Gens
      BY <2>1
    <3> QED
      BY <1>9, <2>3, <3>1 DEF FlushTake
  <2>6. FlushFrame /\ UNCHANGED <<walVars, sstVars, manifestDisk, immutables, sstables, pending>>
    BY <1>9 DEF FlushTake, diskVars
  <2>7. TypeManifest'
    BY <1>0, <2>4, <2>5, <2>6 DEF TypeManifest, FlushFrame
  <2>8. TypeClients' /\ TypeLog' /\ TypeTables'
    BY <1>3, <1>4, <1>6, <2>6
  <2>9. FilesInv'
    BY <1>9, FlushTakeFiles
  <2> QED
    BY <2>7, <2>8, <2>9, TypeParts DEF IInv
<1>10. CASE FlushWrite
  <2>0. flush.pc = "write" /\ flush' = [flush EXCEPT !.pc = "publish"]
        /\ CreateSst(flush.seq, immutables[1].tab) /\ FlushFrame
        /\ UNCHANGED <<walVars, manifestDisk, immutables, sstables, manifest, pending>>
    BY <1>10 DEF FlushWrite, FlushGoes
  <2>1. immutables # <<>>
    BY <1>0, <2>0 DEF FilesInv, FlushInv, FlushBusy
  <2>2. immutables[1] \in [tab : Table, gen : Gens]
    BY <1>1, <2>1, NonEmptySeq
  <2>3. immutables[1].tab \in Table /\ flush.seq \in Seqs
    BY <1>1, <2>2
  <2>4. TypeTables'
    BY <1>0, <2>0, <2>3, CreateSstType
  <2>5. flush' \in FlushType
    BY <1>1, <2>0
  <2>6. TypeClients' /\ TypeLog' /\ TypeManifest'
    BY <1>3, <1>4, <1>5, <2>0, <2>5
  <2>7. FilesInv'
    BY <1>10, FlushWriteFiles
  <2> QED
    BY <2>4, <2>6, <2>7, TypeParts DEF IInv
<1>11. CASE FlushWriteFails
  <2>1. flush' \in FlushType /\ flush'.pc \in {"wait", "exited"}
    BY <1>1, <1>2, <1>11 DEF FlushWriteFails, FlushGoes
  <2> QED
    BY <1>7, <1>11, <2>1 DEF FlushWriteFails
<1>12. CASE FlushPublish
  <2>0. flush.pc = "publish" /\ flush' = [flush EXCEPT !.pc = "unlink"] /\ FlushFrame
        /\ manifest' = [manifest EXCEPT !.files = @ \cup {[path |-> flush.seq, seq |-> flush.seq]}]
        /\ manifestDisk' = manifest'
        /\ sstables' = <<flush.seq>> \o sstables
        /\ immutables' = Tail(immutables)
        /\ UNCHANGED <<walVars, sstVars>>
    BY <1>12 DEF FlushPublish, FlushGoes, SaveManifest
  <2>1. immutables # <<>>
    BY <1>0, <2>0 DEF FilesInv, FlushInv, FlushBusy
  <2>2. immutables' \in Seq([tab : Table, gen : Gens])
    BY <1>1, <2>0, <2>1, NonEmptySeq
  <2>3. TypeLog'
    BY <1>0, <2>0, <2>2 DEF TypeLog, FlushFrame, walVars
  <2>4. flush.seq \in Seqs /\ manifest \in ManifestContent /\ sstables \in Seq(Seqs)
    BY <1>0, <1>1 DEF TypeManifest
  <2>5. manifest' \in ManifestContent
    <3>1. [path |-> flush.seq, seq |-> flush.seq] \in FileMeta
      BY <2>4 DEF FileMeta
    <3> QED
      BY <2>0, <2>4, <3>1, SMTT(30) DEF ManifestContent
  <2>6. sstables' \in Seq(Seqs)
    BY <2>0, <2>4, PushFrontFacts
  <2>7. flush' \in FlushType
    BY <1>1, <2>0, SMTT(30)
  <2>8. pending' \in BOOLEAN
    BY <1>12 DEF FlushPublish
  <2>9. TypeManifest'
    BY <1>0, <2>0, <2>5, <2>6, <2>7, <2>8 DEF TypeManifest, FlushFrame
  <2>10. TypeClients' /\ TypeTables'
    BY <1>3, <1>6, <2>0
  <2>11. FilesInv'
    BY <1>12, FlushPublishFiles
  <2> QED
    BY <2>3, <2>9, <2>10, <2>11, TypeParts DEF IInv
<1>13. CASE FlushPublishFails
  <2>0. flush' = [flush EXCEPT !.pc = FlushTop] /\ FlushFrame /\ RemoveSst(flush.seq)
        /\ UNCHANGED <<walVars, manifestDisk, immutables, sstables, manifest, pending>>
    BY <1>13 DEF FlushPublishFails, FlushGoes
  <2>1. flush' \in FlushType
    BY <1>1, <1>2, <2>0
  <2>2. TypeTables'
    BY <1>0, <1>1, <2>0, RemoveSstType
  <2>3. TypeClients' /\ TypeLog' /\ TypeManifest'
    BY <1>3, <1>4, <1>5, <2>0, <2>1
  <2>4. FilesInv'
    BY <1>13, FlushPublishFailsFiles
  <2> QED
    BY <2>2, <2>3, <2>4, TypeParts DEF IInv
<1>14. CASE FlushUnlink
  <2>0. flush' = [flush EXCEPT !.pc = FlushTop] /\ FlushFrame
        /\ (RemoveSegment(flush.gen) \/ UNCHANGED walVars)
        /\ UNCHANGED <<sstVars, manifestDisk, immutables, sstables, manifest, pending>>
    BY <1>14 DEF FlushUnlink, FlushGoes
  <2>1. flush' \in FlushType /\ flush'.pc \in {"wait", "exited"} /\ flush.gen \in Gens
    BY <1>1, <1>2, <2>0
  <2>2. TypeLog'
    <3>1. CASE RemoveSegment(flush.gen)
      BY <1>0, <2>0, <2>1, <3>1, RemoveSegmentType DEF FlushFrame, tableVars
    <3>2. CASE UNCHANGED walVars
      BY <1>4, <2>0, <3>2
    <3> QED
      BY <2>0, <3>1, <3>2
  <2>3. TypeClients' /\ TypeTables' /\ TypeManifest'
    BY <1>3, <1>5, <1>6, <2>0, <2>1
  <2>4. FilesInv'
    BY <1>0, <2>0, <2>1, FlushIdleFiles DEF FlushFrame, clientVars, histVars, sstVars
  <2> QED
    BY <2>2, <2>3, <2>4, TypeParts DEF IInv
<1> QED
  BY <1>8, <1>9, <1>10, <1>11, <1>12, <1>13, <1>14 DEF FlushStep

-----------------------------------------------------------------------------
(* The simple steps of the compaction thread. *)

\* A step that changes only what the compaction thread does next, and leaves
\* it without a task.
LEMMA CompIdleFiles ==
    ASSUME FilesInv, comp'.pc \notin {"merge", "publish", "unlink"},
           UNCHANGED <<sstFiles, manifestDisk, mode, sstables, manifest, flush, immutables,
                       crashes, drop>>
    PROVE  FilesInv'
<1>1. ManifestInv(manifestDisk)' /\ ManifestInv(manifest)'
  BY DEF FilesInv, ManifestInv
<1>2. TablesInv'
  BY DEF FilesInv, TablesInv
<1>3. FlushInv'
  BY DEF FilesInv, FlushInv, FlushBusy, Serving, Unnamed
<1>4. CompInv'
  BY DEF CompInv, CompBusy
<1>5. ModeInv'
  BY DEF FilesInv, ModeInv
<1> QED
  BY <1>1, <1>2, <1>3, <1>4, <1>5 DEF FilesInv

\* The file that a merge creates is not named by any manifest yet.
LEMMA CompMergeFiles ==
    ASSUME IInv, CompMerge
    PROVE  FilesInv'
<1>0. TypeManifest /\ FilesInv
  BY TypeParts DEF IInv
<1>1. /\ UNCHANGED <<manifestDisk, mode, sstables, manifest, flush, crashes, drop, immutables>>
      /\ sstFiles' = sstFiles \cup {comp.seq}
      /\ comp.pc = "merge" /\ comp' = [comp EXCEPT !.pc = "publish"]
  BY DEF CompMerge, CompFrame, CreateSst, clientVars, histVars, tableVars
<1>2. /\ comp'.pc = "publish" /\ comp'.seq = comp.seq /\ comp'.inputs = comp.inputs
      /\ comp'.logical = comp.logical
  BY <1>0, <1>1 DEF TypeManifest
<1>3. CompBusy /\ CompBusy'
  BY <1>1, <1>2 DEF CompBusy
<1>4. Unnamed(comp.seq)
  BY <1>0, <1>3 DEF FilesInv, CompInv
<1>5. ManifestInv(manifestDisk)' /\ ManifestInv(manifest)' /\ TablesInv' /\ ModeInv'
  BY <1>0, <1>1, <1>4, UnnamedFileFiles DEF Unnamed
<1>6. FlushInv'
  BY <1>0, <1>1 DEF FilesInv, FlushInv, FlushBusy, Serving, Unnamed
<1>7. CompInv'
  BY <1>0, <1>1, <1>2, <1>3, SMT DEF FilesInv, CompInv, FlushBusy, Unnamed, Serving, RunAt
<1> QED
  BY <1>5, <1>6, <1>7 DEF FilesInv

\* A compaction whose manifest save fails puts the manifest back and deletes
\* a file that neither manifest names.
LEMMA CompPublishFailsFiles ==
    ASSUME IInv, CompPublishFails
    PROVE  FilesInv'
<1>0. TypeManifest /\ FilesInv
  BY TypeParts DEF IInv
<1>1. /\ UNCHANGED <<mode, sstables, manifest, flush, crashes, drop, immutables>>
      /\ manifestDisk' \in {manifestDisk, manifest}
      /\ sstFiles' = sstFiles \ {comp.seq}
      /\ comp.pc = "publish" /\ comp' = [IdleComp EXCEPT !.pc = CompTop] /\ Serving
  BY DEF CompPublishFails, CompGivesUp, CompFrame, RemoveSst, clientVars, histVars, tableVars
<1>2. comp'.pc \in {"wait", "exited"}
  BY <1>1 DEF CompTop, IdleComp
<1>3. CompBusy
  BY <1>1 DEF CompBusy
<1>4. Unnamed(comp.seq) /\ (FlushBusy => comp.seq # flush.seq)
  BY <1>0, <1>3 DEF FilesInv, CompInv
<1>5. ManifestInv(manifest)'
  BY <1>0, <1>1, <1>4 DEF FilesInv, ManifestInv, Unnamed, Paths
<1>6. ManifestInv(manifestDisk)'
  <2>1. CASE manifestDisk' = manifestDisk
    BY <1>0, <1>1, <1>4, <2>1 DEF FilesInv, ManifestInv, Unnamed, Paths
  <2>2. CASE manifestDisk' = manifest
    BY <1>0, <1>1, <1>4, <2>2 DEF FilesInv, ManifestInv, Unnamed, Paths
  <2> QED
    BY <1>1, <2>1, <2>2
<1>7. TablesInv'
  BY <1>0, <1>1 DEF FilesInv, TablesInv
<1>8. FlushInv'
  BY <1>0, <1>1, <1>4 DEF FilesInv, FlushInv, FlushBusy, Serving, Unnamed
<1>9. CompInv'
  BY <1>2 DEF CompInv, CompBusy
<1>10. ModeInv'
  <2>1. manifest.next \in Nat /\ mode # "down"
    BY <1>0, <1>1, BoundsAssumption, SMT DEF TypeManifest, ManifestContent, Serving
  <2>2. manifestDisk'.next <= manifest'.next
    BY <1>0, <1>1, <2>1, SMT DEF FilesInv, ModeInv
  <2> QED
    BY <1>0, <1>1, <2>1, <2>2 DEF FilesInv, ModeInv
<1> QED
  BY <1>5, <1>6, <1>7, <1>8, <1>9, <1>10 DEF FilesInv

\* compact() deletes only files that no manifest names any more.
LEMMA CompUnlinkFiles ==
    ASSUME IInv, CompUnlink
    PROVE  FilesInv'
<1>0. TypeManifest /\ FilesInv
  BY TypeParts DEF IInv
<1>1. /\ UNCHANGED <<manifestDisk, mode, sstables, manifest, flush, crashes, drop, immutables>>
      /\ sstFiles' \in {sstFiles \ {comp.old[1]}, sstFiles}
      /\ comp.pc = "unlink"
      /\ comp' = IF Len(comp.old) > 1 THEN [comp EXCEPT !.old = Tail(@)]
                 ELSE [IdleComp EXCEPT !.pc = IF mode = "closing" THEN "exited" ELSE "select"]
  BY DEF CompUnlink, CompFrame, RemoveSst, sstVars, clientVars, histVars, tableVars
<1>2. comp.old \in Seq(Seqs) /\ comp.old # <<>>
  BY <1>0, <1>1 DEF TypeManifest, FilesInv, CompInv
<1>3. /\ 1 \in DOMAIN comp.old
      /\ Tail(comp.old) \in Seq(Seqs) /\ Len(Tail(comp.old)) = Len(comp.old) - 1
      /\ Len(comp.old) \in Nat \ {0}
      /\ \A i \in DOMAIN Tail(comp.old) :
            i + 1 \in DOMAIN comp.old /\ Tail(comp.old)[i] = comp.old[i + 1]
  BY <1>2, NonEmptySeq
<1>4. \A j \in DOMAIN comp.old : Unnamed(comp.old[j]) /\ (FlushBusy => comp.old[j] # flush.seq)
  BY <1>0, <1>1 DEF FilesInv, CompInv
<1>5. Unnamed(comp.old[1]) /\ (FlushBusy => comp.old[1] # flush.seq)
  BY <1>3, <1>4
<1>6. ManifestInv(manifest)' /\ ManifestInv(manifestDisk)'
  BY <1>0, <1>1, <1>5 DEF FilesInv, ManifestInv, Unnamed, Paths
<1>7. TablesInv'
  BY <1>0, <1>1 DEF FilesInv, TablesInv
<1>8. FlushInv'
  BY <1>0, <1>1, <1>5 DEF FilesInv, FlushInv, FlushBusy, Serving, Unnamed
<1>9. CompInv'
  <2>1. CASE Len(comp.old) > 1
    <3>1. comp'.pc = "unlink" /\ comp'.old = Tail(comp.old)
      BY <1>0, <1>1, <2>1 DEF TypeManifest
    <3>2. Tail(comp.old) # <<>>
      <4>1. Len(Tail(comp.old)) # 0
        <5> DEFINE a == Len(comp.old)
                   b == Len(Tail(comp.old))
        <5>1. a \in Nat /\ a > 1 /\ b = a - 1
          BY <1>3, <2>1
        <5> HIDE DEF a, b
        <5>2. b # 0
          BY <5>1, SMT
        <5> QED
          BY <5>2 DEF b
      <4> QED
        BY <4>1, EmptySeq
    <3>3. \A j \in DOMAIN Tail(comp.old) :
             Unnamed(Tail(comp.old)[j]) /\ (FlushBusy => Tail(comp.old)[j] # flush.seq)
      BY <1>3, <1>4
    <3>4. Serving
      BY <1>0, <1>1 DEF FilesInv, CompInv
    <3> QED
      BY <1>1, <3>1, <3>2, <3>3, <3>4 DEF CompInv, CompBusy, FlushBusy, Serving, Unnamed
  <2>2. CASE ~(Len(comp.old) > 1)
    <3>1. comp'.pc \in {"exited", "select"}
      BY <1>1, <2>2 DEF IdleComp
    <3> QED
      BY <3>1 DEF CompInv, CompBusy
  <2> QED
    BY <2>1, <2>2
<1>10. ModeInv'
  BY <1>0, <1>1 DEF FilesInv, ModeInv
<1> QED
  BY <1>6, <1>7, <1>8, <1>9, <1>10 DEF FilesInv

-----------------------------------------------------------------------------
(* Shutdown and recovery. *)

\* The engine goes down on a disk whose manifest is sound.
LEMMA GoneIInv ==
    ASSUME MemoryGone, crashes \in Nat, crashes < MaxCrashes,
           ManifestInv(manifestDisk)', manifestDisk' \in ManifestContent, TypeTables',
           walFiles' \subseteq Gens, walRecs' \in [Gens -> Seq(Record)], walDurable' \in [Gens -> Nat],
           hist' \in Seq([key : Keys, val : Ids]), Len(hist') <= MaxWrites,
           saw' \in Seq(Ids \cup {-1}), Len(saw') = Len(hist'), acked' \in Ids
    PROVE  IInv'
<1>1. 0 \in Gens /\ 0 \in Ids /\ crashes + 1 \in 0 .. MaxCrashes
  BY BoundsAssumption, SMT DEF Gens, Ids
<1>2. TypeLog'
  <2>1. memtable' \in Table
    BY IdleTypes DEF MemoryGone
  <2>2. immutables' \in Seq([tab : Table, gen : Gens]) /\ walGen' \in Gens /\ walBad' \subseteq Gens
    BY <1>1, SMT DEF MemoryGone
  <2> QED
    BY <2>1, <2>2 DEF TypeLog
<1>3. TypeClients'
  <2>1. IdleWriter \in [pc : {"idle", "commit"}, gen : Gens, id : Ids]
    BY <1>1 DEF IdleWriter
  <2>2. writer' \in [Writers -> [pc : {"idle", "commit"}, gen : Gens, id : Ids]]
    BY <2>1 DEF MemoryGone
  <2>3. drop' \in [pc : {"idle", "scan", "lock", "removing", "commit"}, cursor : Keys \cup {-1},
                   batch : SUBSET TableKeys, from : Ids, gen : Gens, id : Ids]
    BY <1>1 DEF MemoryGone, IdleDrop
  <2>4. crashes' \in 0 .. MaxCrashes
    BY <1>1 DEF MemoryGone
  <2> QED
    BY <2>2, <2>3, <2>4 DEF TypeClients
<1>4. TypeManifest'
  <2>1. pending' \in BOOLEAN
    BY DEF MemoryGone
  <2>2. mode' = "down" /\ sstables' = <<>> /\ manifest' = NoFiles /\ flush' = IdleFlush /\ comp' = IdleComp
    BY DEF MemoryGone
  <2>3. sstables' \in Seq(Seqs)
    BY <2>2, SMT
  <2> QED
    BY <2>1, <2>2, <2>3, IdleTypes DEF TypeManifest
<1>5. FilesInv'
  <2>1. ManifestInv(manifest)'
    BY DEF MemoryGone, ManifestInv, NoFiles
  <2>2. TablesInv'
    BY SMT DEF MemoryGone, TablesInv, NoFiles, Paths, Range
  <2>3. FlushInv' /\ CompInv'
    BY DEF MemoryGone, FlushInv, CompInv, FlushBusy, CompBusy, IdleFlush, IdleComp
  <2>4. ModeInv'
    BY DEF MemoryGone, ModeInv, IdleDrop
  <2> QED
    BY <2>1, <2>2, <2>3, <2>4 DEF FilesInv
<1> QED
  BY <1>2, <1>3, <1>4, <1>5, TypeParts DEF IInv

\* The end of ~LsmEngine preserves the invariant.
LEMMA CloseIInv ==
    ASSUME IInv, Close
    PROVE  IInv'
<1>0. TypeLog /\ TypeClients /\ TypeTables /\ TypeManifest /\ FilesInv
  BY TypeParts DEF IInv
<1>1. /\ manifestDisk' \in {manifest, manifestDisk} /\ MemoryGone /\ mode = "closing"
      /\ walDurable' = [g \in Gens |-> Len(walRecs[g])]
      /\ UNCHANGED <<walFiles, walRecs, sstVars, hist, saw, acked>>
  BY DEF Close
<1>2. crashes \in Nat /\ crashes < MaxCrashes
  BY <1>0, <1>1, BoundsAssumption, SMT DEF TypeClients, FilesInv, ModeInv
<1>3. ManifestInv(manifestDisk)'
  BY <1>0, <1>1 DEF FilesInv, ManifestInv, sstVars
<1>4. manifestDisk' \in ManifestContent
  BY <1>0, <1>1 DEF TypeManifest
<1>5. TypeTables'
  BY <1>0, <1>1 DEF TypeTables, sstVars
<1>6. walDurable' \in [Gens -> Nat]
  <2>1. ASSUME NEW g \in Gens PROVE Len(walRecs[g]) \in Nat
    <3>1. walRecs[g] \in Seq(Record)
      BY <1>0 DEF TypeLog
    <3> QED
      BY <3>1, LenProperties
  <2> QED
    BY <1>1, <2>1
<1>7. walFiles' \subseteq Gens /\ walRecs' \in [Gens -> Seq(Record)]
  BY <1>0, <1>1 DEF TypeLog
<1>8. /\ hist' \in Seq([key : Keys, val : Ids]) /\ Len(hist') <= MaxWrites
      /\ saw' \in Seq(Ids \cup {-1}) /\ Len(saw') = Len(hist') /\ acked' \in Ids
  BY <1>0, <1>1 DEF TypeClients
<1> QED
  BY <1>1, <1>2, <1>3, <1>4, <1>5, <1>6, <1>7, <1>8, GoneIInv

\* A prefix of a sequence.
LEMMA PrefixFacts ==
    ASSUME NEW S, NEW s \in Seq(S), NEW n \in 0 .. Len(s)
    PROVE  SubSeq(s, 1, n) \in Seq(S) /\ Len(SubSeq(s, 1, n)) = n
<1>1. Len(s) \in Nat /\ n \in Nat
  BY LenProperties, SMT
<1>2. \A i \in 1 .. n : s[i] \in S
  BY <1>1, ElementOfSeq, SMT
<1>3. SubSeq(s, 1, n) \in Seq(S) /\ Len(SubSeq(s, 1, n)) = IF 1 <= n THEN n - 1 + 1 ELSE 0
  BY <1>1, <1>2, SubSeqProperties, SMT
<1>4. (IF 1 <= n THEN n - 1 + 1 ELSE 0) = n
  BY <1>1, SMT
<1> QED
  BY <1>3, <1>4, SMT

\* A step of the constructor, or the start of the destructor, that leaves the
\* files and the threads alone.
LEMMA ModeFiles ==
    ASSUME FilesInv,
           UNCHANGED <<sstFiles, manifestDisk, sstables, manifest, flush, comp, immutables,
                       crashes, drop>>,
           mode # "down", mode' \notin {"down", "failed"}, Serving => Serving',
           mode' = "closing" => crashes < MaxCrashes
    PROVE  FilesInv'
<1>1. ManifestInv(manifestDisk)' /\ ManifestInv(manifest)'
  BY DEF FilesInv, ManifestInv
<1>2. TablesInv'
  BY DEF FilesInv, TablesInv
<1>3. FlushInv'
  BY DEF FilesInv, FlushInv, FlushBusy, Unnamed
<1>4. CompInv'
  BY ZenonT(60) DEF FilesInv, CompInv, CompBusy, FlushBusy, Unnamed, RunAt
<1>5. ModeInv'
  BY DEF FilesInv, ModeInv
<1> QED
  BY <1>1, <1>2, <1>3, <1>4, <1>5 DEF FilesInv

\* The start of ~LsmEngine preserves the invariant.
LEMMA ShutDownIInv ==
    ASSUME IInv, ShutDown
    PROVE  IInv'
<1>0. TypeLog /\ TypeClients /\ TypeTables /\ TypeManifest /\ FilesInv
  BY TypeParts DEF IInv
<1>1. TypeLog' /\ TypeClients' /\ TypeTables'
  BY <1>0 DEF ShutDown, TypeLog, TypeClients, TypeTables, diskVars, walVars, sstVars,
                     tableVars, clientVars, histVars
<1>2. TypeManifest'
  <2>1. mode' \in {"down", "failed", "loaded", "checkpoint", "discard", "up", "closing"}
    BY DEF ShutDown
  <2> QED
    BY <1>0, <2>1 DEF ShutDown, TypeManifest, diskVars, threadVars
<1>3. FilesInv'
  BY <1>0, ModeFiles DEF ShutDown, Serving, diskVars, sstVars, tableVars, threadVars, clientVars, histVars
<1> QED
  BY <1>1, <1>2, <1>3, TypeParts DEF IInv

\* A step of recover_from_wal touches the log and the memtable only.
LEMMA RecoverFiles ==
    ASSUME IInv, mode \in {"loaded", "checkpoint", "discard"}, mode' \in {"checkpoint", "discard"},
           UNCHANGED <<sstVars, manifestDisk, immutables, sstables, manifest, threadVars,
                       clientVars, histVars>>
    PROVE  TypeClients' /\ TypeTables' /\ TypeManifest' /\ FilesInv'
<1>0. TypeLog /\ TypeClients /\ TypeTables /\ TypeManifest /\ FilesInv
  BY TypeParts DEF IInv
<1>1. mode' \in {"down", "failed", "loaded", "checkpoint", "discard", "up", "closing"}
  OBVIOUS
<1>2. TypeManifest'
  BY <1>0, <1>1 DEF TypeManifest, threadVars
<1>3. TypeClients' /\ TypeTables'
  BY <1>0 DEF TypeClients, TypeTables, sstVars, clientVars, histVars
<1>4. FilesInv'
  BY <1>0, ModeFiles DEF Serving, sstVars, threadVars, clientVars, histVars
<1> QED
  BY <1>2, <1>3, <1>4

-----------------------------------------------------------------------------
(* Operators that pick an oldest, a newest or a first element. *)

\* Reading a list of SSTables gives an id.
LEMMA FirstEntryType ==
    ASSUME TypeTables, NEW paths \in Seq(Seqs), NEW k \in Keys
    PROVE  FirstEntry(paths, k) \in Ids
<1> DEFINE S == {i \in DOMAIN paths : sst[paths[i]][k] # 0}
<1>1. CASE S = {}
  <2>1. FirstEntry(paths, k) = 0
    BY <1>1 DEF FirstEntry
  <2> QED
    BY <2>1, BoundsAssumption, SMT DEF Ids
<1>2. CASE S # {}
  <2>1. S \in SUBSET Nat
    BY SMT
  <2> DEFINE P(i) == sst[paths[i]][k] # 0 /\ \A j \in 1 .. i - 1 : sst[paths[j]][k] = 0
  <2>2. \E i \in DOMAIN paths : P(i)
    <3>1. PICK i \in S : \A j \in S : i <= j
      BY <1>2, <2>1, LeastExists
    <3>2. ASSUME NEW j \in 1 .. i - 1 PROVE sst[paths[j]][k] = 0
      <4>1. j \in DOMAIN paths /\ ~(i <= j)
        BY <3>1, SMT
      <4> QED
        BY <3>1, <4>1
    <3> QED
      BY <3>1, <3>2
  <2> DEFINE i == CHOOSE i \in DOMAIN paths : P(i)
  <2>3. i \in DOMAIN paths
    <3> HIDE DEF P
    <3> QED BY <2>2
  <2>4. FirstEntry(paths, k) = sst[paths[i]][k]
    BY <1>2 DEF FirstEntry
  <2>5. paths[i] \in Seqs
    <3> HIDE DEF i
    <3> QED BY <2>3, SMT
  <2> HIDE DEF i
  <2> QED
    BY <2>4, <2>5, SMT DEF TypeTables, Table
<1> QED
  BY <1>1, <1>2

-----------------------------------------------------------------------------
(* The steps of the compaction thread that select, merge and publish. *)

\* The run compact() selects is in sstables_ and in the manifest, and the
\* number for its output is new.
LEMMA CompSelectFiles ==
    ASSUME IInv, CompSelect
    PROVE  FilesInv'
<1> DEFINE n == manifest.next
           L == Max({SequenceNumber(p) : p \in Range(SelectedRun)})
<1>0. TypeManifest /\ FilesInv
  BY TypeParts DEF IInv
<1>1. n \in Nat /\ n <= MaxSeq /\ manifest' = [manifest EXCEPT !.next = n + 1]
      /\ manifest.files \subseteq FileMeta /\ manifestDisk.files \subseteq FileMeta
      /\ manifestDisk.next \in Nat
  BY <1>0, BoundsAssumption, SMT DEF CompSelect, TakeSequence, TypeManifest, ManifestContent
<1>2. manifest'.files = manifest.files /\ manifest'.next = n + 1
  BY <1>0, <1>1 DEF TypeManifest, ManifestContent
<1>3. /\ UNCHANGED <<sstFiles, manifestDisk, mode, sstables, flush, crashes, drop, immutables>>
      /\ comp' = [pc |-> "merge", inputs |-> SelectedRun, full |-> Fanout = Len(sstables),
                  seq |-> n, old |-> <<>>, logical |-> L]
      /\ Serving /\ Runs # {}
  BY DEF CompSelect, CompFrame, sstVars, clientVars, histVars, tableVars
<1>a. [path |-> SelectedRun[1], seq |-> L] \in manifest.files
  BY <1>0, <1>3, LogicalFacts DEF FilesInv
<1> HIDE DEF L
<1>4. comp'.pc = "merge" /\ comp'.seq = n /\ comp'.inputs = SelectedRun /\ comp'.logical = L
  BY <1>3
<1> HIDE DEF n
<1>5. \A f \in manifest.files : f.path \in Nat /\ f.seq \in Nat /\ f.path < n /\ f.seq < n
  BY <1>0, <1>1, BoundsAssumption, SMT DEF FilesInv, ManifestInv, FileMeta, Seqs, n
<1>6. \A f \in manifestDisk.files : f.path \in Nat /\ f.path < n
  <2>1. mode # "down"
    BY <1>3 DEF Serving
  <2>2. manifestDisk.next <= n
    BY <1>0, <2>1 DEF FilesInv, ModeInv, n
  <2>3. ASSUME NEW f \in manifestDisk.files PROVE f.path \in Nat /\ f.path < n
    <3>1. f.path \in Nat
      BY <1>1, BoundsAssumption, SMT DEF FileMeta, Seqs
    <3>2. f.path < manifestDisk.next
      BY <1>0 DEF FilesInv, ManifestInv
    <3> QED
      BY <1>1, <2>2, <3>1, <3>2, SMT
  <2> QED
    BY <2>3
<1>7. ManifestInv(manifestDisk)'
  BY <1>0, <1>3 DEF FilesInv, ManifestInv
<1>8. ManifestInv(manifest)'
  <2>1. ASSUME NEW f \in manifest.files PROVE f.path < n + 1 /\ f.seq < n + 1
    BY <1>1, <1>5, SMT
  <2> QED
    BY <1>0, <1>2, <1>3, <2>1 DEF FilesInv, ManifestInv
<1>9. TablesInv'
  BY <1>0, <1>2, <1>3 DEF FilesInv, TablesInv
<1>10. FlushBusy => Unnamed(flush.seq)' /\ flush.seq # n
  <2>1. flush.seq \in Nat
    BY <1>0, BoundsAssumption, SMT DEF TypeManifest, Seqs
  <2> QED
    BY <1>0, <1>1, <1>2, <1>3, <2>1, SMT DEF FilesInv, FlushInv, Unnamed, n
<1>11. FlushInv'
  BY <1>0, <1>2, <1>3, <1>10 DEF FilesInv, FlushInv, FlushBusy, Serving
<1>12. CompInv'
  <2>1. n < n + 1 /\ n \notin Paths(manifest.files) /\ n \notin Paths(manifestDisk.files)
    <3>1. \A f \in manifest.files : f.path # n
      BY <1>1, <1>5, SMT
    <3>2. \A f \in manifestDisk.files : f.path # n
      BY <1>1, <1>6, SMT
    <3> QED
      BY <1>1, <3>1, <3>2, SMT DEF Paths
  <2>2. Unnamed(comp.seq)'
    BY <1>2, <1>3, <1>4, <2>1 DEF Unnamed
  <2>3. /\ Max(Runs) \in 1 .. Len(sstables) - Fanout + 1
        /\ Len(SelectedRun) = Fanout
        /\ \A j \in 1 .. Fanout : SelectedRun[j] = sstables[Max(Runs) + j - 1]
    BY <1>0, <1>3, SelectedRunFacts
  <2>4. PICK m \in 1 .. Len(sstables) - Fanout + 1 :
          \A j \in 1 .. Fanout : SelectedRun[j] = sstables[m + j - 1]
    BY <2>3
  <2>5. m \in 1 .. Len(sstables) /\ m + Fanout - 1 <= Len(sstables)
    <3>1. Len(sstables) \in Nat /\ Fanout \in Nat /\ Fanout >= 2
      BY <1>0, LenProperties, SizesAssumption, SMT DEF TypeManifest
    <3> QED
      BY <2>4, <3>1, SMT
  <2>6. RunAt(m)'
    <3>1. Len(comp'.inputs) = Fanout
      BY <1>4, <2>3
    <3>2. \A j \in 1 .. Fanout : sstables'[m + j - 1] = comp'.inputs[j]
      BY <1>3, <1>4, <2>4
    <3>3. m + Fanout - 1 <= Len(sstables')
      BY <1>3, <2>5
    <3> QED
      BY <3>1, <3>2, <3>3 DEF RunAt
  <2>7. [path |-> comp'.inputs[1], seq |-> comp'.logical] \in manifest'.files
    BY <1>a, <1>2, <1>4
  <2>8. FlushBusy' => comp'.seq # flush'.seq
    BY <1>3, <1>4, <1>10 DEF FlushBusy
  <2>9. Len(comp'.inputs) = Fanout /\ m \in 1 .. Len(sstables')
    BY <1>3, <1>4, <2>3, <2>5
  <2> QED
    BY <1>3, <1>4, <2>2, <2>6, <2>7, <2>8, <2>9 DEF CompInv, CompBusy, Serving
<1>13. ModeInv'
  BY <1>0, <1>1, <1>2, <1>3, SMT DEF FilesInv, ModeInv, Serving, n
<1> QED
  BY <1>7, <1>8, <1>9, <1>11, <1>12, <1>13 DEF FilesInv

\* The heart of the compaction thread: the output takes the place of its
\* inputs in sstables_ and, with the number of the newest of them, in the
\* order of the manifest.
LEMMA CompPublishFiles ==
    ASSUME IInv, CompPublish
    PROVE  FilesInv'
<1> DEFINE q == comp.seq
           s == sstables
           inputs == comp.inputs
           K == Len(inputs)
           N == Len(s)
           kept == {f \in manifest.files : f.path \notin Range(inputs)}
           m == [path |-> q, seq |-> comp.logical]
           old == [path |-> inputs[1], seq |-> comp.logical]
           t == ReplaceRun(s, inputs, q)
<1>0. TypeManifest /\ FilesInv /\ TablesInv /\ ManifestInv(manifest)
  BY TypeParts DEF IInv, FilesInv
<1>1. /\ UNCHANGED <<sstFiles, mode, flush, crashes, drop, immutables>>
      /\ manifest' = [manifest EXCEPT !.files = kept \cup {m}] /\ manifestDisk' = manifest'
      /\ sstables' = t
      /\ comp.pc = "publish" /\ comp' = [IdleComp EXCEPT !.pc = "unlink", !.old = inputs] /\ Serving
  BY DEF CompPublish, CompFrame, SaveManifest, LogicalSequence, sstVars, tableVars, clientVars, histVars
<1>2. comp'.pc = "unlink" /\ comp'.old = inputs /\ CompBusy
  BY <1>1 DEF IdleComp, CompBusy
<1>3. /\ Unnamed(q) /\ q \in sstFiles /\ (FlushBusy => q # flush.seq)
      /\ K = Fanout /\ old \in manifest.files /\ \E i \in 1 .. N : RunAt(i)
  BY <1>0, <1>1, <1>2 DEF FilesInv, CompInv
<1>4. /\ manifest'.files = kept \cup {m} /\ manifest'.next = manifest.next
      /\ q \in Seqs /\ q \in Nat /\ q < manifest.next
      /\ s \in Seq(Seqs) /\ inputs \in Seq(Seqs)
      /\ manifest.files \subseteq FileMeta
  BY <1>0, <1>1, <1>3, BoundsAssumption, SMT DEF TypeManifest, ManifestContent, Unnamed, Seqs
<1>5. m.path = q /\ m.seq = comp.logical /\ old.path = inputs[1] /\ old.seq = comp.logical
  OBVIOUS
<1>6. /\ K \in Nat /\ K >= 2 /\ N \in Nat /\ DOMAIN s = 1 .. N /\ DOMAIN inputs = 1 .. K
      /\ Range(inputs) = {inputs[j] : j \in 1 .. K}
  BY <1>3, <1>4, LenProperties, RangeEquality, SizesAssumption, SMT
<1>7. PICK first \in 1 .. N : RunAt(first)
  BY <1>3
<1>8. first + K - 1 <= N /\ \A j \in 1 .. K : s[first + j - 1] = inputs[j]
  BY <1>7 DEF RunAt
<1>9. \A i, j \in DOMAIN s : i # j => s[i] # s[j]
  BY <1>0 DEF TablesInv
<1> HIDE DEF q, s, inputs
<1>10. /\ t \in Seq(Seqs) /\ Len(t) = N - K + 1
       /\ \A j \in 1 .. N - K + 1 :
             t[j] = IF j < first THEN s[j] ELSE IF j = first THEN q ELSE s[j + K - 1]
  <2>1. q \in Seqs /\ s \in Seq(Seqs) /\ inputs \in Seq(Seqs) /\ Len(inputs) >= 1
    BY <1>4, <1>6, SMT
  <2>2. first \in 1 .. Len(s) /\ first + Len(inputs) - 1 <= Len(s)
    BY <1>8
  <2>3. \A j \in 1 .. Len(inputs) : s[first + j - 1] = inputs[j]
    BY <1>8
  <2>4. Replaced(ReplaceRun(s, inputs, q), s, first, Len(inputs), q)
    BY <1>9, <2>1, <2>2, <2>3, ReplaceRunFacts
  <2> QED
    BY <2>4 DEF Replaced
<1>11. DOMAIN t = 1 .. N - K + 1
  BY <1>10, LenProperties
<1> DEFINE M == N - K + 1
           From(j) == IF j <= first THEN j ELSE j + K - 1
<1> HIDE DEF K, N, m, old, t
<1>12. \A j \in 1 .. M : From(j) \in 1 .. N /\ (j # first => From(j) \notin first .. first + K - 1)
  BY <1>6, <1>8, SMT
<1>13. /\ first \in 1 .. M /\ t[first] = q /\ s[first] = inputs[1]
       /\ \A j \in 1 .. M : j # first => t[j] = s[From(j)]
  <2>1. first \in 1 .. M
    BY <1>6, <1>8, SMT
  <2>2. t[first] = q
    BY <1>10, <2>1, SMT
  <2>3. s[first] = inputs[1]
    <3>1. 1 \in 1 .. K /\ first + 1 - 1 = first
      BY <1>6, SMT
    <3> QED
      BY <1>8, <3>1
  <2>4. ASSUME NEW j \in 1 .. M, j # first PROVE t[j] = s[From(j)]
    <3>1. CASE j < first
      BY <1>10, <2>4, <3>1, SMT
    <3>2. CASE ~(j < first)
      <4>1. ~(j <= first)
        BY <2>4, <3>2, SMT
      <4> QED
        BY <1>10, <2>4, <3>2, <4>1
    <3> QED
      BY <3>1, <3>2
  <2> QED
    BY <2>1, <2>2, <2>3, <2>4
<1>14. \A i, j \in 1 .. M : i < j => From(i) < From(j)
  BY <1>6, SMT
<1>15. \A i \in 1 .. N : i \notin first .. first + K - 1 => \E j \in 1 .. M : j # first /\ From(j) = i
  <2>1. ASSUME NEW i \in 1 .. N, i \notin first .. first + K - 1
        PROVE  \E j \in 1 .. M : j # first /\ From(j) = i
    <3>1. CASE i < first
      <4>1. i \in 1 .. M /\ i # first /\ From(i) = i
        BY <1>6, <1>8, <3>1, SMT
      <4> QED
        BY <4>1
    <3>2. CASE ~(i < first)
      <4>1. i - K + 1 \in 1 .. M /\ i - K + 1 # first /\ From(i - K + 1) = i
        BY <1>6, <1>8, <2>1, <3>2, SMT
      <4> HIDE DEF From, M
      <4> QED
        BY <4>1
    <3> QED
      BY <3>1, <3>2
  <2> QED
    BY <2>1
<1> HIDE DEF From, M
<1>16. DOMAIN t = 1 .. M /\ M \in Int
  BY <1>6, <1>11, SMT DEF M
\* The positions of the inputs, and the entries that are kept.
<1>17. \A i \in 1 .. N : s[i] \in Range(inputs) <=> i \in first .. first + K - 1
  <2>1. ASSUME NEW i \in 1 .. N, s[i] \in Range(inputs) PROVE i \in first .. first + K - 1
    <3>1. PICK j \in 1 .. K : s[i] = inputs[j]
      BY <1>6, <2>1
    <3>2. first + j - 1 \in 1 .. N /\ s[first + j - 1] = s[i]
      BY <1>6, <1>8, <3>1, SMTT(30)
    <3>3. i = first + j - 1
      BY <1>6, <1>9, <3>2
    <3> QED
      BY <1>6, <3>3, SMT
  <2>2. ASSUME NEW i \in 1 .. N, i \in first .. first + K - 1 PROVE s[i] \in Range(inputs)
    <3>1. i - first + 1 \in 1 .. K /\ first + (i - first + 1) - 1 = i
      BY <1>6, <2>2, SMT
    <3>2. s[i] = inputs[i - first + 1]
      BY <1>8, <3>1
    <3> QED
      BY <1>6, <3>1, <3>2
  <2> QED
    BY <2>1, <2>2
<1>18. \A i \in 1 .. N : \E f \in manifest.files : f.path = s[i]
  BY <1>0, <1>6 DEF TablesInv, Range, Paths, s
<1>19. \A f \in manifest.files : \E i \in 1 .. N : f.path = s[i]
  BY <1>0, <1>6, SMT DEF TablesInv, Range, Paths, s
<1>20. \A f \in manifest.files : f.path # q
  BY <1>3 DEF Unnamed, Paths
<1>21. inputs[1] \in Range(inputs) /\ old \notin kept
  <2>1. 1 \in 1 .. K
    BY <1>6, SMT
  <2> QED
    BY <1>5, <1>6, <2>1
<1>22. \A f \in kept : f \in manifest.files /\ f.seq # m.seq
  BY <1>0, <1>3, <1>5, <1>21 DEF ManifestInv
<1> HIDE DEF kept
<1>23. ManifestInv(manifest)' /\ ManifestInv(manifestDisk)'
  <2>1. \A f \in manifest'.files : f.path \in sstFiles' /\ f.path < manifest'.next /\ f.seq < manifest'.next
    <3>1. m.seq < manifest.next
      BY <1>0, <1>3, <1>5 DEF ManifestInv
    <3> QED
      BY <1>0, <1>1, <1>3, <1>4, <1>5, <1>22, <3>1 DEF ManifestInv
  <2>2. \A f, g \in manifest'.files : f # g => f.path # g.path /\ f.seq # g.seq
    BY <1>0, <1>4, <1>5, <1>20, <1>22 DEF ManifestInv
  <2>3. ManifestInv(manifest)'
    BY <2>1, <2>2 DEF ManifestInv
  <2> QED
    BY <1>1, <2>1, <2>2, <2>3 DEF ManifestInv
\* Every entry of the new list stands for an entry of the old one with the
\* same number, at a position that keeps the order.
<1>24. ASSUME NEW j \in 1 .. M, NEW f \in manifest'.files, f.path = t[j]
       PROVE  \E g \in manifest.files : g.path = s[From(j)] /\ g.seq = f.seq
  <2>1. CASE j = first
    <3>1. f = m
      BY <1>4, <1>13, <1>20, <1>22, <1>24, <2>1
    <3>2. From(j) = j
      BY <2>1, <1>6, SMT DEF From
    <3> QED
      BY <1>3, <1>5, <1>13, <2>1, <3>1, <3>2
  <2>2. CASE j # first
    <3>1. t[j] = s[From(j)] /\ From(j) \in 1 .. N
      BY <1>12, <1>13, <2>2
    <3>2. PICK g \in manifest.files : g.path = s[From(j)]
      BY <1>18, <3>1
    <3>3. f \in manifest.files
      BY <1>4, <1>5, <1>20, <1>22, <1>24, <3>1, <3>2
    <3> QED
      BY <1>24, <3>1, <3>3
  <2> QED
    BY <2>1, <2>2
<1>25. TablesInv'
  <2>1. ASSUME NEW j \in 1 .. M PROVE \E f \in manifest'.files : f.path = t[j]
    <3>1. CASE j = first
      BY <1>4, <1>5, <1>13, <3>1
    <3>2. CASE j # first
      <4>1. t[j] = s[From(j)] /\ From(j) \in 1 .. N /\ From(j) \notin first .. first + K - 1
        BY <1>12, <1>13, <3>2
      <4>2. PICK f \in manifest.files : f.path = s[From(j)]
        BY <1>18, <4>1
      <4>3. f.path \notin Range(inputs)
        BY <1>17, <4>1, <4>2
      <4>4. f \in kept
        BY <4>2, <4>3 DEF kept
      <4> QED
        BY <1>4, <4>1, <4>2, <4>4
    <3> QED
      BY <3>1, <3>2
  <2>2. ASSUME NEW f \in manifest'.files PROVE \E j \in 1 .. M : f.path = t[j]
    <3>1. CASE f = m
      BY <1>5, <1>13, <3>1
    <3>2. CASE f \in kept
      <4>1. f \in manifest.files /\ f.path \notin Range(inputs)
        BY <3>2 DEF kept
      <4>2. PICK i \in 1 .. N : f.path = s[i]
        BY <1>19, <4>1
      <4>3. i \notin first .. first + K - 1
        BY <1>17, <4>1, <4>2
      <4>4. PICK j \in 1 .. M : j # first /\ From(j) = i
        BY <1>15, <4>3
      <4> QED
        BY <1>13, <4>2, <4>4
    <3> QED
      BY <1>4, <3>1, <3>2
  <2>3. Range(t) = Paths(manifest'.files)
    BY <1>16, <2>1, <2>2, SMT DEF Range, Paths
  <2>4. ASSUME NEW i \in 1 .. M, NEW j \in 1 .. M, i < j PROVE t[i] # t[j]
    <3>1. From(i) \in DOMAIN s /\ From(j) \in DOMAIN s /\ From(i) < From(j)
      BY <1>6, <1>12, <1>14, <2>4
    <3>2. From(i) # From(j)
      BY <1>6, <3>1, SMT
    <3>3. s[From(i)] # q /\ s[From(j)] # q
      BY <1>6, <1>18, <1>20, <3>1
    <3>4. s[From(i)] # s[From(j)]
      BY <1>9, <3>1, <3>2
    <3>5. i # first \/ j # first
      BY <1>16, <2>4, SMT
    <3> QED
      BY <1>13, <3>3, <3>4, <3>5
  <2>5. \A i, j \in DOMAIN t : i # j => t[i] # t[j]
    <3>1. \A i, j \in 1 .. M : i < j \/ j < i \/ i = j
      BY <1>16, SMT
    <3> QED
      BY <1>16, <2>4, <3>1
  <2>6. ASSUME NEW i \in 1 .. M, NEW j \in 1 .. M, i < j,
               NEW f \in manifest'.files, NEW g \in manifest'.files,
               f.path = t[i], g.path = t[j]
        PROVE  f.seq > g.seq
    <3>1. PICK f0 \in manifest.files : f0.path = s[From(i)] /\ f0.seq = f.seq
      BY <1>24, <2>6
    <3>2. PICK g0 \in manifest.files : g0.path = s[From(j)] /\ g0.seq = g.seq
      BY <1>24, <2>6
    <3>3. From(i) \in DOMAIN s /\ From(j) \in DOMAIN s /\ From(i) < From(j)
      BY <1>6, <1>12, <1>14, <2>6
    <3>4. f0.seq > g0.seq
      BY <1>0, <3>1, <3>2, <3>3 DEF TablesInv, s
    <3> QED
      BY <3>1, <3>2, <3>4
  <2>7. \A i, j \in DOMAIN t : \A f, g \in manifest'.files :
           i < j /\ f.path = t[i] /\ g.path = t[j] => f.seq > g.seq
    BY <1>16, <2>6
  <2> QED
    BY <1>1, <2>3, <2>5, <2>7, SMT DEF TablesInv
<1>26. FlushInv'
  <2>1. CASE FlushBusy
    <3>1. Unnamed(flush.seq) /\ (\A f \in manifest.files : f.seq < flush.seq) /\ q # flush.seq
          /\ immutables # <<>>
      BY <1>0, <1>3, <2>1 DEF FilesInv, FlushInv
    <3>2. \A f \in manifest'.files : f.seq < flush.seq /\ f.path # flush.seq
      BY <1>3, <1>4, <1>5, <1>22, <3>1 DEF Unnamed, Paths
    <3>3. Unnamed(flush.seq)'
      BY <1>1, <1>4, <3>1, <3>2 DEF Unnamed, Paths
    <3> QED
      BY <1>0, <1>1, <3>1, <3>2, <3>3 DEF FilesInv, FlushInv, Serving
  <2>2. CASE ~FlushBusy
    BY <1>1, <2>2 DEF FlushInv, FlushBusy
  <2> QED
    BY <2>1, <2>2
<1>27. CompInv'
  <2>1. inputs # <<>>
    BY <1>6, EmptySeq, SMT DEF K
  <2>2. ASSUME NEW j \in DOMAIN inputs
        PROVE  /\ inputs[j] < manifest'.next /\ inputs[j] \notin Paths(manifest'.files)
               /\ FlushBusy => inputs[j] # flush.seq
    <3>1. first + j - 1 \in 1 .. N /\ s[first + j - 1] = inputs[j]
      BY <1>6, <1>8, SMT
    <3>2. PICK f \in manifest.files : f.path = inputs[j]
      BY <1>18, <3>1
    <3>3. inputs[j] < manifest'.next
      BY <1>0, <1>4, <3>2 DEF ManifestInv
    <3>4. inputs[j] \in Range(inputs)
      BY <1>6
    <3>5. ASSUME NEW g \in manifest'.files PROVE g.path # inputs[j]
      BY <1>4, <1>5, <1>20, <3>2, <3>4 DEF kept
    <3>6. FlushBusy => inputs[j] # flush.seq
      BY <1>0, <3>2 DEF FilesInv, FlushInv, Unnamed, Paths
    <3> QED
      BY <3>3, <3>5, <3>6 DEF Paths
  <2>3. ASSUME NEW j \in DOMAIN comp'.old
        PROVE  Unnamed(comp.old[j])' /\ (FlushBusy' => comp'.old[j] # flush'.seq)
    BY <1>1, <1>2, <2>2 DEF Unnamed, FlushBusy
  <2> QED
    BY <1>1, <1>2, <2>1, <2>3 DEF CompInv, CompBusy, Serving
<1>28. ModeInv'
  <2>1. manifest'.next \in Nat /\ mode # "down"
    BY <1>0, <1>1, <1>4, BoundsAssumption, SMTT(30) DEF TypeManifest, ManifestContent, Serving
  <2> QED
    BY <1>0, <1>1, <2>1, SMT DEF FilesInv, ModeInv
<1> QED
  BY <1>23, <1>25, <1>26, <1>27, <1>28 DEF FilesInv

\* Every step of the compaction thread preserves the invariant.
LEMMA CompStepIInv ==
    ASSUME IInv, CompStep
    PROVE  IInv'
<1> DEFINE CompType == [pc : {"wait", "select", "merge", "publish", "unlink", "exited"},
                        inputs : Seq(Seqs), full : BOOLEAN, seq : Seqs, logical : Seqs,
                        old : Seq(Seqs)]
<1>0. TypeLog /\ TypeClients /\ TypeTables /\ TypeManifest /\ FilesInv
  BY TypeParts DEF IInv
<1>1. comp \in CompType
  BY <1>0 DEF TypeManifest
<1>2. ASSUME CompGivesUp PROVE comp' \in CompType /\ comp'.pc \in {"wait", "exited"}
  <2>1. CompTop \in {"wait", "exited"}
    BY DEF CompTop
  <2>2. comp'.pc = CompTop
    BY <1>2 DEF CompGivesUp, IdleComp
  <2>3. CompTop \in {"wait", "select", "merge", "publish", "unlink", "exited"}
    BY <2>1
  <2>4. comp' \in CompType
    BY <1>2, <2>3, IdleTypes DEF CompGivesUp
  <2> QED
    BY <2>1, <2>2, <2>4
<1>3. ASSUME CompFrame PROVE TypeClients' /\ TypeLog'
  BY <1>0, <1>3 DEF TypeClients, TypeLog, CompFrame, clientVars, histVars, walVars, tableVars
<1>4. ASSUME CompFrame, UNCHANGED <<manifestDisk, sstables, manifest>>, pending' \in BOOLEAN,
             comp' \in CompType
      PROVE  TypeManifest'
  BY <1>0, <1>4 DEF TypeManifest, CompFrame
<1>5. ASSUME UNCHANGED sstVars PROVE TypeTables'
  BY <1>0, <1>5 DEF TypeTables, sstVars
<1>6. UNCHANGED pending => pending' \in BOOLEAN
  BY <1>0 DEF TypeManifest
<1>7. ASSUME CompFrame, UNCHANGED <<sstVars, manifestDisk, sstables, manifest>>,
             pending' \in BOOLEAN, comp' \in CompType,
             comp'.pc \notin {"merge", "publish", "unlink"}
      PROVE  IInv'
  <2>1. TypeClients' /\ TypeLog' /\ TypeManifest' /\ TypeTables'
    BY <1>3, <1>4, <1>5, <1>7
  <2>2. FilesInv'
    BY <1>0, <1>7, CompIdleFiles DEF CompFrame, clientVars, histVars, sstVars, tableVars
  <2> QED
    BY <2>1, <2>2, TypeParts DEF IInv
<1>8. CASE CompExit
  BY <1>2, <1>6, <1>7, <1>8 DEF CompExit
<1>9. CASE CompWake
  <2>1. comp' \in CompType /\ comp'.pc = "select"
    BY <1>1, <1>9 DEF CompWake
  <2>2. pending' \in BOOLEAN
    BY <1>9 DEF CompWake
  <2> QED
    BY <1>7, <1>9, <2>1, <2>2 DEF CompWake
<1>10. CASE CompSelect
  <2> DEFINE L == Max({SequenceNumber(p) : p \in Range(SelectedRun)})
             full == Fanout = Len(sstables)
  <2>0. /\ Runs # {} /\ CompFrame /\ UNCHANGED <<sstVars, manifestDisk, sstables, pending>>
        /\ comp' = [pc |-> "merge", inputs |-> SelectedRun, full |-> full,
                    seq |-> manifest.next, old |-> <<>>, logical |-> L]
    BY <1>10 DEF CompSelect
  <2>1. SelectedRun \in Seq(Seqs)
    BY <1>0, <2>0, SelectedRunFacts
  <2>2. manifest.next \in Nat /\ manifest.next <= MaxSeq /\ manifest' = [manifest EXCEPT !.next = @ + 1]
        /\ manifest \in ManifestContent
    BY <1>0, <1>10, BoundsAssumption, SMT DEF CompSelect, TakeSequence, TypeManifest, ManifestContent
  <2>3. manifest.next \in Seqs /\ manifest.next + 1 \in 0 .. MaxSeq + 1
    BY <2>2, BoundsAssumption, SMT DEF Seqs
  <2>4. manifest' \in ManifestContent
    BY <2>2, <2>3 DEF ManifestContent
  <2>5. [path |-> SelectedRun[1], seq |-> L] \in manifest.files
    BY <1>0, <2>0, LogicalFacts DEF FilesInv
  <2> HIDE DEF L
  <2>6. L \in Seqs
    <3>1. [path |-> SelectedRun[1], seq |-> L] \in FileMeta
      BY <2>2, <2>5 DEF ManifestContent
    <3>2. [path |-> SelectedRun[1], seq |-> L].seq \in Seqs
      BY <3>1 DEF FileMeta
    <3> QED
      BY <3>2
  <2>7. full \in BOOLEAN /\ <<>> \in Seq(Seqs)
    BY SMT
  <2> HIDE DEF full
  <2>8. comp' \in CompType
    BY <2>0, <2>1, <2>3, <2>6, <2>7
  <2>9. TypeManifest'
    BY <1>0, <2>0, <2>4, <2>8 DEF TypeManifest, CompFrame
  <2>10. TypeClients' /\ TypeLog' /\ TypeTables'
    BY <1>3, <1>5, <2>0
  <2>11. FilesInv'
    BY <1>10, CompSelectFiles
  <2> QED
    BY <2>9, <2>10, <2>11, TypeParts DEF IInv
<1>11. CASE CompNothing
  BY <1>2, <1>6, <1>7, <1>11 DEF CompNothing
<1>12. CASE CompMerge
  <2> DEFINE tab == [k \in Keys |-> Purge(FirstEntry(comp.inputs, k), comp.full)]
  <2>0. /\ CompFrame /\ UNCHANGED <<manifestDisk, sstables, manifest, pending>>
        /\ comp' = [comp EXCEPT !.pc = "publish"] /\ CreateSst(comp.seq, tab)
    BY <1>12 DEF CompMerge
  <2>1. comp.inputs \in Seq(Seqs) /\ comp.seq \in Seqs
    BY <1>1
  <2>2. \A k \in Keys : Purge(FirstEntry(comp.inputs, k), comp.full) \in Ids
    <3>1. ASSUME NEW k \in Keys PROVE Purge(FirstEntry(comp.inputs, k), comp.full) \in Ids
      <4>1. FirstEntry(comp.inputs, k) \in Ids
        BY <1>0, <2>1, FirstEntryType
      <4>2. 0 \in Ids
        BY BoundsAssumption, SMT DEF Ids
      <4> QED
        BY <4>1, <4>2 DEF Purge
    <3> QED
      BY <3>1
  <2>3. tab \in Table
    BY <2>2 DEF Table
  <2> HIDE DEF tab
  <2>4. TypeTables'
    BY <1>0, <2>0, <2>1, <2>3, CreateSstType
  <2>5. comp' \in CompType
    BY <1>1, <2>0
  <2>6. TypeClients' /\ TypeLog' /\ TypeManifest'
    BY <1>3, <1>4, <1>6, <2>0, <2>5
  <2>7. FilesInv'
    BY <1>12, CompMergeFiles
  <2> QED
    BY <2>4, <2>6, <2>7, TypeParts DEF IInv
<1>13. CASE CompMergeFails
  BY <1>2, <1>6, <1>7, <1>13 DEF CompMergeFails
<1>14. CASE CompPublish
  <2> DEFINE kept == {f \in manifest.files : f.path \notin Range(comp.inputs)}
             meta == [path |-> comp.seq, seq |-> comp.logical]
             t == ReplaceRun(sstables, comp.inputs, comp.seq)
  <2>0. /\ CompFrame /\ UNCHANGED <<sstVars, pending>> /\ comp.pc = "publish"
        /\ manifest' = [manifest EXCEPT !.files = kept \cup {meta}] /\ manifestDisk' = manifest'
        /\ sstables' = t
        /\ comp' = [IdleComp EXCEPT !.pc = "unlink", !.old = comp.inputs]
    BY <1>14 DEF CompPublish, SaveManifest, LogicalSequence
  <2>1. comp.inputs \in Seq(Seqs) /\ comp.seq \in Seqs /\ comp.logical \in Seqs
        /\ sstables \in Seq(Seqs) /\ manifest \in ManifestContent
    BY <1>0, <1>1 DEF TypeManifest
  <2>2. t \in Seq(Seqs)
    <3>1. PICK first \in 1 .. Len(sstables) : RunAt(first)
      BY <1>0, <2>0 DEF FilesInv, CompInv, CompBusy
    <3>2. Len(comp.inputs) = Fanout
      BY <1>0, <2>0 DEF FilesInv, CompInv, CompBusy
    <3>3. Len(comp.inputs) >= 1
      BY <3>2, SizesAssumption, SMT
    <3>4. first + Len(comp.inputs) - 1 <= Len(sstables)
      BY <3>1 DEF RunAt
    <3>5. \A j \in 1 .. Len(comp.inputs) : sstables[first + j - 1] = comp.inputs[j]
      BY <3>1 DEF RunAt
    <3>6. \A i, j \in DOMAIN sstables : i # j => sstables[i] # sstables[j]
      BY <1>0 DEF FilesInv, TablesInv
    <3> DEFINE s == sstables
               inputs == comp.inputs
               q == comp.seq
    <3> HIDE DEF s, inputs, q
    <3>7. ReplaceRun(s, inputs, q) \in Seq(Seqs)
      <4>1. s \in Seq(Seqs) /\ inputs \in Seq(Seqs) /\ q \in Seqs /\ Len(inputs) >= 1
        BY <2>1, <3>3 DEF s, inputs, q
      <4>2. first \in 1 .. Len(s) /\ first + Len(inputs) - 1 <= Len(s)
        BY <3>1, <3>4 DEF s, inputs
      <4>3. \A j \in 1 .. Len(inputs) : s[first + j - 1] = inputs[j]
        BY <3>5 DEF s, inputs
      <4>4. \A i, j \in DOMAIN s : i # j => s[i] # s[j]
        BY <3>6 DEF s
      <4>5. Replaced(ReplaceRun(s, inputs, q), s, first, Len(inputs), q)
        BY <4>1, <4>2, <4>3, <4>4, ReplaceRunFacts
      <4> QED
        BY <4>5 DEF Replaced
    <3> QED
      BY <3>7 DEF s, inputs, q
  <2>3. kept \cup {meta} \subseteq FileMeta
    BY <2>1, SMT DEF ManifestContent, FileMeta
  <2> HIDE DEF t, kept, meta
  <2>4. manifest' \in ManifestContent
    BY <2>0, <2>1, <2>3 DEF ManifestContent
  <2>5. comp' \in CompType
    <3>1. comp' = [IdleComp EXCEPT !.pc = "unlink", !.old = comp.inputs] /\ comp.inputs \in Seq(Seqs)
      BY <2>0, <2>1
    <3>2. 0 \in Seqs /\ <<>> \in Seq(Seqs) /\ FALSE \in BOOLEAN
      BY BoundsAssumption, SMT DEF Seqs
    <3> QED
      BY <3>1, <3>2 DEF IdleComp
  <2>6. TypeManifest'
    BY <1>0, <2>0, <2>2, <2>4, <2>5 DEF TypeManifest, CompFrame
  <2>7. TypeClients' /\ TypeLog' /\ TypeTables'
    BY <1>3, <1>5, <2>0
  <2>8. FilesInv'
    BY <1>14, CompPublishFiles
  <2> QED
    BY <2>6, <2>7, <2>8, TypeParts DEF IInv
<1>15. CASE CompPublishFails
  <2>0. /\ CompFrame /\ UNCHANGED <<sstables, manifest, pending>>
        /\ manifestDisk' \in {manifestDisk, manifest} /\ RemoveSst(comp.seq) /\ CompGivesUp
    BY <1>15 DEF CompPublishFails
  <2>1. comp' \in CompType
    <3>1. CompGivesUp
      BY <2>0
    <3> QED
      BY <1>2, <3>1
  <2>2. manifestDisk' \in ManifestContent
    BY <1>0, <2>0 DEF TypeManifest
  <2>3. TypeManifest'
    BY <1>0, <2>0, <2>1, <2>2 DEF TypeManifest, CompFrame
  <2>4. TypeTables'
    BY <1>0, <1>1, <2>0, RemoveSstType
  <2>5. FilesInv'
    BY <1>15, CompPublishFailsFiles
  <2> QED
    BY <1>3, <2>0, <2>3, <2>4, <2>5, TypeParts DEF IInv
<1>16. CASE CompUnlink
  <2>0. /\ CompFrame /\ UNCHANGED <<manifestDisk, sstables, manifest, pending>> /\ comp.pc = "unlink"
        /\ (RemoveSst(comp.old[1]) \/ UNCHANGED sstVars)
        /\ comp' = IF Len(comp.old) > 1 THEN [comp EXCEPT !.old = Tail(@)]
                   ELSE [IdleComp EXCEPT !.pc = IF mode = "closing" THEN "exited" ELSE "select"]
    BY <1>16 DEF CompUnlink
  <2>1. comp.old \in Seq(Seqs) /\ comp.old # <<>>
    BY <1>0, <1>1, <2>0 DEF FilesInv, CompInv
  <2>2. comp.old[1] \in Seqs /\ Tail(comp.old) \in Seq(Seqs)
    BY <2>1, NonEmptySeq
  <2>3. comp' \in CompType
    <3>1. CASE Len(comp.old) > 1
      BY <1>1, <2>0, <2>2, <3>1
    <3>2. CASE ~(Len(comp.old) > 1)
      BY <2>0, <3>2, IdleTypes
    <3> QED
      BY <3>1, <3>2
  <2>4. TypeTables'
    BY <1>0, <1>5, <2>0, <2>2, RemoveSstType
  <2>5. TypeClients' /\ TypeLog' /\ TypeManifest'
    BY <1>3, <1>4, <1>6, <2>0, <2>3
  <2>6. FilesInv'
    BY <1>16, CompUnlinkFiles
  <2> QED
    BY <2>4, <2>5, <2>6, TypeParts DEF IInv
<1> QED
  BY <1>8, <1>9, <1>10, <1>11, <1>12, <1>13, <1>14, <1>15, <1>16 DEF CompStep

=============================================================================
