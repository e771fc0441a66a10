------------------------------ MODULE LsmFacts -------------------------------
(***************************************************************************)
(* Facts about the states of LsmEngine that the proofs share, and what a   *)
(* state in which IInv and CInv hold lets its clients see: reads return    *)
(* the last write of their key (ReadsOfInvariant), and every step then is  *)
(* one of StorageEngine (NextRefines).                                     *)
(***************************************************************************)
EXTENDS LsmInvariants, WellFoundedInduction, TLAPS

\* A leaf that names no prover is for Zenon; those with arithmetic name SMT.
USE Zenon

-----------------------------------------------------------------------------
(* Min and Max of sets of naturals, which the engine uses for "the oldest",*)
(* "the last one" and "whichever comes first".                             *)

\* A non-empty set of naturals has a least element.
LEMMA LeastExists ==
    ASSUME NEW S \in SUBSET Nat, S # {}
    PROVE  \E x \in S : \A y \in S : x <= y
<1>1. \E x \in S : \A y \in S : ~(<<y, x>> \in OpToRel(<, Nat))
  BY NatLessThanWellFounded, WFMin
<1>2. PICK x \in S : \A y \in S : ~(<<y, x>> \in OpToRel(<, Nat))
  BY <1>1
<1>3. ASSUME NEW y \in S PROVE x <= y
  <2>1. ~(y < x)
    BY <1>2 DEF OpToRel
  <2> QED
    BY <2>1, SMT
<1> QED
  BY <1>3

\* A non-empty bounded set of naturals has a greatest element.
LEMMA GreatestExists ==
    ASSUME NEW n \in Nat, NEW S \in SUBSET (0 .. n), S # {}
    PROVE  \E x \in S : \A y \in S : x >= y
<1> DEFINE T == {d \in 0 .. n : n - d \in S}
<1>1. T \in SUBSET Nat /\ T # {}
  <2>1. PICK x \in S : TRUE
    OBVIOUS
  <2>2. n - x \in 0 .. n /\ n - (n - x) = x
    BY <2>1, SMT
  <2>3. n - x \in T
    BY <2>1, <2>2
  <2>4. T \in SUBSET Nat
    BY SMT
  <2> HIDE DEF T
  <2> QED
    BY <2>3, <2>4
<1>2. PICK d \in T : \A e \in T : d <= e
  BY <1>1, LeastExists
<1>3. ASSUME NEW y \in S PROVE n - d >= y
  <2>1. n - y \in T
    <3>1. n - y \in 0 .. n /\ n - (n - y) = y
      BY SMT
    <3> QED
      BY <3>1
  <2>2. d <= n - y
    BY <1>2, <2>1
  <2> QED
    BY <2>2, <1>2, SMT
<1>4. n - d \in S
  BY <1>2
<1> QED
  BY <1>3, <1>4

\* What Min returns.
LEMMA MinFacts ==
    ASSUME NEW S \in SUBSET Nat, S # {}
    PROVE  Min(S) \in S /\ \A y \in S : Min(S) <= y
BY LeastExists DEF Min

\* What Max returns.
LEMMA MaxFacts ==
    ASSUME NEW n \in Nat, NEW S \in SUBSET (0 .. n), S # {}
    PROVE  Max(S) \in S /\ \A y \in S : Max(S) >= y
BY GreatestExists DEF Max

\* Min and Max of two numbers.
LEMMA PairFacts ==
    ASSUME NEW a \in Nat, NEW b \in Nat
    PROVE  /\ Min({a, b}) \in {a, b} /\ Min({a, b}) <= a /\ Min({a, b}) <= b
           /\ Max({a, b}) \in {a, b} /\ Max({a, b}) >= a /\ Max({a, b}) >= b
<1>1. Min({a, b}) \in {a, b} /\ \A y \in {a, b} : Min({a, b}) <= y
  BY MinFacts
<1>2. {a, b} \in SUBSET (0 .. a + b) /\ a + b \in Nat
  BY SMT
<1>3. Max({a, b}) \in {a, b} /\ \A y \in {a, b} : Max({a, b}) >= y
  BY <1>2, MaxFacts
<1> QED
  BY <1>1, <1>3

-----------------------------------------------------------------------------
(* Sequences and types. *)

\* Write ids, file numbers and log generations are natural numbers.
LEMMA NumberSets == Ids \subseteq Nat /\ Seqs \subseteq Nat /\ Gens \subseteq Nat
BY BoundsAssumption, SMT DEF Ids, Seqs, Gens

\* A sequence is a function on 1 .. Len.
LEMMA SeqFacts ==
    ASSUME NEW S, NEW s \in Seq(S)
    PROVE  Len(s) \in Nat /\ DOMAIN s = 1 .. Len(s) /\ \A i \in 1 .. Len(s) : s[i] \in S
BY SMT

\* Append adds its element at the end.
LEMMA AppendFacts ==
    ASSUME NEW S, NEW s \in Seq(S), NEW x \in S
    PROVE  /\ Append(s, x) \in Seq(S)
           /\ Len(Append(s, x)) = Len(s) + 1
           /\ DOMAIN Append(s, x) = 1 .. Len(s) + 1
           /\ \A i \in 1 .. Len(s) : Append(s, x)[i] = s[i]
           /\ Append(s, x)[Len(s) + 1] = x
BY SMT

\* A prefix of a sequence.
LEMMA PrefixContent ==
    ASSUME NEW S, NEW s \in Seq(S), NEW n \in 0 .. Len(s)
    PROVE  /\ Len(SubSeq(s, 1, n)) = n
           /\ DOMAIN SubSeq(s, 1, n) = 1 .. n
           /\ \A i \in 1 .. n : SubSeq(s, 1, n)[i] = s[i]
BY SMT

\* The elements of a sequence over S are in S.
LEMMA ElementOfSeq ==
    ASSUME NEW S, NEW s \in Seq(S), NEW i \in 1 .. Len(s)
    PROVE  s[i] \in S
BY SMT

\* The empty sequence has length 0, and only it.
LEMMA EmptySeq ==
    ASSUME NEW S
    PROVE  /\ <<>> \in Seq(S) /\ Len(<<>>) = 0
           /\ \A s \in Seq(S) : s # <<>> => Len(s) \in Nat \ {0}
BY SMT

\* A sequence is a function on 1 .. Len.
LEMMA LenProperties ==
    ASSUME NEW S, NEW s \in Seq(S)
    PROVE  Len(s) \in Nat /\ s \in [1 .. Len(s) -> S] /\ DOMAIN s = 1 .. Len(s)
BY SMT

\* Sequences that agree everywhere are equal.
LEMMA SeqEqual ==
    ASSUME NEW S, NEW s \in Seq(S), NEW t \in Seq(S), Len(s) = Len(t),
           \A i \in 1 .. Len(s) : s[i] = t[i]
    PROVE  s = t
BY SMT

\* A function on 1 .. n is a sequence.
LEMMA FunctionIsSeq ==
    ASSUME NEW S, NEW n \in Nat, NEW f \in [1 .. n -> S]
    PROVE  f \in Seq(S) /\ Len(f) = n
BY SMT

\* What \o returns.
LEMMA ConcatProperties ==
    ASSUME NEW S, NEW s \in Seq(S), NEW t \in Seq(S)
    PROVE  /\ s \o t \in Seq(S) /\ Len(s \o t) = Len(s) + Len(t)
           /\ \A i \in 1 .. Len(s) + Len(t) :
                 (s \o t)[i] = IF i <= Len(s) THEN s[i] ELSE t[i - Len(s)]
BY SMT

\* What SubSeq returns.
LEMMA SubSeqProperties ==
    ASSUME NEW S, NEW s, NEW m \in Int, NEW n \in Int, \A i \in m .. n : s[i] \in S
    PROVE  /\ SubSeq(s, m, n) \in Seq(S)
           /\ Len(SubSeq(s, m, n)) = IF m <= n THEN n - m + 1 ELSE 0
           /\ \A i \in 1 .. n - m + 1 : SubSeq(s, m, n)[i] = s[m + i - 1]
BY SMT

\* What Head and Tail return.
LEMMA HeadTailProperties ==
    ASSUME NEW S, NEW s \in Seq(S), s # <<>>
    PROVE  /\ Head(s) \in S /\ Tail(s) \in Seq(S) /\ Len(Tail(s)) = Len(s) - 1
           /\ \A i \in 1 .. Len(Tail(s)) : Tail(s)[i] = s[i + 1]
BY SMT

\* What Append returns.
LEMMA AppendProperties ==
    ASSUME NEW S, NEW s \in Seq(S), NEW e \in S
    PROVE  /\ Append(s, e) \in Seq(S)
           /\ Append(s, e) # <<>> /\ Len(Append(s, e)) = Len(s) + 1
           /\ \A i \in 1 .. Len(s) : Append(s, e)[i] = s[i]
           /\ Append(s, e)[Len(s) + 1] = e
BY SMT

\* The range of a sequence, by index.
LEMMA RangeEquality ==
    ASSUME NEW S, NEW s \in Seq(S)
    PROVE  Range(s) = {s[i] : i \in 1 .. Len(s)}
BY SMT DEF Range

\* What the types say of logs, history, memtables and files.
Shapes ==
    /\ walFiles \subseteq Gens
    /\ walGen \in Gens
    /\ walDurable \in [Gens -> Nat]
    /\ \A g \in Gens :
          /\ Len(walRecs[g]) \in Nat
          /\ DOMAIN walRecs[g] = 1 .. Len(walRecs[g])
          /\ walDurable[g] \in Nat
          /\ \A i \in 1 .. Len(walRecs[g]) :
                walRecs[g][i].key \in Keys /\ walRecs[g][i].id \in Ids /\ walRecs[g][i].id # 0
    /\ Len(hist) \in Nat
    /\ Len(hist) <= MaxWrites
    /\ DOMAIN hist = 1 .. Len(hist)
    /\ \A i \in 1 .. Len(hist) : hist[i].key \in Keys /\ hist[i].val \in Ids
    /\ \A k \in Keys : memtable[k] \in Ids
    /\ Len(immutables) \in Nat
    /\ DOMAIN immutables = 1 .. Len(immutables)
    /\ \A i \in 1 .. Len(immutables) :
          immutables[i].gen \in Gens /\ \A k \in Keys : immutables[i].tab[k] \in Ids
    /\ \A f \in manifestDisk.files : f.path \in Seqs /\ f.seq \in Seqs
    /\ \A p \in Seqs, k \in Keys : sst[p][k] \in Ids

\* The types give the shapes.
LEMMA ShapesOfTypes == IInv => Shapes
<1> SUFFICES ASSUME IInv PROVE Shapes
  OBVIOUS
<1>1. TypeOK
  BY DEF IInv
<1>2. \A g \in Gens : walRecs[g] \in Seq(Record) /\ walDurable[g] \in Nat
  BY <1>1 DEF TypeOK
<1>3. ASSUME NEW g \in Gens
      PROVE  /\ Len(walRecs[g]) \in Nat
             /\ DOMAIN walRecs[g] = 1 .. Len(walRecs[g])
             /\ \A i \in 1 .. Len(walRecs[g]) :
                   walRecs[g][i].key \in Keys /\ walRecs[g][i].id \in Ids /\ walRecs[g][i].id # 0
  <2>1. walRecs[g] \in Seq(Record)
    BY <1>2
  <2>2. \A i \in 1 .. Len(walRecs[g]) : walRecs[g][i] \in Record
    BY <2>1, SeqFacts
  <2>3. \A r \in Record : r.key \in Keys /\ r.id \in Ids /\ r.id # 0
    BY BoundsAssumption, SMT DEF Record, Ids
  <2> QED
    BY <2>1, <2>2, <2>3, SeqFacts
<1>4. /\ Len(hist) \in Nat
      /\ Len(hist) <= MaxWrites
      /\ DOMAIN hist = 1 .. Len(hist)
      /\ \A i \in 1 .. Len(hist) : hist[i].key \in Keys /\ hist[i].val \in Ids
  <2>1. hist \in Seq([key : Keys, val : Ids]) /\ Len(hist) <= MaxWrites
    BY <1>1 DEF TypeOK
  <2>2. /\ Len(hist) \in Nat
        /\ DOMAIN hist = 1 .. Len(hist)
        /\ \A i \in 1 .. Len(hist) : hist[i] \in [key : Keys, val : Ids]
    BY <2>1, SeqFacts
  <2> QED
    BY <2>1, <2>2
<1>5. \A k \in Keys : memtable[k] \in Ids
  BY <1>1 DEF TypeOK, Table
<1>6. /\ Len(immutables) \in Nat
      /\ DOMAIN immutables = 1 .. Len(immutables)
      /\ \A i \in 1 .. Len(immutables) : immutables[i].gen \in Gens /\ immutables[i].tab \in Table
  <2>1. immutables \in Seq([tab : Table, gen : Gens])
    BY <1>1 DEF TypeOK
  <2>2. /\ Len(immutables) \in Nat
        /\ DOMAIN immutables = 1 .. Len(immutables)
        /\ \A i \in 1 .. Len(immutables) : immutables[i] \in [tab : Table, gen : Gens]
    BY <2>1, SeqFacts
  <2> QED
    BY <2>2
<1>7. \A f \in manifestDisk.files : f.path \in Seqs /\ f.seq \in Seqs
  BY <1>1 DEF TypeOK, ManifestContent, FileMeta
<1>8. \A p \in Seqs, k \in Keys : sst[p][k] \in Ids
  <2>1. sst \in [Seqs -> Table]
    BY <1>1 DEF TypeOK
  <2> QED
    BY <2>1, SMT DEF Table
<1>9. walFiles \subseteq Gens /\ walGen \in Gens /\ walDurable \in [Gens -> Nat]
  BY <1>1 DEF TypeOK
<1>10. \A i \in 1 .. Len(immutables) : \A k \in Keys : immutables[i].tab[k] \in Ids
  BY <1>6 DEF Table
<1> QED
  BY <1>2, <1>3, <1>4, <1>5, <1>6, <1>7, <1>8, <1>9, <1>10 DEF Shapes

\* The same after the step.
LEMMA ShapesOfTypesNext == IInv' => Shapes'
BY ShapesOfTypes, PTL

-----------------------------------------------------------------------------
(* Steps that leave alone what a part of CInv is about. *)

\* DiskInv is about logs, history and the files that the manifest names.
LEMMA DiskFrame ==
    ASSUME DiskInv,
           UNCHANGED <<walVars, walGen, walBad, hist>>,
           manifestDisk'.files = manifestDisk.files,
           \A f \in manifestDisk.files : sst'[f.path] = sst[f.path],
           Serving => Serving', LogsOpen' => LogsOpen,
           flush'.pc = "unlink" <=> flush.pc = "unlink",
           flush.pc = "unlink" => flush'.gen = flush.gen,
           mode' # "down" => manifest'.files = manifestDisk.files
    PROVE  DiskInv'
<1>1. \A g, k, id : Rec(g, k, id)' <=> Rec(g, k, id)
  BY DEF Rec, walVars
<1>2. \A k, id : InFile(k, id)' <=> InFile(k, id)
  BY DEF InFile
<1>3. LiveLogs' = LiveLogs
  BY DEF LiveLogs, walVars
<1>4. \A k, id : Entry(k, id)' <=> Entry(k, id)
  BY <1>1, <1>2, <1>3 DEF Entry
<1>5. \A k, id : WriteOf(k, id)' <=> WriteOf(k, id)
  BY DEF WriteOf
<1>6. \A k, id, n : LastOf(k, id, n)' <=> LastOf(k, id, n)
  BY <1>5 DEF LastOf
<1>7. Durable' = Durable
  BY DEF Durable, walVars
<1>8. SegmentsInv'
  BY DEF DiskInv, SegmentsInv, walVars
<1>9. RecordsInv'
  BY <1>1, <1>5, <1>7 DEF DiskInv, RecordsInv, walVars
<1>10. RecordOrder'
  BY <1>1, SMT DEF DiskInv, RecordOrder, walVars
<1>11. FilesHold'
  BY <1>5, <1>7 DEF DiskInv, FilesHold
<1>12. LogsOverFiles'
  BY <1>1, <1>2 DEF DiskInv, LogsOverFiles, walVars
<1>13. Covered'
  BY <1>4, <1>6, <1>7 DEF DiskInv, Covered
<1>14. UnlinkCovered'
  BY <1>1, <1>4, <1>6, <1>7 DEF DiskInv, UnlinkCovered
<1> QED
  BY <1>8, <1>9, <1>10, <1>11, <1>12, <1>13, <1>14 DEF DiskInv

\* What the merge has written stays right while its inputs and output stand.
LEMMA MergeFrame ==
    ASSUME CompContent, UNCHANGED <<comp, sstables>>,
           comp.pc = "publish" => /\ sst'[comp.seq] = sst[comp.seq]
                                  /\ \A j \in DOMAIN comp.inputs : sst'[comp.inputs[j]] = sst[comp.inputs[j]],
           \A id : Deleted(id) => Deleted(id)'
    PROVE  CompContent'
<1>1. \A i : RunAt(i)' <=> RunAt(i)
  BY DEF RunAt
<1>2. CompBusy' /\ comp'.full => \E i \in 1 .. Len(sstables') : RunAt(i)' /\ i + Fanout - 1 = Len(sstables')
  BY <1>1 DEF CompContent, CompBusy
<1>3. ASSUME comp'.pc = "publish"
      PROVE  MergedFrom(comp.inputs, comp.full, sst[comp.seq])'
  <2>1. MergedFrom(comp.inputs, comp.full, sst[comp.seq])
    BY <1>3 DEF CompContent
  <2>2. sst'[comp.seq] = sst[comp.seq] /\ \A j \in DOMAIN comp.inputs : sst'[comp.inputs[j]] = sst[comp.inputs[j]]
    BY <1>3
  <2> QED
    BY <2>1, <2>2 DEF MergedFrom
<1> QED
  BY <1>2, <1>3 DEF CompContent

\* MemtablesInv is about memtables, logs and the segment being deleted.
LEMMA MemtablesFrame ==
    ASSUME MemtablesInv, UNCHANGED <<walFiles, walRecs, walGen, memtable, immutables>>,
           Serving' => Serving,
           flush'.pc = "unlink" <=> flush.pc = "unlink",
           flush.pc = "unlink" => flush'.gen = flush.gen
    PROVE  MemtablesInv'
<1>1. \A tab, g : Holds(tab, g)' <=> Holds(tab, g)
  BY SMT DEF Holds, Rec
<1>2. Serving' => SegmentsMatchMemtables'
  BY DEF MemtablesInv, SegmentsMatchMemtables
<1> QED
  BY <1>1, <1>2 DEF MemtablesInv

\* FlushContent is about the flush thread, its file, and the segments.
LEMMA FlushContentFrame ==
    ASSUME FlushContent, UNCHANGED <<walFiles, walGen, immutables, flush>>,
           flush.pc = "publish" => sst'[flush.seq] = sst[flush.seq]
    PROVE  FlushContent'
BY DEF FlushContent, FlushBusy

-----------------------------------------------------------------------------
(* Logs and files. *)

\* The tail of the log in use is no longer than the history.
LEMMA DurableFacts ==
    ASSUME Shapes, SegmentsInv, RecordsInv
    PROVE  /\ Durable \in 0 .. Len(hist) /\ Durable \in Nat /\ Len(hist) \in Nat
           /\ Len(hist) - Durable = Len(walRecs[walGen]) - walDurable[walGen]
<1> DEFINE d == walDurable[walGen]
           n == Len(walRecs[walGen])
<1>1. d \in Nat /\ n \in Nat /\ d <= n /\ Len(hist) \in Nat
  BY DEF Shapes, SegmentsInv
<1>2. d < n => Len(hist) - n + (d + 1) >= 1
  <2>1. SUFFICES ASSUME d < n PROVE Len(hist) - n + (d + 1) >= 1
    OBVIOUS
  <2>2. d + 1 \in d + 1 .. n /\ d + 1 \in 1 .. n
    BY <1>1, <2>1, SMT
  <2>3. walRecs[walGen][d + 1].id = Len(hist) - n + (d + 1)
    BY <2>2 DEF RecordsInv
  <2>4. walRecs[walGen][d + 1].id \in Nat /\ walRecs[walGen][d + 1].id # 0
    BY <2>2, NumberSets DEF Shapes
  <2> QED
    BY <1>1, <2>3, <2>4, SMT
<1> QED
  BY <1>1, <1>2, SMT DEF Durable

\* What the logs and files have is in the history.
LEMMA HeldIsWritten ==
    ASSUME Shapes, SegmentsInv, RecordsInv, FilesHold
    PROVE  /\ \A g \in Gens \ walFiles : \A k, id : ~Rec(g, k, id)
           /\ \A g \in Gens, k \in Keys, id \in Ids : Rec(g, k, id) => id \in 1 .. Len(hist) /\ WriteOf(k, id)
           /\ \A k \in Keys, id \in Ids : InFile(k, id) => id \in 1 .. Durable /\ WriteOf(k, id)
           /\ \A k \in Keys, id \in Ids : Entry(k, id) => id \in 1 .. Len(hist) /\ WriteOf(k, id)
<1>1. \A g \in Gens \ walFiles : \A k, id : ~Rec(g, k, id)
  BY SMT DEF SegmentsInv, Rec
<1>2. \A k, id : WriteOf(k, id) => id \in 1 .. Len(hist)
  BY DEF WriteOf, Shapes
<1>3. \A g \in Gens, k \in Keys, id \in Ids : Rec(g, k, id) => id \in 1 .. Len(hist) /\ WriteOf(k, id)
  BY <1>1, <1>2 DEF RecordsInv
<1>4. Durable \in 0 .. Len(hist) /\ Len(hist) \in Nat
  BY DurableFacts DEF Shapes
<1>5. \A k \in Keys, id \in Ids : InFile(k, id) => id \in 1 .. Durable /\ WriteOf(k, id)
  BY <1>2, <1>4, SMT DEF FilesHold, InFile, Ids
<1>6. LiveLogs \subseteq Gens
  BY DEF LiveLogs, Shapes
<1> QED
  BY <1>1, <1>3, <1>4, <1>5, <1>6, SMT DEF Entry

\* The inputs of a compaction in progress are files of the manifest.
LEMMA InputsNamed ==
    ASSUME IInv, CompBusy
    PROVE  /\ Len(comp.inputs) = Fanout /\ DOMAIN comp.inputs = 1 .. Fanout
           /\ \A j \in 1 .. Fanout : comp.inputs[j] \in Paths(manifest.files)
<1>1. comp.inputs \in Seq(Seqs) /\ sstables \in Seq(Seqs) /\ Len(comp.inputs) = Fanout
  BY DEF IInv, TypeOK, FilesInv, CompInv
<1>2. DOMAIN comp.inputs = 1 .. Fanout /\ DOMAIN sstables = 1 .. Len(sstables) /\ Len(sstables) \in Nat
  BY <1>1, SeqFacts
<1>3. PICK i \in 1 .. Len(sstables) : RunAt(i)
  BY DEF IInv, FilesInv, CompInv
<1>4. ASSUME NEW j \in 1 .. Fanout PROVE comp.inputs[j] \in Paths(manifest.files)
  <2>1. i + j - 1 \in 1 .. Len(sstables) /\ sstables[i + j - 1] = comp.inputs[j]
    BY <1>1, <1>2, <1>3, SizesAssumption, SMT DEF RunAt
  <2>2. comp.inputs[j] \in Range(sstables)
    BY <1>2, <2>1 DEF Range
  <2> QED
    BY <2>2 DEF IInv, FilesInv, TablesInv
<1> QED
  BY <1>1, <1>2, <1>4

\* What is written to, or deleted at, a number that no manifest names leaves
\* the named files alone.
LEMMA UnnamedSst ==
    ASSUME IInv, NEW p \in Seqs, Unnamed(p), NEW tab, sst' = [sst EXCEPT ![p] = tab]
    PROVE  /\ \A f \in manifestDisk.files : sst'[f.path] = sst[f.path]
           /\ comp.pc = "publish" => \A j \in DOMAIN comp.inputs : sst'[comp.inputs[j]] = sst[comp.inputs[j]]
           /\ \A q \in Seqs : q # p => sst'[q] = sst[q]
           /\ sst'[p] = tab
<1>1. sst \in [Seqs -> Table] /\ \A f \in manifestDisk.files : f.path \in Seqs
  BY DEF IInv, TypeOK, ManifestContent, FileMeta
<1>2. \A f \in manifestDisk.files : f.path # p
  BY DEF Unnamed, Paths
<1>3. \A q \in Paths(manifest.files) : q # p /\ q \in Seqs
  <2>1. manifest.files \subseteq FileMeta
    BY DEF IInv, TypeOK, ManifestContent
  <2> QED
    BY <2>1 DEF Unnamed, Paths, FileMeta
<1>4. comp.pc = "publish" => \A j \in DOMAIN comp.inputs : comp.inputs[j] \in Paths(manifest.files)
  BY InputsNamed DEF CompBusy
<1> QED
  BY <1>1, <1>2, <1>3, <1>4

\* In sstables_ the entries of a key get older from front to back.
LEMMA TableOrder ==
    ASSUME IInv, DiskInv, mode # "down",
           NEW i \in DOMAIN sstables, NEW j \in DOMAIN sstables, i < j,
           NEW k \in Keys, sst[sstables[i]][k] # 0
    PROVE  sst[sstables[i]][k] >= sst[sstables[j]][k]
<1>1. sstables[i] \in Paths(manifest.files) /\ sstables[j] \in Paths(manifest.files)
  BY DEF IInv, FilesInv, TablesInv, Range
<1>2. PICK f \in manifest.files : f.path = sstables[i]
  BY <1>1 DEF Paths
<1>3. PICK g \in manifest.files : g.path = sstables[j]
  BY <1>1 DEF Paths
<1>4. f.seq > g.seq
  BY <1>2, <1>3 DEF IInv, FilesInv, TablesInv
<1>5. manifest.files = manifestDisk.files
  BY DEF DiskInv, FilesHold
<1> QED
  BY <1>2, <1>3, <1>4, <1>5 DEF DiskInv, FilesHold

\* The first table of a list that has the key decides.
LEMMA FirstEntryFacts ==
    ASSUME NEW paths, NEW n \in Nat, DOMAIN paths = 1 .. n, NEW k
    PROVE  \/ FirstEntry(paths, k) = 0 /\ \A i \in 1 .. n : sst[paths[i]][k] = 0
           \/ \E i \in 1 .. n : /\ FirstEntry(paths, k) = sst[paths[i]][k]
                                /\ sst[paths[i]][k] # 0
                                /\ \A j \in 1 .. i - 1 : sst[paths[j]][k] = 0
<1>1. CASE \A i \in 1 .. n : sst[paths[i]][k] = 0
  BY <1>1 DEF FirstEntry
<1>2. CASE \E i \in 1 .. n : sst[paths[i]][k] # 0
  <2> DEFINE S == {i \in 1 .. n : sst[paths[i]][k] # 0}
             P(i) == sst[paths[i]][k] # 0 /\ \A j \in 1 .. i - 1 : sst[paths[j]][k] = 0
  <2>1. S \in SUBSET Nat /\ S # {}
    BY <1>2, SMT
  <2>2. PICK m \in S : \A y \in S : m <= y
    BY <2>1, LeastExists
  <2>3. \A j \in 1 .. m - 1 : j \in 1 .. n /\ ~(m <= j)
    BY <2>2, SMT
  <2>4. m \in 1 .. n /\ P(m)
    BY <2>2, <2>3
  <2> DEFINE c == CHOOSE i \in 1 .. n : P(i)
  <2>5. FirstEntry(paths, k) = sst[paths[c]][k]
    BY <1>2 DEF FirstEntry
  <2> HIDE DEF P
  <2>6. c \in 1 .. n /\ P(c)
    BY <2>4
  <2> HIDE DEF c
  <2> QED
    BY <2>5, <2>6 DEF P
<1> QED
  BY <1>1, <1>2

-----------------------------------------------------------------------------
(* What a crash leaves, and what a replay makes of it. *)

\* How much a crash keeps of each segment: all but the end of the tail.
LEMMA KeptOfSegment ==
    ASSUME Shapes, SegmentsInv, NEW extra \in Ids, NEW g \in Gens
    PROVE  /\ Kept(g, extra) \in walDurable[g] .. Len(walRecs[g])
           /\ Kept(g, extra) \in 0 .. Len(walRecs[g])
           /\ ~(Serving /\ g = walGen) => Kept(g, extra) = Len(walRecs[g])
<1> DEFINE a == Len(walRecs[g])
           b == walDurable[g] + extra
<1>1. /\ a \in Nat /\ b \in Nat /\ walDurable[g] \in Nat /\ walDurable[g] <= a /\ walDurable[g] <= b
      /\ ~(Serving /\ g = walGen) => walDurable[g] = a
  <2>1. a \in Nat /\ walDurable[g] \in Nat /\ extra \in Nat
    BY NumberSets DEF Shapes
  <2>2. walDurable[g] <= a /\ (~(Serving /\ g = walGen) => walDurable[g] = a)
    BY DEF SegmentsInv
  <2>3. b \in Nat /\ walDurable[g] <= b
    BY <2>1, SMT
  <2> QED
    BY <2>1, <2>2, <2>3
<1>2. Kept(g, extra) = Min({a, b})
  BY DEF Kept
<1> HIDE DEF a, b
<1>3. Min({a, b}) \in {a, b} /\ Min({a, b}) <= a /\ Min({a, b}) <= b
  BY <1>1, PairFacts
<1>4. Min({a, b}) \in walDurable[g] .. a /\ Min({a, b}) \in 0 .. a
  BY <1>1, <1>3, SMT
<1>5. walDurable[g] = a => Min({a, b}) = a
  BY <1>1, <1>3, SMT
<1> QED
  BY <1>1, <1>2, <1>4, <1>5 DEF a

\* The history a crash leaves ends with the last record that is left of the
\* segment in use.
LEMMA SurvivingHistory ==
    ASSUME Shapes, SegmentsInv, RecordsInv, NEW extra \in Ids
    PROVE  LET m == Len(hist) - Len(walRecs[walGen]) + Kept(walGen, extra)
           IN  Surviving(extra) = m /\ m \in Durable .. Len(hist)
<1> DEFINE n == Len(walRecs[walGen])
           q == Kept(walGen, extra)
           L == Len(hist)
           m == L - n + q
           S == {L} \cup {i - 1 : i \in LostIds(extra)}
<1>1. walGen \in Gens /\ n \in Nat /\ L \in Nat /\ DOMAIN walRecs[walGen] = 1 .. n /\ walDurable[walGen] \in Nat
  BY DEF Shapes
<1>2. q \in walDurable[walGen] .. n /\ q \in 0 .. n
  BY <1>1, KeptOfSegment
<1>3. Durable = L - n + walDurable[walGen] /\ Durable \in 0 .. L
  BY DurableFacts DEF Durable
<1>4. m \in Durable .. L /\ m \in Nat
  BY <1>1, <1>2, <1>3, SMT
<1>5. \A i \in q + 1 .. n : walRecs[walGen][i].id = L - n + i
  <2>1. \A i \in q + 1 .. n : i \in walDurable[walGen] + 1 .. n
    BY <1>1, <1>2, SMT
  <2> QED
    BY <2>1 DEF RecordsInv
<1>6. \A x \in LostIds(extra) : \E j \in q + 1 .. n : x = L - n + j
  <2>0. \A x \in LostIds(extra) : \E g \in walFiles : \E i \in Kept(g, extra) + 1 .. Len(walRecs[g]) : x = walRecs[g][i].id
    BY DEF LostIds
  <2>1. ASSUME NEW g \in walFiles, NEW i \in Kept(g, extra) + 1 .. Len(walRecs[g])
        PROVE  \E j \in q + 1 .. n : walRecs[g][i].id = L - n + j
    <3>1. g \in Gens /\ Kept(g, extra) \in 0 .. Len(walRecs[g]) /\ (g # walGen => Kept(g, extra) = Len(walRecs[g]))
      BY KeptOfSegment DEF Shapes
    <3>2. Len(walRecs[g]) \in Nat
      BY <3>1 DEF Shapes
    <3>3. g = walGen
      BY <3>1, <3>2, SMT
    <3> QED
      BY <1>5, <3>3
  <2> HIDE DEF L, n, q
  <2>2. SUFFICES ASSUME NEW x \in LostIds(extra) PROVE \E j \in q + 1 .. n : x = L - n + j
    OBVIOUS
  <2>3. PICK g \in walFiles : \E i \in Kept(g, extra) + 1 .. Len(walRecs[g]) : x = walRecs[g][i].id
    BY <2>0
  <2>4. PICK i \in Kept(g, extra) + 1 .. Len(walRecs[g]) : x = walRecs[g][i].id
    BY <2>3
  <2>5. PICK j \in q + 1 .. n : walRecs[g][i].id = L - n + j
    BY <2>1
  <2> QED
    BY <2>4, <2>5
<1>7. q < n => walGen \in walFiles
  <2>1. q < n => Serving
    BY <1>1, <1>2, KeptOfSegment, SMT
  <2> QED
    BY <2>1 DEF SegmentsInv, Serving, LogsOpen
<1>8. q < n => m + 1 \in LostIds(extra)
  <2>1. SUFFICES ASSUME q < n PROVE m + 1 \in LostIds(extra)
    OBVIOUS
  <2>2. q + 1 \in q + 1 .. n /\ L - n + (q + 1) = m + 1
    BY <1>1, <1>2, <2>1, SMT
  <2>3. walRecs[walGen][q + 1].id = m + 1
    BY <1>5, <2>2
  <2> HIDE DEF m, L
  <2> QED
    BY <1>7, <2>1, <2>2, <2>3, SMT DEF LostIds
<1>9. \A y \in S : y \in Nat /\ m <= y
  <2>1. \A i \in q + 1 .. n : (L - n + i) - 1 \in Nat /\ m <= (L - n + i) - 1
    <3>1. \A a, b, c \in Nat : \A i \in c + 1 .. b : a - b + c \in Nat =>
                                  (a - b + i) - 1 \in Nat /\ a - b + c <= (a - b + i) - 1
      BY SMT
    <3>2. q \in Nat
      BY <1>1, <1>2, SMT
    <3> QED
      BY <1>1, <1>4, <3>1, <3>2
  <2>2. m <= L
    BY <1>1, <1>4, SMT
  <2>3. \A x \in LostIds(extra) : x - 1 \in Nat /\ m <= x - 1
    <3> HIDE DEF m, q, L, n
    <3> QED
      BY <1>6, <2>1
  <2> HIDE DEF m, L
  <2> QED
    BY <1>1, <2>2, <2>3
<1>10. m \in S
  <2>1. CASE q < n
    <3>1. m + 1 \in LostIds(extra) /\ (m + 1) - 1 = m
      BY <1>4, <1>8, <2>1, SMT
    <3> HIDE DEF m
    <3> QED
      BY <3>1
  <2>2. CASE ~(q < n)
    <3>1. m = L
      BY <1>1, <1>2, <2>2, SMT
    <3> QED
      BY <3>1
  <2> QED
    BY <2>1, <2>2
<1>11. Surviving(extra) = Min(S)
  BY DEF Surviving
<1> HIDE DEF m, S, L
<1>12. S \in SUBSET Nat /\ S # {}
  BY <1>9, <1>10
<1>13. Min(S) \in S /\ \A y \in S : Min(S) <= y
  BY <1>12, MinFacts
<1>14. Min(S) = m
  <2>1. Min(S) \in Nat /\ m <= Min(S)
    BY <1>9, <1>13
  <2>2. Min(S) <= m
    BY <1>10, <1>13
  <2> QED
    BY <1>4, <2>1, <2>2, SMT
<1> QED
  BY <1>4, <1>11, <1>14 DEF m, L

\* What replaying one segment leaves of a key: its newest record.
LEMMA ReplaySegmentFacts ==
    ASSUME Shapes, RecordOrder, NEW g \in walFiles, NEW k \in Keys
    PROVE  \/ ReplaySegment(g, k) = 0 /\ \A e : ~Rec(g, k, e)
           \/ /\ ReplaySegment(g, k) \in Ids /\ ReplaySegment(g, k) # 0
              /\ Rec(g, k, ReplaySegment(g, k))
              /\ \A e : Rec(g, k, e) => e <= ReplaySegment(g, k)
<1> DEFINE s == walRecs[g]
           n == Len(walRecs[g])
<1>1. /\ n \in Nat /\ DOMAIN s = 1 .. n
      /\ \A i \in 1 .. n : s[i].id \in Ids /\ s[i].id # 0
  BY DEF Shapes
<1>2. CASE \A i \in 1 .. n : s[i].key # k
  BY <1>1, <1>2 DEF ReplaySegment, Rec
<1>3. CASE \E i \in 1 .. n : s[i].key = k
  <2> DEFINE S == {i \in 1 .. n : s[i].key = k}
             P(i) == s[i].key = k /\ \A j \in i + 1 .. n : s[j].key # k
  <2>1. S \in SUBSET (0 .. n) /\ S # {}
    BY <1>1, <1>3, SMT
  <2>2. PICK m \in S : \A y \in S : m >= y
    BY <1>1, <2>1, GreatestExists
  <2>3. \A j \in m + 1 .. n : j \in 1 .. n /\ ~(m >= j)
    BY <1>1, <2>2, SMT
  <2>4. m \in 1 .. n /\ P(m)
    BY <2>2, <2>3
  <2> DEFINE c == CHOOSE i \in 1 .. n : P(i)
  <2>5. ReplaySegment(g, k) = s[c].id
    BY <1>1, <1>3 DEF ReplaySegment
  <2> HIDE DEF P
  <2>6. c \in 1 .. n /\ P(c)
    BY <2>4
  <2> HIDE DEF c
  <2>7. s[c].key = k /\ \A j \in c + 1 .. n : s[j].key # k
    BY <2>6 DEF P
  <2>8. ASSUME NEW j \in 1 .. n, s[j].key = k PROVE s[j].id <= s[c].id
    <3>1. j = c \/ j < c
      BY <1>1, <2>6, <2>7, <2>8, SMT
    <3>2. s[c].id \in Nat
      BY <1>1, <2>6, SMT DEF Ids
    <3> QED
      BY <1>1, <2>6, <2>7, <2>8, <3>1, <3>2, SMT DEF RecordOrder
  <2> QED
    BY <1>1, <2>5, <2>6, <2>7, <2>8 DEF Rec
<1> QED
  BY <1>2, <1>3

\* What replaying all segments leaves of a key: the newest record of all.
LEMMA ReplayedFacts ==
    ASSUME Shapes, RecordOrder, NEW k \in Keys
    PROVE  \/ Replayed(k) = 0 /\ \A g \in walFiles : \A e : ~Rec(g, k, e)
           \/ /\ Replayed(k) \in Ids /\ Replayed(k) # 0
              /\ \E g \in walFiles : Rec(g, k, Replayed(k))
              /\ \A g \in walFiles, e \in Ids : Rec(g, k, e) => e <= Replayed(k)
<1> DEFINE r(g) == ReplaySegment(g, k)
<1>1. ASSUME NEW g \in walFiles
      PROVE  \/ r(g) = 0 /\ \A e : ~Rec(g, k, e)
             \/ r(g) \in Ids /\ r(g) # 0 /\ Rec(g, k, r(g)) /\ \A e : Rec(g, k, e) => e <= r(g)
  BY ReplaySegmentFacts
<1>2. CASE \A g \in walFiles : r(g) = 0
  BY <1>1, <1>2 DEF Replayed
<1>3. CASE \E g \in walFiles : r(g) # 0
  <2> DEFINE S == {g \in walFiles : r(g) # 0}
             P(g) == r(g) # 0 /\ \A h \in walFiles : h > g => r(h) = 0
  <2>1. S \in SUBSET (0 .. MaxGen) /\ S # {} /\ MaxGen \in Nat
    BY <1>3, BoundsAssumption DEF Shapes, Gens
  <2> HIDE DEF r
  <2>2. PICK m \in S : \A y \in S : m >= y
    BY <2>1, GreatestExists
  <2>3. P(m) /\ m \in walFiles
    <3>1. \A a, b \in 0 .. MaxGen : a >= b => ~(b > a)
      BY <2>1, SMT
    <3>2. walFiles \subseteq 0 .. MaxGen
      BY DEF Shapes, Gens
    <3> QED
      BY <2>2, <3>1, <3>2
  <2> DEFINE c == CHOOSE g \in walFiles : P(g)
  <2>4. Replayed(k) = r(c)
    BY <1>3 DEF Replayed, r
  <2> HIDE DEF P
  <2>5. c \in walFiles /\ P(c)
    BY <2>3
  <2> HIDE DEF c
  <2>6. r(c) # 0 /\ \A h \in walFiles : h > c => r(h) = 0
    BY <2>5 DEF P
  <2>7. r(c) \in Ids /\ Rec(c, k, r(c)) /\ \A e : Rec(c, k, e) => e <= r(c)
    BY <1>1, <2>5, <2>6
  <2>8. ASSUME NEW h \in walFiles, NEW e \in Ids, Rec(h, k, e) PROVE e <= r(c)
    <3>1. h < c \/ h = c \/ h > c
      <4>1. h \in Nat /\ c \in Nat
        BY <2>5, NumberSets DEF Shapes
      <4> QED
        BY <4>1, SMT
    <3>2. CASE h < c
      BY <2>5, <2>7, <2>8, <3>2 DEF RecordOrder
    <3>3. CASE h = c
      BY <2>7, <2>8, <3>3
    <3>4. CASE h > c
      BY <1>1, <2>6, <2>8, <3>4
    <3> QED
      BY <3>1, <3>2, <3>3, <3>4
  <2> QED
    BY <2>4, <2>5, <2>6, <2>7, <2>8
<1> QED
  BY <1>2, <1>3

-----------------------------------------------------------------------------
(* Reads. *)

\* r is the newest write of k that the logs and the files have.
Newest(k, r) ==
    \/ r = 0 /\ \A e \in Ids : ~Entry(k, e)
    \/ /\ r \in Ids /\ r # 0 /\ Entry(k, r)
       /\ \A e \in Ids : Entry(k, e) => e <= r

\* get_locked finds the newest entry there is.
LEMMA GetLockedNewest ==
    ASSUME IInv, CInv, Serving, NEW k \in Keys
    PROVE  Newest(k, GetLocked(k))
<1> DEFINE N == Len(immutables)
           tab(i) == immutables[i].tab
           gen(i) == immutables[i].gen
<1>1. Shapes /\ SegmentsInv /\ RecordsInv /\ RecordOrder /\ FilesHold /\ LogsOverFiles /\ LogsOpen /\ mode # "down"
  BY ShapesOfTypes DEF CInv, DiskInv, Serving, LogsOpen
<1>2. N \in Nat /\ DOMAIN immutables = 1 .. N /\ \A i \in 1 .. N : gen(i) \in Gens /\ tab(i)[k] \in Ids
  BY <1>1 DEF Shapes
<1>3. /\ Holds(memtable, walGen)
      /\ \A i \in 1 .. N : Holds(tab(i), gen(i)) /\ gen(i) \in walFiles /\ gen(i) < walGen
      /\ \A i, j \in 1 .. N : i < j => gen(i) < gen(j)
      /\ SegmentsMatchMemtables
  BY <1>2 DEF CInv, MemtablesInv
<1>4. \A a, b \in Gens : a < b => a # b
  BY SMT DEF Gens
<1>5. /\ LiveLogs = {walGen} \cup {gen(i) : i \in 1 .. N}
      /\ LiveLogs \subseteq walFiles /\ walFiles \subseteq Gens /\ walGen \in Gens
  <2>1. flush.pc = "unlink" => /\ flush.gen \in walFiles /\ flush.gen < walGen
                               /\ \A i \in 1 .. N : flush.gen < gen(i)
    BY <1>2 DEF CInv, FlushContent
  <2>2. walFiles \subseteq Gens /\ walGen \in Gens
    BY <1>1 DEF Shapes
  <2>3. flush.pc = "unlink" => flush.gen # walGen /\ \A i \in 1 .. N : flush.gen # gen(i)
    BY <1>2, <1>4, <2>1, <2>2
  <2>4. walFiles = {walGen} \cup {gen(i) : i \in 1 .. N} \cup (IF flush.pc = "unlink" THEN {flush.gen} ELSE {})
    BY <1>2, <1>3 DEF SegmentsMatchMemtables
  <2> QED
    BY <2>2, <2>3, <2>4 DEF LiveLogs
<1>6. \A e \in Ids : Entry(k, e) <=> InFile(k, e) \/ Rec(walGen, k, e) \/ \E i \in 1 .. N : Rec(gen(i), k, e)
  <2> HIDE DEF gen
  <2> QED
    BY <1>5 DEF Entry
<1>7. \A g \in walFiles, e \in Ids : Rec(g, k, e) => e # 0 /\ e \in Nat
  <2>1. \A e : WriteOf(k, e) => e \in 1 .. Len(hist)
    BY <1>1 DEF WriteOf, Shapes
  <2>2. \A e \in 1 .. Len(hist) : e # 0 /\ e \in Nat
    BY SMT
  <2> QED
    BY <1>1, <2>1, <2>2 DEF RecordsInv
<1>8. CASE memtable[k] # 0
  <2> DEFINE r == memtable[k]
  <2>1. GetLocked(k) = r /\ r \in Ids /\ Rec(walGen, k, r)
    BY <1>1, <1>3, <1>8 DEF GetLocked, Holds, Shapes
  <2>2. ASSUME NEW e \in Ids, Entry(k, e) PROVE e <= r
    <3>1. CASE InFile(k, e)
      BY <1>1, <2>1, <3>1 DEF LogsOverFiles, Ids
    <3>2. CASE Rec(walGen, k, e)
      BY <1>3, <3>2 DEF Holds
    <3>3. ASSUME NEW i \in 1 .. N, Rec(gen(i), k, e) PROVE e <= r
      BY <1>1, <1>3, <1>5, <2>1, <3>3 DEF RecordOrder, SegmentsInv
    <3> QED
      BY <1>6, <2>2, <3>1, <3>2, <3>3
  <2> QED
    BY <1>6, <1>8, <2>1, <2>2 DEF Newest
<1>9. memtable[k] = 0 => \A e \in Ids : ~Rec(walGen, k, e)
  <2>1. walGen \in walFiles
    BY <1>1 DEF SegmentsInv
  <2> QED
    BY <1>3, <1>7, <2>1, SMT DEF Holds
<1>10. \A i \in 1 .. N : tab(i)[k] = 0 => \A e \in Ids : ~Rec(gen(i), k, e)
  BY <1>3, <1>7, SMT DEF Holds
<1>11. CASE memtable[k] = 0 /\ \E i \in 1 .. N : tab(i)[k] # 0
  <2> DEFINE S == {i \in 1 .. N : tab(i)[k] # 0}
             P(i) == tab(i)[k] # 0 /\ \A j \in i + 1 .. N : tab(j)[k] = 0
             c == CHOOSE i \in 1 .. N : P(i)
  <2>1. S \in SUBSET (0 .. N) /\ S # {}
    BY <1>2, <1>11, SMT
  <2>2. PICK m \in S : \A y \in S : m >= y
    BY <1>2, <2>1, GreatestExists
  <2>3. \A j \in m + 1 .. N : j \in 1 .. N /\ ~(m >= j)
    BY <1>2, <2>2, SMT
  <2>4. m \in 1 .. N /\ P(m)
    BY <2>2, <2>3
  <2>5. GetLocked(k) = tab(c)[k]
    BY <1>2, <1>11 DEF GetLocked
  <2> HIDE DEF P
  <2>6. c \in 1 .. N /\ P(c)
    BY <2>4
  <2> HIDE DEF c
  <2> DEFINE r == tab(c)[k]
  <2>7. r # 0 /\ (\A j \in c + 1 .. N : tab(j)[k] = 0) /\ r \in Ids
    BY <1>2, <2>6 DEF P
  <2>8. Rec(gen(c), k, r) /\ gen(c) \in walFiles
    BY <1>3, <2>6, <2>7 DEF Holds
  <2>9. ASSUME NEW e \in Ids, Entry(k, e) PROVE e <= r
    <3>1. CASE InFile(k, e)
      <4>1. PICK x \in Ids : Rec(gen(c), k, x) /\ x >= e
        BY <1>1, <2>7, <2>8, <3>1 DEF LogsOverFiles
      <4>2. x <= r
        BY <1>3, <2>6, <4>1 DEF Holds
      <4> HIDE DEF r
      <4> QED
        BY <2>7, <4>1, <4>2, SMT DEF Ids
    <3>2. ASSUME NEW i \in 1 .. N, Rec(gen(i), k, e) PROVE e <= r
      <4>1. i < c \/ i = c \/ i \in c + 1 .. N
        BY <1>2, <2>6, SMT
      <4>2. CASE i < c
        BY <1>1, <1>3, <2>6, <2>7, <2>8, <3>2, <4>2 DEF RecordOrder
      <4>3. CASE i = c
        BY <1>3, <2>6, <3>2, <4>3 DEF Holds
      <4>4. CASE i \in c + 1 .. N
        BY <1>10, <2>7, <3>2, <4>4
      <4> QED
        BY <4>1, <4>2, <4>3, <4>4
    <3> QED
      BY <1>6, <1>9, <1>11, <2>9, <3>1, <3>2
  <2> QED
    BY <1>6, <2>5, <2>6, <2>7, <2>8, <2>9 DEF Newest
<1>12. CASE memtable[k] = 0 /\ \A i \in 1 .. N : tab(i)[k] = 0
  <2> DEFINE n == Len(sstables)
             r == GetLocked(k)
  <2>1. GetLocked(k) = FirstEntry(sstables, k)
    BY <1>2, <1>12 DEF GetLocked
  <2>2. n \in Nat /\ DOMAIN sstables = 1 .. n /\ \A i \in 1 .. n : sstables[i] \in Seqs
    BY SeqFacts DEF IInv, TypeOK
  <2>3. \A e \in Ids : Entry(k, e) <=> InFile(k, e)
    BY <1>6, <1>9, <1>10, <1>12
  <2>4. \A e \in Ids : InFile(k, e) <=> e # 0 /\ \E i \in 1 .. n : sst[sstables[i]][k] = e
    <3>1. manifest.files = manifestDisk.files
      BY <1>1 DEF FilesHold
    <3>2. \A p : (\E f \in manifestDisk.files : f.path = p) <=> \E i \in 1 .. n : sstables[i] = p
      BY <2>2, <3>1 DEF IInv, FilesInv, TablesInv, Range, Paths
    <3> HIDE DEF n
    <3> QED
      BY <3>2, SMT DEF InFile
  <2>5. \/ r = 0 /\ \A i \in 1 .. n : sst[sstables[i]][k] = 0
        \/ \E i \in 1 .. n : /\ r = sst[sstables[i]][k]
                             /\ sst[sstables[i]][k] # 0
                             /\ \A j \in 1 .. i - 1 : sst[sstables[j]][k] = 0
    BY <2>1, <2>2, FirstEntryFacts, SMT
  <2>6. ASSUME NEW i \in 1 .. n, r = sst[sstables[i]][k], sst[sstables[i]][k] # 0,
               \A j \in 1 .. i - 1 : sst[sstables[j]][k] = 0
        PROVE  r \in Ids /\ \A j \in 1 .. n : sst[sstables[j]][k] <= r
    <3>0. \A j \in 1 .. n : sst[sstables[j]][k] \in Ids
      BY <1>1, <2>2 DEF Shapes
    <3>1. ASSUME NEW j \in 1 .. n PROVE sst[sstables[j]][k] <= sst[sstables[i]][k]
      <4>1. j \in 1 .. i - 1 \/ j = i \/ i < j
        BY <2>2, SMT
      <4>2. CASE i < j
        <5>1. sst[sstables[i]][k] >= sst[sstables[j]][k]
          BY <1>1, <2>2, <2>6, <4>2, TableOrder DEF CInv
        <5> QED
          BY <3>0, <5>1 DEF Ids
      <4> QED
        BY <2>6, <3>0, <4>1, <4>2, SMT DEF Ids
    <3> QED
      BY <2>6, <3>0, <3>1
  <2> HIDE DEF r, n
  <2>7. Newest(k, r)
    BY <2>3, <2>4, <2>5, <2>6, SMT DEF Newest
  <2> QED
    BY <2>7 DEF r
<1> QED
  BY <1>8, <1>11, <1>12

\* What load_sstables_from_manifest makes visible of a key: the newest entry
\* of the files.
LEMMA InManifestFilesFacts ==
    ASSUME IInv, FilesHold, NEW k \in Keys
    PROVE  \/ InManifestFiles(k) = 0 /\ \A e \in Ids : ~InFile(k, e)
           \/ /\ InManifestFiles(k) \in Ids /\ InFile(k, InManifestFiles(k))
              /\ \A e \in Ids : InFile(k, e) => e <= InManifestFiles(k)
<1> DEFINE F == manifestDisk.files
           v(f) == sst[f.path][k]
           r == InManifestFiles(k)
<1>1. \A f \in F : f.seq \in Seqs /\ v(f) \in Ids
  BY ShapesOfTypes DEF Shapes
<1>2. CASE \A f \in F : v(f) = 0
  BY <1>2 DEF InManifestFiles, InFile
<1>3. CASE \E f \in F : v(f) # 0
  <2> DEFINE S == {f.seq : f \in {x \in F : v(x) # 0}}
             P(f) == v(f) # 0 /\ \A g \in F : g.seq > f.seq => v(g) = 0
             c == CHOOSE f \in F : P(f)
  <2>1. S \in SUBSET (0 .. MaxSeq) /\ S # {} /\ MaxSeq \in Nat
    BY <1>1, <1>3, BoundsAssumption DEF Seqs
  <2>2. PICK s \in S : \A y \in S : s >= y
    BY <2>1, GreatestExists
  <2>3. PICK m \in F : v(m) # 0 /\ m.seq = s
    BY <2>2
  <2>4. ASSUME NEW g \in F, g.seq > m.seq PROVE v(g) = 0
    <3>1. v(g) # 0 => s >= g.seq
      BY <2>2
    <3> QED
      BY <1>1, <2>3, <2>4, <3>1, SMT DEF Seqs
  <2>5. P(m)
    BY <2>3, <2>4
  <2>6. r = v(c)
    BY <1>3 DEF InManifestFiles
  <2> HIDE DEF P
  <2>7. c \in F /\ P(c)
    BY <2>3, <2>5
  <2> HIDE DEF c, r
  <2>8. v(c) # 0 /\ \A g \in F : g.seq > c.seq => v(g) = 0
    BY <2>7 DEF P
  <2>9. ASSUME NEW g \in F PROVE v(g) <= v(c)
    <3>1. g.seq > c.seq \/ g.seq = c.seq \/ c.seq > g.seq
      BY <1>1, <2>7, SMT DEF Seqs
    <3>2. CASE c.seq > g.seq
      <4>1. v(c) >= v(g)
        BY <2>7, <2>8, <3>2 DEF FilesHold
      <4> QED
        BY <1>1, <2>7, <4>1 DEF Ids
    <3>3. CASE g.seq > c.seq
      BY <1>1, <2>7, <2>8, <3>3, SMT DEF Ids
    <3>4. CASE g.seq = c.seq
      BY <1>1, <2>7, <2>9, <3>4, SMT DEF Ids, IInv, FilesInv, ManifestInv
    <3> QED
      BY <3>1, <3>2, <3>3, <3>4
  <2>10. InFile(k, v(c))
    BY <2>7, <2>8 DEF InFile
  <2> QED
    BY <1>1, <2>6, <2>7, <2>9, <2>10 DEF InFile, r
<1> QED
  BY <1>2, <1>3

\* A restart finds the newest entry there is.
LEMMA OnDiskNewest ==
    ASSUME IInv, CInv, ~Serving, NEW k \in Keys
    PROVE  Newest(k, OnDisk(k))
<1> DEFINE p == Replayed(k)
           f == InManifestFiles(k)
<1>1. Shapes /\ RecordOrder /\ FilesHold /\ LogsOverFiles
  BY ShapesOfTypes DEF CInv, DiskInv
<1>2. LiveLogs = walFiles
  BY DEF CInv, RecoveryInv, LiveLogs
<1>3. \A e : Entry(k, e) <=> InFile(k, e) \/ \E g \in walFiles : Rec(g, k, e)
  BY <1>2 DEF Entry
<1>4. \/ p = 0 /\ \A g \in walFiles : \A e : ~Rec(g, k, e)
      \/ /\ p \in Ids /\ p # 0
         /\ \E g \in walFiles : Rec(g, k, p)
         /\ \A g \in walFiles, e \in Ids : Rec(g, k, e) => e <= p
  BY <1>1, ReplayedFacts
<1>5. \/ f = 0 /\ \A e \in Ids : ~InFile(k, e)
      \/ /\ f \in Ids /\ InFile(k, f)
         /\ \A e \in Ids : InFile(k, e) => e <= f
  BY <1>1, InManifestFilesFacts
<1>6. OnDisk(k) = IF p # 0 THEN p ELSE f
  BY DEF OnDisk
<1> HIDE DEF p, f
<1>7. CASE p = 0
  BY <1>3, <1>4, <1>5, <1>6, <1>7 DEF Newest, InFile
<1>8. CASE p # 0
  <2>1. PICK g \in walFiles : Rec(g, k, p)
    BY <1>4, <1>8
  <2>2. p \in Ids /\ \A h \in walFiles, e \in Ids : Rec(h, k, e) => e <= p
    BY <1>4, <1>8
  <2>3. ASSUME NEW e \in Ids, InFile(k, e) PROVE e <= p
    <3>1. PICK c \in Ids : Rec(g, k, c) /\ c >= e
      BY <1>1, <2>1, <2>2, <2>3 DEF LogsOverFiles
    <3>2. c <= p
      BY <2>2, <3>1
    <3> QED
      BY <2>2, <3>1, <3>2, SMT DEF Ids
  <2> QED
    BY <1>3, <1>6, <1>8, <2>1, <2>2, <2>3 DEF Newest
<1> QED
  BY <1>7, <1>8

\* LastWrite, by what it is.
LEMMA LastWriteFacts ==
    ASSUME Shapes, NEW k \in Keys
    PROVE  \/ LastWrite(k) = 0 /\ \A i : ~WriteOf(k, i)
           \/ /\ LastWrite(k) \in Ids /\ LastWrite(k) # 0
              /\ LastOf(k, LastWrite(k), Len(hist))
              /\ \A i : WriteOf(k, i) => i <= LastWrite(k)
<1> DEFINE W == {i \in DOMAIN hist : hist[i].key = k}
<1>1. Len(hist) \in Nat /\ DOMAIN hist = 1 .. Len(hist) /\ Len(hist) <= MaxWrites /\ MaxWrites \in Nat
  BY BoundsAssumption DEF Shapes
<1>2. LastWrite(k) = IF W = {} THEN 0 ELSE Max(W)
  BY DEF LastWrite
<1>3. CASE W = {}
  BY <1>2, <1>3 DEF WriteOf
<1>4. CASE W # {}
  <2>1. W \in SUBSET (0 .. Len(hist))
    BY <1>1, SMT
  <2>2. Max(W) \in W /\ \A y \in W : Max(W) >= y
    BY <1>1, <1>4, <2>1, MaxFacts
  <2> DEFINE m == Max(W)
  <2> HIDE DEF m
  <2>3. m \in 1 .. Len(hist) /\ WriteOf(k, m) /\ \A i : WriteOf(k, i) => i \in 1 .. Len(hist) /\ m >= i
    BY <1>1, <2>2 DEF m, WriteOf
  <2>4. \A i : WriteOf(k, i) => i <= m
    BY <1>1, <2>3
  <2>5. \A j \in m + 1 .. Len(hist) : j \in 1 .. Len(hist) /\ ~(j <= m)
    BY <1>1, <2>3, SMT
  <2>6. LastOf(k, m, Len(hist))
    BY <1>1, <2>3, <2>4, <2>5, SMT DEF LastOf, WriteOf
  <2>7. m \in Ids /\ m # 0
    BY <1>1, <2>3, SMT DEF Ids
  <2> QED
    BY <1>2, <1>4, <2>4, <2>6, <2>7 DEF m
<1> QED
  BY <1>3, <1>4

\* Every entry is a write of its key.
LEMMA EntryIsWrite ==
    ASSUME RecordsInv, FilesHold, NEW k \in Keys, NEW e \in Ids, Entry(k, e)
    PROVE  WriteOf(k, e)
<1>1. CASE InFile(k, e)
  BY <1>1 DEF InFile, FilesHold
<1>2. CASE \E g \in LiveLogs : Rec(g, k, e)
  BY <1>2 DEF RecordsInv, LiveLogs
<1> QED
  BY <1>1, <1>2 DEF Entry

\* The newest entry reads as the last write does.
LEMMA NewestIsLastWrite ==
    ASSUME IInv, CInv, NEW k \in Keys, NEW r, Newest(k, r)
    PROVE  Live(r) = Live(LastWrite(k))
<1> DEFINE w == LastWrite(k)
           n == Len(hist)
<1>1. Shapes /\ RecordsInv /\ FilesHold /\ Covered
  BY ShapesOfTypes DEF CInv, DiskInv
<1>2. n \in Nat /\ DOMAIN hist = 1 .. n /\ n \in Durable .. n
  <2>1. n \in Nat /\ DOMAIN hist = 1 .. n /\ Durable \in 0 .. n
    BY <1>1, DurableFacts DEF CInv, DiskInv, Shapes
  <2> QED
    BY <2>1, SMT
<1>3. Live(0) = 0
  BY <1>2, SMT DEF Live
<1>4. \/ w = 0 /\ \A i : ~WriteOf(k, i)
      \/ /\ w \in Ids /\ w # 0
         /\ LastOf(k, w, n)
         /\ \A i : WriteOf(k, i) => i <= w
  BY <1>1, LastWriteFacts
<1> HIDE DEF w
<1>5. \A e \in Ids : Entry(k, e) => WriteOf(k, e)
  BY <1>1, EntryIsWrite
<1>6. CASE w = 0 /\ \A i : ~WriteOf(k, i)
  BY <1>3, <1>5, <1>6 DEF Newest, w
<1>7. CASE w \in Ids /\ LastOf(k, w, n) /\ \A i : WriteOf(k, i) => i <= w
  <2>1. \/ Entry(k, w)
        \/ hist[w].val = 0 /\ \A e \in Ids : Entry(k, e) => e > n
    BY <1>1, <1>2, <1>7 DEF Covered
  <2>2. CASE Entry(k, w)
    <3>1. r \in Ids /\ w <= r /\ r <= w
      BY <1>5, <1>7, <2>2 DEF Newest
    <3>2. r = w
      BY <1>7, <3>1, SMT DEF Ids
    <3> QED
      BY <3>2 DEF w
  <2>3. CASE hist[w].val = 0 /\ \A e \in Ids : Entry(k, e) => e > n
    <3>1. \A e \in Ids : ~Entry(k, e)
      <4>1. \A e \in Ids : Entry(k, e) => e \in 1 .. n /\ e > n
        BY <1>2, <1>5, <2>3 DEF WriteOf
      <4> QED
        BY <1>2, <4>1, SMT
    <3>2. r = 0
      BY <3>1 DEF Newest
    <3>3. Live(w) = 0
      BY <1>7, <2>3 DEF Live, LastOf, WriteOf
    <3> QED
      BY <1>3, <3>2, <3>3 DEF w
  <2> QED
    BY <2>1, <2>2, <2>3
<1> QED
  BY <1>4, <1>6, <1>7

\* Every read sees the last write of its key.
LEMMA ReadsOfInvariant ==
    ASSUME IInv, CInv
    PROVE  ReadsSeeLastWrite
<1>1. ASSUME NEW k \in Keys PROVE View(k) = Live(LastWrite(k))
  <2>1. CASE Serving
    BY <2>1, GetLockedNewest, NewestIsLastWrite DEF View
  <2>2. CASE ~Serving
    BY <2>2, OnDiskNewest, NewestIsLastWrite DEF View
  <2> QED
    BY <2>1, <2>2
<1> QED
  BY <1>1 DEF ReadsSeeLastWrite

-----------------------------------------------------------------------------
(* The history: what a sequence of writes leaves. *)

WriteSeq == Seq([key : Keys, val : Ids])

\* LastWrite, Live and the content, of any sequence of writes h.
LastAt(h, k) == LET W == {i \in DOMAIN h : h[i].key = k} IN IF W = {} THEN 0 ELSE Max(W)

LiveAt(h, id) == IF id \in DOMAIN h THEN h[id].val ELSE id

ContentOf(h) == [k \in Keys |-> LiveAt(h, LastAt(h, k))]

\* h, and then a write of k.
Add(h, k, v) == Append(h, [key |-> k, val |-> v])

\* LastAt is the last position that writes k.
LEMMA LastAtFacts ==
    ASSUME NEW h \in WriteSeq, NEW k
    PROVE  \/ LastAt(h, k) = 0 /\ \A i \in 1 .. Len(h) : h[i].key # k
           \/ /\ LastAt(h, k) \in 1 .. Len(h) /\ h[LastAt(h, k)].key = k
              /\ \A i \in 1 .. Len(h) : h[i].key = k => i <= LastAt(h, k)
<1> DEFINE W == {i \in DOMAIN h : h[i].key = k}
           n == Len(h)
<1>1. n \in Nat /\ DOMAIN h = 1 .. n
  BY SeqFacts DEF WriteSeq
<1>2. CASE W = {}
  BY <1>1, <1>2 DEF LastAt
<1>3. CASE W # {}
  <2>1. W \in SUBSET (0 .. n)
    BY <1>1, SMT
  <2>2. Max(W) \in W /\ \A y \in W : Max(W) >= y
    BY <1>1, <1>3, <2>1, MaxFacts
  <2>3. LastAt(h, k) = Max(W)
    BY <1>3 DEF LastAt
  <2> DEFINE m == Max(W)
  <2> HIDE DEF m
  <2>4. m \in 1 .. n /\ h[m].key = k /\ \A i \in 1 .. n : h[i].key = k => m >= i
    BY <1>1, <2>2 DEF m
  <2>5. \A i \in 1 .. n : m >= i => i <= m
    BY <1>1, <2>4
  <2> QED
    BY <2>3, <2>4, <2>5 DEF m
<1> QED
  BY <1>2, <1>3

\* The positions that LastAt can return are told apart by their key and by
\* what follows.
LEMMA LastAtUnique ==
    ASSUME NEW h \in WriteSeq, NEW k, NEW m \in 1 .. Len(h), h[m].key = k,
           \A i \in 1 .. Len(h) : h[i].key = k => i <= m
    PROVE  LastAt(h, k) = m
<1>1. Len(h) \in Nat
  BY SeqFacts DEF WriteSeq
<1>2. LastAt(h, k) \in 1 .. Len(h) /\ LastAt(h, k) <= m /\ m <= LastAt(h, k)
  BY LastAtFacts
<1> QED
  BY <1>1, <1>2, SMT

\* A write becomes the last one of its key, and changes no other key.
LEMMA ContentOfAppend ==
    ASSUME NEW h \in WriteSeq, NEW k \in Keys, NEW v \in Ids, NEW j \in Keys,
           NEW g, g = Add(h, k, v)
    PROVE  /\ LastAt(g, j) = IF j = k THEN Len(h) + 1 ELSE LastAt(h, j)
           /\ LiveAt(g, LastAt(g, j)) = IF j = k THEN v ELSE LiveAt(h, LastAt(h, j))
<1> DEFINE n == Len(h)
           x == [key |-> k, val |-> v]
<1>1. n \in Nat /\ DOMAIN h = 1 .. n
  BY SeqFacts DEF WriteSeq
<1>2. /\ g \in WriteSeq /\ Len(g) = n + 1 /\ DOMAIN g = 1 .. n + 1
      /\ \A i \in 1 .. n : g[i] = h[i]
      /\ g[n + 1] = x
  BY AppendFacts, SMT DEF WriteSeq, Add
<1>3. x.key = k /\ x.val = v
  OBVIOUS
<1> HIDE DEF n, x
<1>4. \A i \in 1 .. n + 1 : i \in 1 .. n \/ i = n + 1
  BY <1>1, SMT
<1>5. n + 1 \in 1 .. n + 1 /\ (\A i \in 1 .. n + 1 : i <= n + 1) /\ \A i \in 1 .. n : i \in 1 .. n + 1
  BY <1>1, SMT
<1>6. CASE j = k
  <2>1. LastAt(g, j) = n + 1
    BY <1>2, <1>3, <1>5, <1>6, LastAtUnique
  <2> QED
    BY <1>2, <1>3, <1>5, <1>6, <2>1 DEF LiveAt, n
<1>7. CASE j # k
  <2>1. CASE LastAt(h, j) = 0 /\ \A i \in 1 .. n : h[i].key # j
    <3>1. \A i \in 1 .. n + 1 : g[i].key # j
      BY <1>2, <1>3, <1>4, <1>7, <2>1
    <3>2. LastAt(g, j) = 0
      <4>1. g \in WriteSeq /\ Len(g) = n + 1
        BY <1>2
      <4>2. LastAt(g, j) = 0 \/ (LastAt(g, j) \in 1 .. n + 1 /\ g[LastAt(g, j)].key = j)
        BY <4>1, LastAtFacts
      <4> QED
        BY <3>1, <4>2
    <3>3. 0 \notin 1 .. n /\ 0 \notin 1 .. n + 1
      BY <1>1, SMT
    <3> QED
      BY <1>1, <1>2, <1>7, <2>1, <3>2, <3>3 DEF LiveAt
  <2>2. CASE /\ LastAt(h, j) \in 1 .. n /\ h[LastAt(h, j)].key = j
             /\ \A i \in 1 .. n : h[i].key = j => i <= LastAt(h, j)
    <3> DEFINE m == LastAt(h, j)
    <3> HIDE DEF m
    <3>1. m \in 1 .. n + 1 /\ m \in 1 .. n /\ g[m] = h[m] /\ g[m].key = j
      BY <1>2, <1>5, <2>2 DEF m
    <3>2. \A i \in 1 .. n + 1 : g[i].key = j => i <= m
      BY <1>2, <1>3, <1>4, <1>7, <2>2 DEF m
    <3>3. LastAt(g, j) = m
      BY <1>2, <3>1, <3>2, LastAtUnique
    <3> QED
      BY <1>1, <1>2, <1>7, <3>1, <3>3 DEF LiveAt, m
  <2> QED
    BY <2>1, <2>2, LastAtFacts DEF n
<1> QED
  BY <1>6, <1>7

\* The content of the engine is what its history leaves, now and after a step.
LEMMA ContentsOfHistory ==
    ASSUME IInv, CInv
    PROVE  Contents = ContentOf(hist)
BY ReadsOfInvariant DEF Contents, ContentOf, ReadsSeeLastWrite, LastWrite, LastAt, Live, LiveAt

-----------------------------------------------------------------------------
(* How a step changes the history. *)

Wrote(k, v, seen) ==
    /\ hist' = Add(hist, k, v)
    /\ saw' = Append(saw, seen)
    /\ acked' = acked
    /\ seen = -1 \/ (Serving /\ seen = Live(GetLocked(k)))

Acknowledged(id) == hist' = hist /\ saw' = saw /\ acked' = Max({acked, id})

CutTo(n) == hist' = SubSeq(hist, 1, n) /\ saw' = SubSeq(saw, 1, n) /\ acked' = acked

HistoryStep ==
    \/ hist' = hist /\ saw' = saw /\ acked' = acked
    \/ \E id \in Ids : id <= Len(hist) /\ Acknowledged(id)
    \/ \E k \in Keys, v \in Ids, seen \in Ids \cup {-1} : Wrote(k, v, seen)
    \/ \E n \in Durable .. Len(hist) : CutTo(n)

\* put_locked and remove_locked add one write.
LEMMA WriteLockedWrites ==
    ASSUME IInv, CInv, NEW k \in Keys, NEW del \in BOOLEAN, NEW seen,
           WriteLocked(k, del, seen), acked' = acked,
           seen = -1 \/ (Serving /\ seen = Live(GetLocked(k)))
    PROVE  \E v \in Ids, s \in Ids \cup {-1} : Wrote(k, v, s) /\ (del => v = 0)
<1> DEFINE id == Len(hist) + 1
           v == IF del THEN 0 ELSE id
<1>1. Len(hist) \in Nat /\ Len(hist) < MaxWrites /\ MaxWrites \in Nat
  BY ShapesOfTypes, BoundsAssumption DEF WriteLocked, Shapes
<1>2. v \in Ids
  BY <1>1, SMT DEF Ids
<1>3. seen \in Ids \cup {-1}
  <2>1. ASSUME Serving PROVE Live(GetLocked(k)) \in Ids
    <3>1. GetLocked(k) \in Ids
      BY <1>1, <2>1, GetLockedNewest, SMT DEF Newest, Ids
    <3>2. \A i \in DOMAIN hist : hist[i].val \in Ids
      BY ShapesOfTypes DEF Shapes
    <3> QED
      BY <3>1, <3>2 DEF Live
  <2> QED
    BY <2>1
<1>4. Wrote(k, v, seen)
  BY DEF WriteLocked, Wrote, Add
<1>5. del => v = 0
  OBVIOUS
<1> HIDE DEF v
<1> QED
  BY <1>2, <1>3, <1>4, <1>5

\* Every step leaves the history, adds a write, acknowledges, or, in a crash,
\* takes writes off the end that are not durable.
LEMMA NextHistory ==
    ASSUME IInv, CInv, [Next]_vars
    PROVE  HistoryStep
<1>1. ASSUME NEW w \in Writers, NEW k \in Keys, NEW del \in BOOLEAN, NEW seen,
             ClientWrite(w, k, del, seen), seen = -1 \/ seen = Live(GetLocked(k))
      PROVE  HistoryStep
  <2>1. WriteLocked(k, del, seen) /\ acked' = acked /\ Serving
    BY <1>1 DEF ClientWrite, Serving
  <2>2. \E v \in Ids, s \in Ids \cup {-1} : Wrote(k, v, s)
    BY <1>1, <2>1, WriteLockedWrites
  <2> QED
    BY <2>2 DEF HistoryStep
<1>2. ASSUME NEW w \in Writers, WriterStep(w) PROVE HistoryStep
  <2>1. CASE \E k \in Keys : Put(w, k) \/ Remove(w, k)
    BY <1>1, <2>1 DEF Put, Remove
  <2>2. CASE \E k \in Keys, del \in BOOLEAN : Mutate(w, k, del)
    BY <1>1, <2>2 DEF Mutate
  <2>3. CASE Commit(w)
    <3>1. writer[w].id \in Ids
      BY DEF IInv, TypeOK
    <3>2. writer[w].id <= Len(hist)
      BY <2>3 DEF CInv, AckInv, Commit
    <3>3. Acknowledged(writer[w].id)
      BY <2>3 DEF Commit, Acknowledged
    <3> QED
      BY <3>1, <3>2, <3>3 DEF HistoryStep
  <2> QED
    BY <1>2, <2>1, <2>2, <2>3 DEF WriterStep
<1>3. CASE DropRemove
  <2> DEFINE k == Min(drop.batch)
  <2>1. drop.batch \in SUBSET Nat /\ drop.batch # {} /\ drop.batch \subseteq Keys
    BY <1>3, KeysAssumption DEF DropRemove, IInv, TypeOK, FilesInv, ModeInv
  <2>2. k \in Keys
    BY <2>1, MinFacts
  <2>3. WriteLocked(k, TRUE, -1) /\ acked' = acked
    BY <1>3 DEF DropRemove
  <2> HIDE DEF k
  <2>4. \E v \in Ids, s \in Ids \cup {-1} : Wrote(k, v, s)
    BY <2>2, <2>3, WriteLockedWrites
  <2> QED
    BY <2>2, <2>4 DEF HistoryStep
<1>4. CASE DropCommit
  <2>1. drop.id \in Ids
    BY DEF IInv, TypeOK
  <2>2. drop.id <= Len(hist)
    BY <1>4 DEF CInv, AckInv, DropCommit
  <2>3. Acknowledged(drop.id)
    BY <1>4 DEF DropCommit, Acknowledged
  <2> QED
    BY <2>1, <2>2, <2>3 DEF HistoryStep
<1>5. CASE DropStart \/ DropScan \/ DropLock
  BY <1>5 DEF HistoryStep, DropStart, DropScan, DropLock
<1>6. CASE FlushStep
  BY <1>6 DEF HistoryStep, FlushStep, FlushExit, FlushTake, FlushWrite, FlushWriteFails,
              FlushPublish, FlushPublishFails, FlushUnlink, FlushFrame, histVars
<1>7. CASE CompStep
  BY <1>7 DEF HistoryStep, CompStep, CompExit, CompWake, CompSelect, CompNothing, CompMerge,
              CompMergeFails, CompPublish, CompPublishFails, CompUnlink, CompFrame, histVars
<1>8. CASE ShutDown \/ Close
  BY <1>8 DEF HistoryStep, ShutDown, Close, histVars
<1>9. CASE Crash
  <2>1. PICK extra \in Ids : /\ hist' = SubSeq(hist, 1, Surviving(extra))
                             /\ saw' = SubSeq(saw, 1, Surviving(extra))
    BY <1>9 DEF Crash
  <2>2. Surviving(extra) \in Durable .. Len(hist)
    BY ShapesOfTypes, SurvivingHistory DEF CInv, DiskInv
  <2>3. CutTo(Surviving(extra))
    BY <1>9, <2>1 DEF Crash, CutTo
  <2> QED
    BY <2>2, <2>3 DEF HistoryStep
<1>10. CASE RecoveryStep
  BY <1>10 DEF HistoryStep, RecoveryStep, LoadSstables, ReplayWal, CheckpointEntry,
               FinishCheckpoint, DiscardSegment, Start, histVars
<1>11. CASE UNCHANGED vars
  BY <1>11 DEF HistoryStep, vars, histVars
<1> QED
  BY <1>2, <1>3, <1>4, <1>5, <1>6, <1>7, <1>8, <1>9, <1>10, <1>11 DEF Next, DropStep

-----------------------------------------------------------------------------
(* What follows for the clients. *)

\* What StorageEngine says a sequence of writes leaves is ContentOf.
LEMMA OutcomeIsContent ==
    ASSUME NEW h \in WriteSeq
    PROVE  Abstract!Outcome(h) = ContentOf(h)
<1>1. Len(h) \in Nat /\ DOMAIN h = 1 .. Len(h)
  BY SeqFacts DEF WriteSeq
<1>2. ASSUME NEW k \in Keys
      PROVE  Abstract!LastWrite(h, k) = LastAt(h, k)
  <2> DEFINE W == {i \in DOMAIN h : h[i].key = k}
             m == LastAt(h, k)
             c == CHOOSE i \in W : \A j \in W : j <= i
  <2>1. CASE W = {}
    BY <2>1 DEF Abstract!LastWrite, LastAt
  <2>2. CASE W # {}
    <3>1. m \in 1 .. Len(h) /\ h[m].key = k /\ \A i \in 1 .. Len(h) : h[i].key = k => i <= m
      BY <1>1, <2>2, LastAtFacts
    <3>2. Abstract!LastWrite(h, k) = c
      BY <2>2 DEF Abstract!LastWrite
    <3> HIDE DEF m
    <3>3. m \in W /\ \A j \in W : j <= m
      BY <1>1, <3>1
    <3>4. c \in W /\ \A j \in W : j <= c
      BY <3>3
    <3> HIDE DEF c
    <3>5. m <= c /\ c <= m /\ c \in 1 .. Len(h)
      BY <1>1, <3>3, <3>4
    <3>6. c = m
      BY <1>1, <3>1, <3>5, SMT
    <3> QED
      BY <3>2, <3>6 DEF m
  <2> QED
    BY <2>1, <2>2
<1>3. ASSUME NEW k \in Keys
      PROVE  LiveAt(h, LastAt(h, k)) = IF LastAt(h, k) = 0 THEN 0 ELSE h[LastAt(h, k)].val
  <2>1. LastAt(h, k) = 0 \/ LastAt(h, k) \in 1 .. Len(h)
    BY LastAtFacts
  <2>2. 0 \notin 1 .. Len(h)
    BY <1>1, SMT
  <2> QED
    BY <1>1, <2>1, <2>2 DEF LiveAt
<1> QED
  BY <1>2, <1>3 DEF Abstract!Outcome, ContentOf

\* The empty history leaves nothing.
LEMMA InitRefines ==
    ASSUME Init, Contents = ContentOf(hist)
    PROVE  Abstract!Init
<1>1. hist = <<>> /\ acked = 0
  BY DEF Init
<1>2. ASSUME NEW k \in Keys PROVE LiveAt(hist, LastAt(hist, k)) = 0
  <2>1. LastAt(hist, k) = 0
    BY <1>1, SMT DEF LastAt
  <2> QED
    BY <1>1, <2>1, SMT DEF LiveAt
<1>3. Contents = [k \in Keys |-> 0]
  BY <1>2 DEF ContentOf
<1> QED
  BY <1>1, <1>3 DEF Abstract!Init

\* Every step of the engine is a step of StorageEngine, or none.
LEMMA NextRefines ==
    ASSUME IInv, CInv, Contents = ContentOf(hist), Contents' = ContentOf(hist'), hist' \in WriteSeq,
           [Next]_vars
    PROVE  [Abstract!Next]_(Abstract!vars)
<1> DEFINE N == Len(hist)
<1>1. hist \in WriteSeq /\ acked \in Nat
  BY NumberSets DEF IInv, TypeOK, WriteSeq
<1>2. N \in Nat /\ Durable \in 0 .. N /\ acked <= Durable
  BY ShapesOfTypes, DurableFacts DEF CInv, DiskInv, AckInv, Shapes
<1>3. HistoryStep
  BY NextHistory
<1>4. CASE hist' = hist /\ saw' = saw /\ acked' = acked
  BY <1>4 DEF Abstract!vars
<1>5. ASSUME NEW id \in Ids, id <= N, Acknowledged(id) PROVE Abstract!Next
  <2>1. id \in Nat
    BY BoundsAssumption, SMT DEF Ids
  <2>2. acked' = Max({acked, id}) /\ hist' = hist
    BY <1>5 DEF Acknowledged
  <2>3. Max({acked, id}) \in {acked, id} /\ Max({acked, id}) >= acked
    BY <1>1, <2>1, PairFacts
  <2> DEFINE a == Max({acked, id})
  <2> HIDE DEF a
  <2>4. a \in acked .. N
    BY <1>1, <1>2, <1>5, <2>1, <2>3, SMT DEF a
  <2> QED
    BY <2>2, <2>4 DEF Abstract!Next, Abstract!Acknowledge, a
<1>6. ASSUME NEW k \in Keys, NEW v \in Ids, NEW seen \in Ids \cup {-1}, Wrote(k, v, seen)
      PROVE  Abstract!Next
  <2>1. hist' = Add(hist, k, v) /\ acked' = acked
    BY <1>6 DEF Wrote
  <2>2. \A j \in Keys : LiveAt(hist', LastAt(hist', j)) = IF j = k THEN v ELSE LiveAt(hist, LastAt(hist, j))
    BY <1>1, <2>1, ContentOfAppend, SMT
  <2>3. Contents' = [Contents EXCEPT ![k] = v]
    BY <2>2 DEF ContentOf
  <2>4. v \in Abstract!Content
    BY BoundsAssumption, SMT DEF Abstract!Content, Ids
  <2>5. Abstract!WriteKey(k, v)
    BY <2>1, <2>3 DEF Abstract!WriteKey, Add
  <2> QED
    BY <2>4, <2>5 DEF Abstract!Next
<1>7. ASSUME NEW n \in Durable .. N, CutTo(n) PROVE Abstract!Next
  <2>1. n \in acked .. N
    BY <1>1, <1>2, SMT
  <2>2. Contents' = Abstract!Outcome(hist')
    BY OutcomeIsContent
  <2>3. Abstract!Restart
    BY <1>7, <2>1, <2>2 DEF Abstract!Restart, CutTo
  <2> QED
    BY <2>3 DEF Abstract!Next
<1> QED
  BY <1>3, <1>4, <1>5, <1>6, <1>7 DEF HistoryStep

\* The value that write i of h replaced is the one its mutator saw.
AtomicAt(h, s, i) ==
    s[i] # -1 =>
        LET earlier == {j \in 1 .. i - 1 : h[j].key = h[i].key}
        IN  s[i] = IF earlier = {} THEN 0 ELSE LiveAt(h, Max(earlier))

\* Whether it is depends on the writes up to i only.
LEMMA AtomicOfPrefix ==
    ASSUME NEW h \in WriteSeq, NEW g \in WriteSeq, NEW s, NEW t,
           NEW i \in 1 .. Len(h), i <= Len(g),
           \A j \in 1 .. i : g[j] = h[j],
           t[i] = s[i], AtomicAt(h, s, i)
    PROVE  AtomicAt(g, t, i)
<1> DEFINE E == {j \in 1 .. i - 1 : h[j].key = h[i].key}
<1>1. /\ Len(h) \in Nat /\ DOMAIN h = 1 .. Len(h)
      /\ Len(g) \in Nat /\ DOMAIN g = 1 .. Len(g)
  BY SeqFacts DEF WriteSeq
<1>2. i \in Nat /\ i - 1 \in Nat /\ i \in 1 .. i /\ \A j \in 1 .. i - 1 : j \in 1 .. i /\ j \in 1 .. Len(h) /\ j \in 1 .. Len(g)
  BY <1>1, SMT
<1>3. {j \in 1 .. i - 1 : g[j].key = g[i].key} = E
  BY <1>2
<1>4. CASE E = {}
  BY <1>3, <1>4 DEF AtomicAt
<1>5. CASE E # {}
  <2>1. E \in SUBSET (0 .. i - 1)
    BY <1>2, SMT
  <2>2. Max(E) \in E
    BY <1>2, <1>5, <2>1, MaxFacts
  <2>3. LiveAt(g, Max(E)) = LiveAt(h, Max(E))
    BY <1>1, <1>2, <2>2 DEF LiveAt
  <2> HIDE DEF E
  <2>4. s[i] # -1 => s[i] = LiveAt(h, Max(E))
    BY <1>5 DEF AtomicAt, E
  <2> QED
    BY <1>3, <1>5, <2>3, <2>4 DEF AtomicAt
<1> QED
  BY <1>4, <1>5

\* MutateIsAtomic in terms of AtomicAt.
LEMMA MutateIsAtomicAt ==
    MutateIsAtomic <=> \A i \in DOMAIN hist : AtomicAt(hist, saw, i)
BY DEF MutateIsAtomic, AtomicAt, Live, LiveAt

\* A step keeps mutate atomic: the new write saw what reads return, and that
\* is the last write.
LEMMA NextAtomic ==
    ASSUME IInv, CInv, IInv', [Next]_vars, \A i \in DOMAIN hist : AtomicAt(hist, saw, i)
    PROVE  \A i \in DOMAIN hist' : AtomicAt(hist', saw', i)
<1> DEFINE N == Len(hist)
<1>1. /\ hist \in WriteSeq /\ hist' \in WriteSeq
      /\ saw \in Seq(Ids \cup {-1}) /\ Len(saw) = N
  BY DEF IInv, TypeOK, WriteSeq
<1>2. N \in Nat /\ DOMAIN hist = 1 .. N /\ DOMAIN hist' = 1 .. Len(hist')
  BY <1>1, SeqFacts DEF WriteSeq
<1>3. HistoryStep
  BY NextHistory
<1>4. CASE hist' = hist /\ saw' = saw
  BY <1>4
<1>5. ASSUME NEW k \in Keys, NEW v \in Ids, NEW seen \in Ids \cup {-1}, Wrote(k, v, seen)
      PROVE  \A i \in DOMAIN hist' : AtomicAt(hist', saw', i)
  <2> DEFINE x == [key |-> k, val |-> v]
  <2>1. hist' = Append(hist, x) /\ saw' = Append(saw, seen)
    BY <1>5 DEF Wrote, Add
  <2>2. x \in [key : Keys, val : Ids] /\ x.key = k
    OBVIOUS
  <2> HIDE DEF x
  <2>3. /\ Len(hist') = N + 1
        /\ \A i \in 1 .. N : hist'[i] = hist[i]
        /\ hist'[N + 1] = x
    BY <1>1, <2>1, <2>2, AppendFacts, SMT DEF WriteSeq
  <2>4. (\A i \in 1 .. N : saw'[i] = saw[i]) /\ saw'[N + 1] = seen
    BY <1>1, <1>5, <2>1, AppendFacts, SMT
  <2>5. ASSUME NEW i \in 1 .. N PROVE AtomicAt(hist', saw', i)
    <3>1. i <= N + 1 /\ \A j \in 1 .. i : j \in 1 .. N
      BY <1>2, SMT
    <3> QED
      BY <1>1, <1>2, <2>3, <2>4, <3>1, AtomicOfPrefix
  <2>6. AtomicAt(hist', saw', N + 1)
    <3> DEFINE E == {j \in 1 .. N : hist[j].key = k}
    <3>1. (N + 1) - 1 = N
      BY <1>2, SMT
    <3>2. {j \in 1 .. (N + 1) - 1 : hist'[j].key = hist'[N + 1].key} = E
      BY <2>2, <2>3, <3>1
    <3>3. seen # -1 => seen = LiveAt(hist, LastAt(hist, k))
      BY <1>5, ReadsOfInvariant DEF Wrote, ReadsSeeLastWrite, View, LastWrite, LastAt, Live, LiveAt
    <3>4. LastAt(hist, k) = IF E = {} THEN 0 ELSE Max(E)
      BY <1>2 DEF LastAt
    <3>5. E = {} => LiveAt(hist, LastAt(hist, k)) = 0
      BY <1>2, <3>4, SMT DEF LiveAt
    <3>6. E # {} => LiveAt(hist', Max(E)) = LiveAt(hist, LastAt(hist, k))
      <4>1. SUFFICES ASSUME E # {} PROVE LiveAt(hist', Max(E)) = LiveAt(hist, Max(E))
        BY <3>4
      <4>2. E \in SUBSET (0 .. N)
        BY <1>2, SMT
      <4>3. Max(E) \in E
        BY <1>2, <4>1, <4>2, MaxFacts
      <4>4. \A j \in 1 .. N : j \in 1 .. N + 1
        BY <1>2, SMT
      <4> QED
        BY <1>2, <2>3, <4>3, <4>4 DEF LiveAt
    <3> HIDE DEF E
    <3> QED
      BY <2>4, <3>2, <3>3, <3>5, <3>6 DEF AtomicAt
  <2>7. \A i \in 1 .. N + 1 : i \in 1 .. N \/ i = N + 1
    BY <1>2, SMT
  <2>8. DOMAIN hist' = 1 .. N + 1
    BY <1>2, <2>3
  <2> QED
    BY <2>5, <2>6, <2>7, <2>8
<1>6. ASSUME NEW n \in Durable .. N, CutTo(n)
      PROVE  \A i \in DOMAIN hist' : AtomicAt(hist', saw', i)
  <2>1. Durable \in 0 .. N
    BY ShapesOfTypes, DurableFacts DEF CInv, DiskInv
  <2>2. n \in 0 .. N
    BY <1>2, <2>1, SMT
  <2>3. hist' = SubSeq(hist, 1, n) /\ saw' = SubSeq(saw, 1, n)
    BY <1>6 DEF CutTo
  <2>4. /\ Len(hist') = n
        /\ \A i \in 1 .. n : hist'[i] = hist[i]
    BY <1>1, <2>2, <2>3, PrefixContent DEF WriteSeq
  <2>5. \A i \in 1 .. n : saw'[i] = saw[i]
    BY <1>1, <2>2, <2>3, PrefixContent
  <2>6. ASSUME NEW i \in 1 .. n PROVE AtomicAt(hist', saw', i)
    <3>1. i <= n /\ i \in 1 .. N /\ \A j \in 1 .. i : j \in 1 .. n
      BY <1>2, <2>2, SMT
    <3> QED
      BY <1>1, <1>2, <2>4, <2>5, <3>1, AtomicOfPrefix
  <2> QED
    BY <1>2, <2>4, <2>6
<1> QED
  BY <1>3, <1>4, <1>5, <1>6 DEF HistoryStep, Acknowledged

\* Nothing is written before the first step.
LEMMA InitAtomic ==
    Init => \A i \in DOMAIN hist : AtomicAt(hist, saw, i)
BY SMT DEF Init

\* An acknowledged write, or a later one of the key, is what a read returns.
LEMMA ReadableOfInvariant ==
    ASSUME IInv, CInv
    PROVE  AckedWritesReadable
<1> DEFINE N == Len(hist)
<1>1. hist \in WriteSeq /\ acked \in Nat /\ N \in Nat /\ DOMAIN hist = 1 .. N
  BY NumberSets, SeqFacts DEF IInv, TypeOK, WriteSeq
<1>2. ASSUME NEW k \in Keys
      PROVE  LET ackedWrite == Max({0} \cup {i \in DOMAIN hist : i <= acked /\ hist[i].key = k})
             IN  \/ View(k) = Live(ackedWrite)
                 \/ \E i \in DOMAIN hist : i > acked /\ hist[i].key = k /\ View(k) = Live(i)
  <2> DEFINE A == {0} \cup {i \in DOMAIN hist : i <= acked /\ hist[i].key = k}
             m == LastAt(hist, k)
  <2>1. View(k) = Live(m)
    BY ReadsOfInvariant DEF ReadsSeeLastWrite, LastWrite, LastAt
  <2>2. \/ m = 0 /\ \A i \in 1 .. N : hist[i].key # k
        \/ /\ m \in 1 .. N /\ hist[m].key = k
           /\ \A i \in 1 .. N : hist[i].key = k => i <= m
    BY <1>1, LastAtFacts
  <2> HIDE DEF m
  <2>3. A \in SUBSET (0 .. N) /\ A # {}
    BY <1>1, SMT
  <2>4. Max(A) \in A /\ \A y \in A : Max(A) >= y
    BY <1>1, <2>3, MaxFacts
  <2>5. CASE m > acked /\ m \in 1 .. N /\ hist[m].key = k
    BY <1>1, <2>1, <2>5
  <2>6. CASE m \in A /\ \A y \in A : y <= m
    <3>1. Max(A) = m
      <4> DEFINE a == Max(A)
      <4> HIDE DEF a
      <4>1. a \in A /\ a >= m /\ a <= m
        BY <2>4, <2>6 DEF a
      <4>2. a \in Nat /\ m \in Nat
        <5>1. \A y \in 0 .. N : y \in Nat
          BY <1>1, SMT
        <5> QED
          BY <2>3, <2>6, <4>1, <5>1
      <4> QED
        BY <4>1, <4>2, SMT DEF a
    <3> QED
      BY <2>1, <3>1
  <2>7. \/ m > acked /\ m \in 1 .. N /\ hist[m].key = k
        \/ m \in A /\ \A y \in A : y <= m
    <3>1. CASE m = 0 /\ \A i \in 1 .. N : hist[i].key # k
      BY <1>1, <3>1, SMT
    <3>2. CASE /\ m \in 1 .. N /\ hist[m].key = k
               /\ \A i \in 1 .. N : hist[i].key = k => i <= m
      <4>1. m > acked \/ m <= acked
        BY <1>1, <3>2, SMT
      <4>2. 0 <= m
        BY <1>1, <3>2, SMT
      <4> QED
        BY <1>1, <3>2, <4>1, <4>2
    <3> QED
      BY <2>2, <3>1, <3>2
  <2> QED
    BY <2>5, <2>6, <2>7
<1> QED
  BY <1>2 DEF AckedWritesReadable

\* The invariants of the runs that CInv holds as they are.
LEMMA PartsOfInvariant ==
    ASSUME IInv, CInv
    PROVE  AckedWritesSurvive /\ TailOnlyInActive /\ SegmentsMatchMemtables
<1>1. Shapes /\ SegmentsInv /\ acked <= Durable
  BY ShapesOfTypes DEF CInv, DiskInv, AckInv
<1>2. AckedWritesSurvive
  <2>1. Durable \in 0 .. Len(hist) /\ Len(hist) \in Nat /\ acked \in Nat
    BY <1>1, DurableFacts, NumberSets DEF CInv, DiskInv, IInv, TypeOK
  <2> QED
    BY <1>1, <2>1, SMT DEF AckedWritesSurvive
<1>3. TailOnlyInActive
  <2>1. ASSUME NEW g \in walFiles, Len(walRecs[g]) > walDurable[g]
        PROVE  Serving /\ g = walGen
    <3>1. g \in Gens /\ Len(walRecs[g]) \in Nat
      BY <1>1 DEF Shapes
    <3>2. walDurable[g] # Len(walRecs[g])
      BY <2>1, <3>1, SMT
    <3> QED
      BY <1>1, <3>1, <3>2 DEF SegmentsInv
  <2> QED
    BY <2>1 DEF TailOnlyInActive, Serving
<1>4. SegmentsMatchMemtables
  BY DEF CInv, MemtablesInv, SegmentsMatchMemtables
<1> QED
  BY <1>2, <1>3, <1>4


-----------------------------------------------------------------------------
(* drop_table. *)

\* DropInv, of any state d of the call and any history h.
Gone(h, k, from) == LiveAt(h, LastAt(h, k)) = 0 \/ LastAt(h, k) > from
DropOk(d, h) ==
    /\ d.pc \in {"scan", "commit"} => d.batch = {}
    /\ d.pc # "idle" =>
          /\ d.from <= Len(h)
          /\ \A k \in TableKeys : k <= d.cursor /\ k \notin d.batch => Gone(h, k, d.from)

\* DropInv in terms of DropOk.
LEMMA DropInvIsOk ==
    (DropInv <=> DropOk(drop, hist)) /\ (DropInv' <=> DropOk(drop', hist'))
BY DEF DropInv, DropOk, Gone, LastWrite, Live, LastAt, LiveAt

\* A write brings no key back but one that is written after the call began.
LEMMA GoneAfterWrite ==
    ASSUME NEW h \in WriteSeq, NEW j \in Keys, NEW v \in Ids, NEW k \in Keys,
           NEW from \in Ids, from <= Len(h), NEW g, g = Add(h, j, v)
    PROVE  /\ Gone(h, k, from) => Gone(g, k, from)
           /\ v = 0 => Gone(g, j, from)
           /\ Len(g) = Len(h) + 1 /\ from <= Len(g)
<1>1. Len(h) \in Nat /\ from \in Nat
  BY SeqFacts, BoundsAssumption, SMT DEF WriteSeq, Ids
<1>2. Len(g) = Len(h) + 1
  BY AppendFacts, SMT DEF WriteSeq, Add
<1>3. /\ LastAt(g, k) = IF k = j THEN Len(h) + 1 ELSE LastAt(h, k)
      /\ LiveAt(g, LastAt(g, k)) = IF k = j THEN v ELSE LiveAt(h, LastAt(h, k))
      /\ LiveAt(g, LastAt(g, j)) = v
  BY ContentOfAppend, SMT
<1>4. Len(h) + 1 > from
  BY <1>1, SMT
<1> QED
  BY <1>1, <1>2, <1>3, <1>4, SMT DEF Gone

\* Outside drop_table a step leaves the call alone, or ends it with the
\* process, and adds at most a write.
LEMMA StepsBesideDrop ==
    ASSUME IInv, CInv, [Next]_vars
    PROVE  \/ drop' = IdleDrop /\ mode' = "down"
           \/ drop' = drop /\ (hist' = hist \/ \E k \in Keys, v \in Ids : hist' = Add(hist, k, v))
           \/ DropStep
<1>1. ASSUME NEW w \in Writers, NEW k \in Keys, NEW del \in BOOLEAN, NEW seen,
             ClientWrite(w, k, del, seen), seen = -1 \/ seen = Live(GetLocked(k))
      PROVE  drop' = drop /\ \E v \in Ids : hist' = Add(hist, k, v)
  <2>1. WriteLocked(k, del, seen) /\ acked' = acked /\ Serving /\ drop' = drop
    BY <1>1 DEF ClientWrite, Serving
  <2>2. \E v \in Ids, s \in Ids \cup {-1} : Wrote(k, v, s)
    BY <1>1, <2>1, WriteLockedWrites
  <2> QED
    BY <2>1, <2>2 DEF Wrote
<1>2. ASSUME NEW w \in Writers, WriterStep(w)
      PROVE  drop' = drop /\ (hist' = hist \/ \E k \in Keys, v \in Ids : hist' = Add(hist, k, v))
  <2>1. CASE \E k \in Keys : Put(w, k) \/ Remove(w, k)
    BY <1>1, <2>1 DEF Put, Remove
  <2>2. CASE \E k \in Keys, del \in BOOLEAN : Mutate(w, k, del)
    BY <1>1, <2>2 DEF Mutate
  <2>3. CASE Commit(w)
    BY <2>3 DEF Commit
  <2> QED
    BY <1>2, <2>1, <2>2, <2>3 DEF WriterStep
<1>3. CASE FlushStep
  BY <1>3 DEF FlushStep, FlushExit, FlushTake, FlushWrite, FlushWriteFails,
              FlushPublish, FlushPublishFails, FlushUnlink, FlushFrame, histVars, clientVars
<1>4. CASE CompStep
  BY <1>4 DEF CompStep, CompExit, CompWake, CompSelect, CompNothing, CompMerge,
              CompMergeFails, CompPublish, CompPublishFails, CompUnlink, CompFrame, histVars, clientVars
<1>5. CASE ShutDown
  BY <1>5 DEF ShutDown, histVars, clientVars
<1>6. CASE Close \/ Crash
  BY <1>6 DEF Close, Crash, MemoryGone
<1>7. CASE RecoveryStep
  BY <1>7 DEF RecoveryStep, LoadSstables, ReplayWal, CheckpointEntry,
              FinishCheckpoint, DiscardSegment, Start, histVars, clientVars
<1>8. CASE UNCHANGED vars
  BY <1>8 DEF vars, histVars, clientVars
<1> QED
  BY <1>2, <1>3, <1>4, <1>5, <1>6, <1>7, <1>8 DEF Next

\* No step but the scan can break DropInv.
LEMMA NextDropOk ==
    ASSUME IInv, CInv, [Next]_vars, DropOk(drop, hist)
    PROVE  DropOk(drop', hist') \/ DropScan
<1>1. hist \in WriteSeq /\ Len(hist) \in Nat
  BY SeqFacts DEF IInv, TypeOK, WriteSeq
<1>2. drop.from \in Ids /\ drop.batch \in SUBSET TableKeys /\ TableKeys \subseteq Keys /\ Keys \subseteq Nat
  BY KeysAssumption DEF IInv, TypeOK
<1>3. CASE drop' = IdleDrop
  BY <1>3 DEF DropOk, IdleDrop
<1>4. CASE drop' = drop /\ hist' = hist
  BY <1>4
<1>5. ASSUME drop' = drop, NEW j \in Keys, NEW v \in Ids, hist' = Add(hist, j, v)
      PROVE  DropOk(drop', hist')
  <2>1. drop.pc \in {"scan", "commit"} => drop.batch = {}
    BY DEF DropOk
  <2>2. ASSUME drop.pc # "idle"
        PROVE  /\ drop.from <= Len(hist')
               /\ \A k \in TableKeys : k <= drop.cursor /\ k \notin drop.batch => Gone(hist', k, drop.from)
    <3>1. drop.from <= Len(hist)
      BY <2>2 DEF DropOk
    <3>2. \A k \in TableKeys : Gone(hist, k, drop.from) => Gone(hist', k, drop.from)
      BY <1>1, <1>2, <1>5, <3>1, GoneAfterWrite
    <3>3. drop.from <= Len(hist')
      BY <1>1, <1>2, <1>5, <3>1, GoneAfterWrite
    <3> QED
      BY <2>2, <3>2, <3>3 DEF DropOk
  <2> QED
    BY <1>5, <2>1, <2>2 DEF DropOk
<1>6. CASE DropStart
  <2>1. /\ drop'.pc = "scan" /\ drop'.batch = {} /\ drop'.cursor = -1 /\ drop'.from = Len(hist)
        /\ hist' = hist
    BY <1>6 DEF DropStart, IdleDrop
  <2>2. \A k \in TableKeys : ~(k <= -1)
    BY <1>2, SMT
  <2> QED
    BY <1>1, <2>1, <2>2, SMT DEF DropOk
<1>7. CASE DropLock
  <2>1. /\ drop'.pc = "removing" /\ drop.pc = "lock" /\ drop'.batch = drop.batch
        /\ drop'.cursor = drop.cursor /\ drop'.from = drop.from /\ hist' = hist
    BY <1>7 DEF DropLock, IInv, TypeOK
  <2> QED
    BY <2>1 DEF DropOk
<1>8. CASE DropCommit
  <2>1. /\ drop'.pc = "scan" /\ drop.pc = "commit" /\ drop'.batch = drop.batch
        /\ drop'.cursor = drop.cursor /\ drop'.from = drop.from /\ hist' = hist
    BY <1>8 DEF DropCommit, IInv, TypeOK
  <2> QED
    BY <2>1 DEF DropOk
<1>9. CASE DropRemove
  <2> DEFINE j == Min(drop.batch)
  <2>1. drop.batch \in SUBSET Nat /\ drop.batch # {}
    BY <1>2, <1>9 DEF DropRemove, IInv, FilesInv, ModeInv
  <2>2. j \in drop.batch
    BY <2>1, MinFacts
  <2>3. WriteLocked(j, TRUE, -1) /\ acked' = acked
    BY <1>9 DEF DropRemove
  <2>4. /\ drop'.pc \in {"commit", "removing"} /\ drop.pc = "removing"
        /\ drop'.batch = drop.batch \ {j}
        /\ drop'.pc = "commit" => drop'.batch = {}
        /\ drop'.cursor = drop.cursor /\ drop'.from = drop.from
    BY <1>9 DEF DropRemove, IInv, TypeOK
  <2> HIDE DEF j
  <2>5. j \in Keys
    BY <1>2, <2>2
  <2>6. \E v \in Ids, s \in Ids \cup {-1} : Wrote(j, v, s) /\ (TRUE => v = 0)
    BY <2>3, <2>5, WriteLockedWrites
  <2>7. hist' = Add(hist, j, 0) /\ 0 \in Ids
    BY <2>6 DEF Wrote
  <2>8. drop.from <= Len(hist)
    BY <2>4 DEF DropOk
  <2>9. /\ drop.from <= Len(hist')
        /\ Gone(hist', j, drop.from)
        /\ \A k \in TableKeys : Gone(hist, k, drop.from) => Gone(hist', k, drop.from)
    BY <1>1, <1>2, <2>5, <2>7, <2>8, GoneAfterWrite
  <2>10. ASSUME NEW k \in TableKeys, k <= drop'.cursor, k \notin drop'.batch
         PROVE  Gone(hist', k, drop'.from)
    <3>1. CASE k = j
      BY <2>4, <2>9, <3>1
    <3>2. CASE k # j
      BY <2>4, <2>9, <2>10, <3>2 DEF DropOk
    <3> QED
      BY <3>1, <3>2
  <2> QED
    BY <2>4, <2>9, <2>10 DEF DropOk
<1> QED
  BY <1>3, <1>4, <1>5, <1>6, <1>7, <1>8, <1>9, StepsBesideDrop DEF DropStep

-----------------------------------------------------------------------------
(* What compact() selects, and where its output goes. *)

\* SequenceNumber looks a file up in the manifest.
LEMMA SequenceNumberFacts ==
    ASSUME ManifestInv(manifest), NEW f \in manifest.files
    PROVE  SequenceNumber(f.path) = f.seq
<1>1. \A g \in manifest.files : g.path = f.path => g = f
  BY DEF ManifestInv
<1>2. (CHOOSE g \in manifest.files : g.path = f.path) = f
  BY <1>1
<1> QED
  BY <1>2 DEF SequenceNumber

\* compact() selects Fanout adjacent tables.
LEMMA SelectedRunFacts ==
    ASSUME TypeManifest, Runs # {}
    PROVE  /\ Max(Runs) \in 1 .. Len(sstables) - Fanout + 1
           /\ SelectedRun \in Seq(Seqs)
           /\ Len(SelectedRun) = Fanout
           /\ \A j \in 1 .. Fanout : SelectedRun[j] = sstables[Max(Runs) + j - 1]
<1>0. sstables \in Seq(Seqs)
  BY DEF TypeManifest
<1>1. Len(sstables) \in Nat /\ Fanout \in Nat /\ Fanout >= 2
  BY <1>0, LenProperties, SizesAssumption, SMT
<1>2. Runs \in SUBSET (0 .. Len(sstables))
  BY <1>1, SMT DEF Runs
<1>3. Max(Runs) \in Runs
  BY <1>1, <1>2, MaxFacts
<1>4. Max(Runs) \in 1 .. Len(sstables) - Fanout + 1
  BY <1>3 DEF Runs
<1> DEFINE m == Max(Runs)
<1> HIDE DEF m
<1>5. m \in Int /\ m + Fanout - 1 \in Int
  BY <1>1, <1>4, SMT DEF m
<1>6. \A i \in m .. m + Fanout - 1 : sstables[i] \in Seqs
  BY <1>0, <1>1, <1>4, ElementOfSeq, SMT DEF m
<1>7. /\ SubSeq(sstables, m, m + Fanout - 1) \in Seq(Seqs)
      /\ Len(SubSeq(sstables, m, m + Fanout - 1)) =
            IF m <= m + Fanout - 1 THEN (m + Fanout - 1) - m + 1 ELSE 0
      /\ \A i \in 1 .. (m + Fanout - 1) - m + 1 :
            SubSeq(sstables, m, m + Fanout - 1)[i] = sstables[m + i - 1]
  BY <1>5, <1>6, SubSeqProperties, SMT
<1>8. m <= m + Fanout - 1 /\ (m + Fanout - 1) - m + 1 = Fanout
  BY <1>1, <1>5, SMT
<1> QED
  BY <1>4, <1>7, <1>8, SMTT(30) DEF SelectedRun, m

\* The logical sequence number of a compaction is that of its newest input.
LEMMA LogicalFacts ==
    ASSUME TypeManifest, ManifestInv(manifest), TablesInv, Runs # {}
    PROVE  LET L == Max({SequenceNumber(p) : p \in Range(SelectedRun)})
           IN  [path |-> SelectedRun[1], seq |-> L] \in manifest.files
<1> DEFINE S == {SequenceNumber(p) : p \in Range(SelectedRun)}
           m == Max(Runs)
<1>0. sstables \in Seq(Seqs) /\ manifest.files \subseteq FileMeta
  BY DEF TypeManifest, ManifestContent
<1>1. Len(sstables) \in Nat /\ DOMAIN sstables = 1 .. Len(sstables) /\ Fanout \in Nat /\ Fanout >= 2
  BY <1>0, LenProperties, SizesAssumption, SMT
<1>2. /\ m \in 1 .. Len(sstables) - Fanout + 1
      /\ SelectedRun \in Seq(Seqs)
      /\ Len(SelectedRun) = Fanout
      /\ \A j \in 1 .. Fanout : SelectedRun[j] = sstables[m + j - 1]
  BY SelectedRunFacts
<1> HIDE DEF m
<1>3. Range(SelectedRun) = {SelectedRun[j] : j \in 1 .. Fanout}
  BY <1>2, RangeEquality
<1>4. ASSUME NEW j \in 1 .. Fanout
      PROVE  \E f \in manifest.files : f.path = SelectedRun[j] /\ f.seq = SequenceNumber(SelectedRun[j])
  <2>1. m + j - 1 \in DOMAIN sstables /\ SelectedRun[j] = sstables[m + j - 1]
    BY <1>1, <1>2, SMT
  <2>2. SelectedRun[j] \in Range(sstables)
    BY <2>1 DEF Range
  <2>3. PICK f \in manifest.files : f.path = SelectedRun[j]
    BY <2>2 DEF TablesInv, Paths
  <2> QED
    BY <2>3, SequenceNumberFacts
<1>5. 1 \in 1 .. Fanout
  BY <1>1, SMT
<1>6. PICK f \in manifest.files : f.path = SelectedRun[1] /\ f.seq = SequenceNumber(SelectedRun[1])
  BY <1>4, <1>5
<1>7. f.seq \in S
  BY <1>3, <1>5, <1>6
<1>8. ASSUME NEW y \in S PROVE y \in Seqs /\ f.seq >= y
  <2>1. PICK j \in 1 .. Fanout : y = SequenceNumber(SelectedRun[j])
    BY <1>3, <1>8
  <2>2. PICK g \in manifest.files : g.path = SelectedRun[j] /\ g.seq = y
    BY <1>4, <2>1
  <2>3. f.seq \in Seqs /\ g.seq \in Seqs
    BY <1>0, <1>6, <2>2 DEF FileMeta
  <2>4. CASE j = 1
    BY <1>6, <2>1, <2>2, <2>3, <2>4, BoundsAssumption, SMT DEF Seqs
  <2>5. CASE j # 1
    <3>1. m \in DOMAIN sstables /\ m + j - 1 \in DOMAIN sstables /\ m < m + j - 1
      BY <1>1, <1>2, <2>1, <2>5, SMT
    <3>2. f.path = sstables[m] /\ g.path = sstables[m + j - 1]
      BY <1>2, <1>5, <1>6, <2>2, SMT
    <3>3. f.seq > g.seq
      BY <3>1, <3>2 DEF TablesInv
    <3> QED
      BY <2>2, <2>3, <3>3, BoundsAssumption, SMT DEF Seqs
  <2> QED
    BY <2>4, <2>5
<1>9. S \in SUBSET (0 .. MaxSeq) /\ S # {} /\ MaxSeq \in Nat
  BY <1>7, <1>8, BoundsAssumption DEF Seqs
<1>10. Max(S) \in S /\ \A y \in S : Max(S) >= y
  BY <1>9, MaxFacts
<1>11. Max(S) = f.seq
  <2> HIDE DEF S
  <2>0. f.seq >= Max(S) /\ Max(S) >= f.seq
    BY <1>7, <1>8, <1>10
  <2>1. f.seq \in 0 .. MaxSeq /\ Max(S) \in 0 .. MaxSeq
    BY <1>7, <1>9, <1>10
  <2> QED
    BY <2>0, <2>1, <1>9, SMT
<1>12. f = [path |-> f.path, seq |-> f.seq]
  BY <1>0, <1>6 DEF FileMeta
<1> QED
  BY <1>6, <1>11, <1>12

\* t is s with the n tables from position first on replaced by p.
Replaced(t, s, first, n, p) ==
    /\ t \in Seq(Seqs)
    /\ Len(t) = Len(s) - n + 1
    /\ \A j \in 1 .. Len(s) - n + 1 :
          t[j] = IF j < first THEN s[j] ELSE IF j = first THEN p ELSE s[j + n - 1]

\* Replacing a run of n adjacent tables by one.
LEMMA ReplaceRunFacts ==
    ASSUME NEW s \in Seq(Seqs), NEW inputs \in Seq(Seqs), NEW p \in Seqs,
           \A i, j \in DOMAIN s : i # j => s[i] # s[j],
           NEW first \in 1 .. Len(s),
           Len(inputs) >= 1,
           first + Len(inputs) - 1 <= Len(s),
           \A j \in 1 .. Len(inputs) : s[first + j - 1] = inputs[j]
    PROVE  Replaced(ReplaceRun(s, inputs, p), s, first, Len(inputs), p)
<1> DEFINE n == Len(inputs)
           S == {i \in DOMAIN s : s[i] \in Range(inputs)}
           a == SubSeq(s, 1, first - 1)
           b == SubSeq(s, first + n, Len(s))
<1>1. n \in Nat /\ Len(s) \in Nat /\ DOMAIN s = 1 .. Len(s) /\ Range(inputs) = {inputs[j] : j \in 1 .. n}
  BY LenProperties, RangeEquality, SMT
<1> HIDE DEF n
<1>2. \A j \in 1 .. n : s[first + j - 1] = inputs[j]
  BY DEF n
<1>3. n >= 1 /\ first + n - 1 <= Len(s)
  BY DEF n
<1>4. Min(S) = first
  <2>1. first \in S
    <3>1. 1 \in 1 .. n /\ s[first] = inputs[1]
      BY <1>1, <1>2, <1>3, SMT
    <3> QED
      BY <1>1, <3>1
  <2>2. ASSUME NEW i \in S PROVE first <= i
    <3>1. PICK j \in 1 .. n : s[i] = inputs[j]
      BY <1>1
    <3>2. first + j - 1 \in DOMAIN s /\ s[first + j - 1] = s[i]
      BY <1>1, <1>2, <1>3, <3>1, SMTT(30)
    <3>3. i = first + j - 1
      BY <3>2
    <3> QED
      BY <1>1, <3>1, <3>3, SMT
  <2>3. S \in SUBSET Nat /\ S # {}
    BY <1>1, <2>1, SMT
  <2>4. Min(S) \in S /\ \A y \in S : Min(S) <= y
    BY <2>3, MinFacts
  <2> HIDE DEF S
  <2>5. first <= Min(S) /\ Min(S) <= first /\ Min(S) \in Nat
    BY <2>1, <2>2, <2>3, <2>4
  <2> QED
    BY <2>5, SMT
<1>5. ReplaceRun(s, inputs, p) = a \o <<p>> \o b
  BY <1>4 DEF ReplaceRun, n
<1>6. /\ a \in Seq(Seqs) /\ Len(a) = first - 1
      /\ \A j \in 1 .. first - 1 : a[j] = s[j]
  <2>1. \A i \in 1 .. first - 1 : s[i] \in Seqs
    BY <1>1, ElementOfSeq, SMT
  <2> QED
    BY <2>1, <1>1, SubSeqProperties, SMT
<1>7. /\ b \in Seq(Seqs) /\ Len(b) = Len(s) - (first + n) + 1
      /\ \A j \in 1 .. Len(s) - (first + n) + 1 : b[j] = s[first + n + j - 1]
  <2>1. \A i \in first + n .. Len(s) : s[i] \in Seqs
    BY <1>1, ElementOfSeq, SMT
  <2>2. first + n \in Int /\ Len(s) \in Int
    BY <1>1, SMT
  <2>3. /\ b \in Seq(Seqs)
        /\ Len(b) = IF first + n <= Len(s) THEN Len(s) - (first + n) + 1 ELSE 0
        /\ \A j \in 1 .. Len(s) - (first + n) + 1 : b[j] = s[first + n + j - 1]
    BY <2>1, <2>2, SubSeqProperties, SMTT(30)
  <2> HIDE DEF b
  <2>4. Len(b) = Len(s) - (first + n) + 1
    <3>1. CASE first + n <= Len(s)
      BY <2>3, <3>1
    <3>2. CASE ~(first + n <= Len(s))
      <4>1. Len(b) = 0
        BY <2>3, <3>2
      <4> HIDE DEF b
      <4>2. Len(s) - (first + n) + 1 = 0
        BY <3>2, <1>1, <1>3, SMTT(30)
      <4> QED
        BY <4>1, <4>2
    <3> QED
      BY <3>1, <3>2
  <2> QED
    BY <2>3, <2>4
<1> HIDE DEF a, b
<1>8. <<p>> \in Seq(Seqs) /\ Len(<<p>>) = 1 /\ <<p>>[1] = p
  BY SMT
<1> DEFINE c == a \o <<p>>
           t == c \o b
<1>9. /\ c \in Seq(Seqs) /\ Len(c) = first
      /\ \A j \in 1 .. first : c[j] = IF j < first THEN s[j] ELSE p
  <2>1. /\ c \in Seq(Seqs) /\ Len(c) = Len(a) + Len(<<p>>)
        /\ \A j \in 1 .. Len(a) + Len(<<p>>) :
              c[j] = IF j <= Len(a) THEN a[j] ELSE <<p>>[j - Len(a)]
    BY <1>6, <1>8, ConcatProperties, SMT
  <2> HIDE DEF c
  <2>2. Len(a) + Len(<<p>>) = first
    BY <1>6, <1>8, SMT
  <2>3. ASSUME NEW j \in 1 .. first PROVE c[j] = IF j < first THEN s[j] ELSE p
    <3>1. c[j] = IF j <= Len(a) THEN a[j] ELSE <<p>>[j - Len(a)]
      BY <2>1, <2>2
    <3>2. CASE j < first
      <4>1. j \in 1 .. first - 1 /\ j <= Len(a)
        BY <1>6, <3>2, SMT
      <4> QED
        BY <1>6, <3>1, <3>2, <4>1
    <3>3. CASE ~(j < first)
      <4>1. ~(j <= Len(a)) /\ j - Len(a) = 1
        BY <1>6, <3>3, SMT
      <4> QED
        BY <1>8, <3>1, <3>3, <4>1
    <3> QED
      BY <3>2, <3>3
  <2> QED
    BY <2>1, <2>2, <2>3
<1> HIDE DEF c
<1>10. /\ t \in Seq(Seqs) /\ Len(t) = Len(c) + Len(b)
       /\ \A j \in 1 .. Len(c) + Len(b) :
             t[j] = IF j <= Len(c) THEN c[j] ELSE b[j - Len(c)]
  <2>1. b \in Seq(Seqs) /\ c \in Seq(Seqs)
    BY <1>7, <1>9
  <2> QED
    BY <2>1, ConcatProperties, SMT
<1> HIDE DEF t
<1>11. Len(t) = Len(s) - n + 1
  <2>1. Len(t) = first + (Len(s) - (first + n) + 1)
    BY <1>7, <1>9, <1>10
  <2> QED
    BY <1>1, <2>1, SMT
<1>12. ASSUME NEW j \in 1 .. Len(s) - n + 1
       PROVE  t[j] = IF j < first THEN s[j] ELSE IF j = first THEN p ELSE s[j + n - 1]
  <2>1. CASE j <= first
    <3>1. j \in 1 .. first /\ j \in 1 .. Len(c) + Len(b) /\ j <= Len(c)
      BY <2>1, <1>1, <1>7, <1>9, SMT
    <3>2. t[j] = c[j] /\ c[j] = IF j < first THEN s[j] ELSE p
      BY <3>1, <1>9, <1>10
    <3>3. j < first \/ j = first
      BY <2>1, <1>1, SMT
    <3> QED
      BY <1>1, <3>2, <3>3, SMT
  <2>2. CASE j > first
    <3>1. t[j] = b[j - first] /\ j - first \in 1 .. Len(s) - (first + n) + 1
      <4>1. /\ j \in 1 .. Len(c) + Len(b) /\ ~(j <= Len(c)) /\ j - Len(c) = j - first
            /\ j - first \in 1 .. Len(s) - (first + n) + 1
        BY <2>2, <1>1, <1>7, <1>9, SMT
      <4> QED
        BY <4>1, <1>10
    <3>2. b[j - first] = s[first + n + (j - first) - 1]
      BY <3>1, <1>7
    <3>3. first + n + (j - first) - 1 = j + n - 1
      BY <1>1, SMT
    <3> QED
      BY <2>2, <3>1, <3>2, <3>3, SMT
  <2> QED
    BY <2>1, <2>2, SMT
<1>13. Replaced(t, s, first, n, p)
  BY <1>10, <1>11, <1>12 DEF Replaced
<1> QED
  BY <1>5, <1>13 DEF t, c, n

=============================================================================
