--------------------------- MODULE LsmEngineProofs ---------------------------
(***************************************************************************)
(* The files of the engine: for any number of keys, threads, writes,       *)
(* SSTables, failures and crashes, the saved manifest names files that     *)
(* exist, the inputs of a compaction stay adjacent, and the order of       *)
(* precedence of the SSTables is the one a restart computes.               *)
(*                                                                         *)
(* LsmInvariants has the invariant IInv, LsmEngineInvariant the steps of   *)
(* put, of the two threads and of the shutdown; here are commit,           *)
(* drop_table, crash and recovery, and the theorems.                       *)
(***************************************************************************)
EXTENDS LsmEngineInvariant, FiniteSetTheorems, FunctionTheorems

\* A leaf that names no prover is for Zenon; those with arithmetic name SMT.
USE Zenon

-----------------------------------------------------------------------------
(* What the operators of the model return. *)

\* get_locked returns an id.
LEMMA GetLockedType ==
    ASSUME TypeLog, TypeTables, TypeManifest, NEW k \in Keys
    PROVE  GetLocked(k) \in Ids
<1>1. CASE memtable[k] # 0
  BY <1>1 DEF GetLocked, TypeLog, Table
<1> DEFINE S == {i \in DOMAIN immutables : immutables[i].tab[k] # 0}
<1>2. CASE memtable[k] = 0 /\ S = {}
  <2>1. GetLocked(k) = FirstEntry(sstables, k)
    BY <1>2 DEF GetLocked
  <2>2. sstables \in Seq(Seqs)
    BY DEF TypeManifest
  <2> QED
    BY <2>1, <2>2, FirstEntryType
<1>3. CASE memtable[k] = 0 /\ S # {}
  <2> DEFINE n == Len(immutables)
             P(i) == /\ immutables[i].tab[k] # 0
                     /\ \A j \in i + 1 .. Len(immutables) : immutables[j].tab[k] = 0
             i == CHOOSE i \in DOMAIN immutables : P(i)
  <2>0. immutables \in Seq([tab : Table, gen : Gens])
    BY DEF TypeLog
  <2>1. n \in Nat /\ DOMAIN immutables = 1 .. n
    BY <2>0, LenProperties
  <2>2. \E x \in DOMAIN immutables : P(x)
    <3>1. S \in SUBSET (0 .. n)
      BY <2>1, SMT
    <3>2. PICK x \in S : \A y \in S : x >= y
      BY <1>3, <2>1, <3>1, GreatestExists
    <3>3. ASSUME NEW j \in x + 1 .. n PROVE immutables[j].tab[k] = 0
      <4>1. j \in DOMAIN immutables /\ ~(x >= j)
        BY <2>1, <3>2, SMT
      <4> QED
        BY <3>2, <4>1
    <3> QED
      BY <3>2, <3>3
  <2>3. i \in DOMAIN immutables
    <3> HIDE DEF P
    <3> QED BY <2>2
  <2>4. GetLocked(k) = immutables[i].tab[k]
    BY <1>3 DEF GetLocked
  <2> HIDE DEF i
  <2>5. immutables[i] \in [tab : Table, gen : Gens]
    BY <2>0, <2>3, SeqElement
  <2> QED
    BY <2>4, <2>5 DEF Table
<1> QED
  BY <1>1, <1>2, <1>3

\* Replaying a segment gives an id for each key, not 0 only if it has one.
LEMMA ReplaySegmentType ==
    ASSUME TypeLog, NEW g \in Gens, NEW k \in Keys
    PROVE  ReplaySegment(g, k) \in Ids
<1> DEFINE recs == walRecs[g]
           S == {i \in DOMAIN recs : recs[i].key = k}
<1>0. recs \in Seq(Record) /\ 0 \in Ids
  BY BoundsAssumption, SMT DEF TypeLog, Ids
<1>1. CASE S = {}
  BY <1>0, <1>1 DEF ReplaySegment
<1>2. CASE S # {}
  <2> DEFINE n == Len(recs)
             P(i) == /\ recs[i].key = k
                     /\ \A j \in i + 1 .. Len(recs) : recs[j].key # k
             i == CHOOSE i \in DOMAIN recs : P(i)
  <2>1. n \in Nat /\ DOMAIN recs = 1 .. n
    BY <1>0, LenProperties
  <2>2. \E x \in DOMAIN recs : P(x)
    <3>1. S \in SUBSET (0 .. n)
      BY <2>1, SMT
    <3>2. PICK x \in S : \A y \in S : x >= y
      BY <1>2, <2>1, <3>1, GreatestExists
    <3>3. ASSUME NEW j \in x + 1 .. n PROVE recs[j].key # k
      <4>1. j \in DOMAIN recs /\ ~(x >= j)
        BY <2>1, <3>2, SMT
      <4> QED
        BY <3>2, <4>1
    <3> QED
      BY <3>2, <3>3
  <2>3. i \in DOMAIN recs
    <3> HIDE DEF P
    <3> QED BY <2>2
  <2>4. ReplaySegment(g, k) = recs[i].id
    BY <1>2 DEF ReplaySegment
  <2> HIDE DEF i
  <2>5. recs[i] \in Record
    BY <1>0, <2>3, SeqElement
  <2> QED
    BY <2>4, <2>5, BoundsAssumption, SMT DEF Record, Ids
<1> QED
  BY <1>1, <1>2

\* recover_from_wal rebuilds a memtable.
LEMMA ReplayedType ==
    ASSUME TypeLog, NEW k \in Keys
    PROVE  Replayed(k) \in Ids
<1> DEFINE S == {g \in walFiles : ReplaySegment(g, k) # 0}
           P(g) == /\ ReplaySegment(g, k) # 0
                   /\ \A h \in walFiles : h > g => ReplaySegment(h, k) = 0
           c == CHOOSE g \in walFiles : P(g)
<1>1. CASE S = {}
  <2>1. Replayed(k) = 0
    BY <1>1 DEF Replayed
  <2> QED
    BY <2>1, BoundsAssumption, SMT DEF Ids
<1>2. CASE S # {}
  <2>1. S \in SUBSET (0 .. MaxGen) /\ MaxGen \in Nat
    BY BoundsAssumption DEF TypeLog, Gens
  <2>2. \E g \in walFiles : P(g)
    <3>1. PICK g \in S : \A h \in S : g >= h
      BY <1>2, <2>1, GreatestExists
    <3>2. ASSUME NEW h \in walFiles, h > g PROVE ReplaySegment(h, k) = 0
      <4>1. ~(g >= h)
        BY <2>1, <3>1, <3>2, SMT DEF TypeLog, Gens
      <4> QED
        BY <3>1, <4>1
    <3> QED
      BY <3>1, <3>2
  <2>3. c \in walFiles
    <3> HIDE DEF P
    <3> QED BY <2>2
  <2>4. Replayed(k) = ReplaySegment(c, k)
    BY <1>2 DEF Replayed
  <2> HIDE DEF c
  <2> QED
    BY <2>3, <2>4, ReplaySegmentType DEF TypeLog
<1> QED
  BY <1>1, <1>2

\* A crash keeps a prefix of each segment.
LEMMA KeptFacts ==
    ASSUME TypeLog, NEW g \in Gens, NEW extra \in Ids
    PROVE  Kept(g, extra) \in 0 .. Len(walRecs[g])
<1>1. Len(walRecs[g]) \in Nat
  <2>1. walRecs[g] \in Seq(Record)
    BY DEF TypeLog
  <2> QED
    BY <2>1, LenProperties
<1>2. walDurable[g] + extra \in Nat
  BY BoundsAssumption, SMT DEF TypeLog, Ids
<1> QED
  BY <1>1, <1>2, PairFacts, SMT DEF Kept

\* A crash keeps a prefix of the history.
LEMMA SurvivingFacts ==
    ASSUME TypeLog, TypeClients, NEW extra \in Ids
    PROVE  Surviving(extra) \in 0 .. Len(hist)
<1> DEFINE S == {Len(hist)} \cup {i - 1 : i \in LostIds(extra)}
<1>1. Len(hist) \in Nat
  <2>1. hist \in Seq([key : Keys, val : Ids])
    BY DEF TypeClients
  <2> QED
    BY <2>1, LenProperties
<1>2. ASSUME NEW i \in LostIds(extra) PROVE i - 1 \in Nat
  <2>1. PICK g \in walFiles : i \in {walRecs[g][n].id : n \in Kept(g, extra) + 1 .. Len(walRecs[g])}
    BY <1>2 DEF LostIds
  <2>2. PICK n \in Kept(g, extra) + 1 .. Len(walRecs[g]) : i = walRecs[g][n].id
    BY <2>1
  <2>3. g \in Gens
    BY <2>1 DEF TypeLog
  <2>4. walRecs[g] \in Seq(Record)
    BY <2>3 DEF TypeLog
  <2>5. n \in 1 .. Len(walRecs[g])
    BY <2>2, <2>3, <2>4, KeptFacts, LenProperties, SMT
  <2>6. walRecs[g][n] \in Record
    BY <2>4, <2>5, ElementOfSeq
  <2>7. i \in 1 .. MaxWrites
    BY <2>2, <2>6 DEF Record
  <2> QED
    BY <2>7, BoundsAssumption, SMT
<1>3. S \in SUBSET Nat /\ S # {} /\ Len(hist) \in S
  BY <1>1, <1>2
<1>4. Min(S) \in S /\ \A y \in S : Min(S) <= y
  BY <1>3, MinFacts
<1>5. Min(S) \in Nat /\ Min(S) <= Len(hist)
  BY <1>3, <1>4
<1> QED
  BY <1>1, <1>5, SMT DEF Surviving

\* A set of manifest entries is finite, and its length counts it.
LEMMA FilesFinite ==
    ASSUME NEW files \in SUBSET FileMeta
    PROVE  IsFiniteSet(files)
<1> DEFINE h == [m \in files |-> <<m.path, m.seq>>]
<1>1. IsFiniteSet(Seqs \X Seqs)
  <2>1. IsFiniteSet(Seqs)
    BY BoundsAssumption, FS_Interval, SMT DEF Seqs
  <2> QED
    BY <2>1, FS_Product
<1>2. h \in [files -> Seqs \X Seqs]
  BY DEF FileMeta
<1>3. ASSUME NEW x \in files, NEW y \in files, h[x] = h[y] PROVE x = y
  BY <1>3, SMT DEF FileMeta
<1> HIDE DEF h
<1>4. h \in Injection(files, Seqs \X Seqs)
  BY <1>2, <1>3, Fun_IsInj
<1> QED
  BY <1>1, <1>4, FS_Injection

\* load_sstables_from_manifest lists every file once.
LEMMA SortedFilesFacts ==
    ASSUME NEW files \in SUBSET FileMeta, NEW f \in SortedFiles(files)
    PROVE  /\ Cardinality(files) \in Nat
           /\ f \in [1 .. Cardinality(files) -> files]
           /\ Range(f) = files
           /\ \A i, j \in 1 .. Cardinality(files) : i # j => f[i] # f[j]
           /\ \A i, j \in 1 .. Cardinality(files) : i < j => f[i].seq >= f[j].seq
<1> DEFINE n == Cardinality(files)
<1>1. IsFiniteSet(files) /\ n \in Nat
  BY FilesFinite, FS_CardinalityType
<1>2. f \in [1 .. n -> files] /\ Range(f) = files
  BY DEF SortedFiles
<1>3. DOMAIN f = 1 .. n
  BY <1>2
<1>4. \A i, j \in 1 .. n : i < j => f[i].seq >= f[j].seq
  BY <1>3 DEF SortedFiles
<1>5. f \in Surjection(1 .. n, files)
  <2>1. \A t \in files : \E x \in 1 .. n : f[x] = t
    BY <1>2, <1>3 DEF Range
  <2> QED
    BY <1>2, <2>1, Fun_IsSurj
<1>6. IsFiniteSet(1 .. n) /\ Cardinality(1 .. n) = n
  BY <1>1, FS_Interval, SMT
<1>7. f \in Injection(1 .. n, files)
  BY <1>1, <1>5, <1>6, FS_SurjSameCardinalityImpliesInj
<1>8. \A i, j \in 1 .. n : f[i] = f[j] => i = j
  BY <1>7, Fun_InjectionProperties
<1> QED
  BY <1>1, <1>2, <1>4, <1>8

-----------------------------------------------------------------------------
(* The steps of clients. *)

\* commit() of a client's segment preserves the invariant.
LEMMA CommitIInv ==
    ASSUME IInv, NEW w \in Writers, Commit(w)
    PROVE  IInv'
<1>0. TypeLog /\ TypeClients /\ TypeTables /\ TypeManifest /\ FilesInv
  BY TypeParts DEF IInv
<1>1. writer[w] \in [pc : {"idle", "commit"}, gen : Gens, id : Ids] /\ acked \in Ids
  BY <1>0 DEF TypeClients
<1>2. TypeLog'
  BY <1>0, <1>1, CommitType DEF Commit
<1>3. TypeTables' /\ TypeManifest'
  BY <1>0, SameFiles DEF Commit
<1>4. TypeClients'
  <2>1. Max({acked, writer[w].id}) \in Ids
    BY <1>1, PairFacts, BoundsAssumption, SMT DEF Ids
  <2>2. IdleWriter \in [pc : {"idle", "commit"}, gen : Gens, id : Ids]
    BY BoundsAssumption, SMT DEF IdleWriter, Gens, Ids
  <2> QED
    BY <1>0, <2>1, <2>2 DEF Commit, TypeClients
<1>5. FilesInv'
  <2>1. drop'.pc \in {"lock", "removing"} => drop'.batch # {}
    BY <1>0 DEF Commit, FilesInv, ModeInv
  <2> QED
    BY <1>0, <2>1, ClientFiles DEF Commit, sstVars, threadVars, tableVars
<1> QED
  BY <1>2, <1>3, <1>4, <1>5, TypeParts DEF IInv

\* The rounds of drop_table preserve the invariant.
LEMMA DropStepIInv ==
    ASSUME IInv, DropStep
    PROVE  IInv'
<1> DEFINE DropType == [pc : {"idle", "scan", "lock", "removing", "commit"},
                        cursor : Keys \cup {-1}, batch : SUBSET TableKeys,
                        from : Ids, gen : Gens, id : Ids]
<1>0. TypeLog /\ TypeClients /\ TypeTables /\ TypeManifest /\ FilesInv
  BY TypeParts DEF IInv
<1>1. drop \in DropType /\ acked \in Ids
  BY <1>0 DEF TypeClients
<1>2. Len(hist) \in Ids
  <2>1. hist \in Seq([key : Keys, val : Ids]) /\ Len(hist) <= MaxWrites
    BY <1>0 DEF TypeClients
  <2> QED
    BY <2>1, LenProperties, BoundsAssumption, SMT DEF Ids
<1>3. IdleDrop \in DropType
  BY BoundsAssumption, SMT DEF IdleDrop, Gens, Ids
<1>4. CASE DropStart
  <2>1. drop' \in DropType /\ drop'.pc = "scan"
    BY <1>2, <1>3, <1>4 DEF DropStart, IdleDrop
  <2> QED
    BY <1>4, <2>1, DropMoveIInv DEF DropStart
<1>5. CASE DropScan
  <2> DEFINE keys == FirstKeys(Droppable)
  <2>1. keys \subseteq TableKeys
    BY DEF FirstKeys, Droppable
  <2>2. CASE keys = {} /\ drop' = IdleDrop
    <3>1. drop' \in DropType /\ drop'.pc = "idle"
      BY <1>3, <2>2 DEF IdleDrop
    <3> QED
      BY <1>5, <3>1, DropMoveIInv DEF DropScan
  <2>3. CASE \E last \in keys :
               drop' = [drop EXCEPT !.pc = "lock", !.batch = keys, !.cursor = last]
    <3> HIDE DEF keys
    <3>0. PICK last \in keys :
            drop' = [drop EXCEPT !.pc = "lock", !.batch = keys, !.cursor = last]
      BY <2>3
    <3>a. last \in Keys \cup {-1} /\ keys \in SUBSET TableKeys /\ keys # {}
      BY <2>1, <3>0, KeysAssumption
    <3>1. drop' \in DropType /\ drop'.batch # {}
      BY <1>1, <3>0, <3>a
    <3> QED
      BY <1>5, <3>1, DropMoveIInv DEF DropScan
  <2> QED
    BY <1>5, <2>2, <2>3 DEF DropScan
<1>6. CASE DropLock
  <2>1. drop' \in DropType /\ drop'.batch # {}
    BY <1>0, <1>1, <1>6 DEF DropLock, FilesInv, ModeInv
  <2> QED
    BY <1>6, <2>1, DropMoveIInv DEF DropLock
<1>7. CASE DropRemove
  <2> DEFINE k == Min(drop.batch)
             rest == drop.batch \ {k}
  <2>1. drop.batch # {} /\ drop.batch \subseteq TableKeys /\ drop.batch \in SUBSET Nat
    BY <1>0, <1>1, <1>7, KeysAssumption DEF DropRemove, FilesInv, ModeInv
  <2>2. k \in drop.batch
    BY <2>1, MinFacts
  <2>3. k \in Keys
    BY <2>1, <2>2, KeysAssumption
  <2>4. WriteLocked(k, TRUE, -1)
    BY <1>7 DEF DropRemove
  <2>4a. TRUE \in BOOLEAN /\ -1 \in Ids \cup {-1}
    OBVIOUS
  <2>5. /\ TypeLog'
        /\ hist' \in Seq([key : Keys, val : Ids])
        /\ Len(hist) + 1 \in 1 .. MaxWrites
        /\ Len(hist') <= MaxWrites
        /\ saw' \in Seq(Ids \cup {-1})
        /\ Len(saw') = Len(hist')
        /\ immutables # <<>> => immutables' # <<>>
    BY <1>0, <2>3, <2>4, <2>4a, WriteLockedType
  <2>6. drop' = [drop EXCEPT !.pc = IF rest = {} THEN "commit" ELSE "removing",
                             !.batch = rest, !.gen = walGen, !.id = Len(hist) + 1]
    BY <1>7 DEF DropRemove
  <2>7. rest \subseteq TableKeys
    BY <2>1
  <2> HIDE DEF rest
  <2>8. drop' \in DropType /\ (drop'.pc \in {"lock", "removing"} => drop'.batch # {})
    <3>0. Len(hist) + 1 \in 1 .. MaxWrites
      BY <2>5
    <3>1. Len(hist) + 1 \in Ids /\ walGen \in Gens /\ rest \in SUBSET TableKeys
      <4>1. Len(hist) + 1 \in Ids
        BY <3>0, BoundsAssumption, SMT DEF Ids
      <4> QED
        BY <1>0, <2>7, <4>1 DEF TypeLog
    <3>2. CASE rest = {}
      <4>1. drop' = [drop EXCEPT !.pc = "commit", !.batch = rest, !.gen = walGen, !.id = Len(hist) + 1]
        BY <2>6, <3>2
      <4> QED
        BY <1>1, <3>1, <4>1
    <3>3. CASE rest # {}
      <4>1. drop' = [drop EXCEPT !.pc = "removing", !.batch = rest, !.gen = walGen, !.id = Len(hist) + 1]
        BY <2>6, <3>3
      <4> QED
        BY <1>1, <3>1, <3>3, <4>1
    <3> QED
      BY <3>2, <3>3
  <2>9. TypeTables' /\ TypeManifest'
    BY <1>0, <1>7, SameFiles DEF DropRemove, DropUnchanged
  <2>10. TypeClients'
    BY <1>0, <1>7, <2>5, <2>8 DEF TypeClients, DropRemove, DropUnchanged
  <2>11. FilesInv'
    BY <1>0, <1>7, <2>5, <2>8, ClientFiles DEF DropRemove, DropUnchanged, sstVars, threadVars
  <2> QED
    BY <2>5, <2>9, <2>10, <2>11, TypeParts DEF IInv
<1>8. CASE DropCommit
  <2>1. drop' \in DropType /\ drop'.pc = "scan"
    BY <1>1, <1>8 DEF DropCommit
  <2>2. drop.gen \in Gens /\ drop.id \in Ids
    BY <1>1
  <2>3. Max({acked, drop.id}) \in Ids
    BY <1>1, <2>2, PairFacts, BoundsAssumption, SMT DEF Ids
  <2>4. TypeLog'
    BY <1>0, <1>8, <2>2, CommitType DEF DropCommit
  <2>5. TypeTables' /\ TypeManifest'
    BY <1>0, <1>8, SameFiles DEF DropCommit, DropUnchanged
  <2>6. TypeClients'
    BY <1>0, <1>8, <2>1, <2>3 DEF TypeClients, DropCommit, DropUnchanged
  <2>7. FilesInv'
    BY <1>0, <1>8, <2>1, ClientFiles DEF DropCommit, DropUnchanged, sstVars, threadVars, tableVars
  <2> QED
    BY <2>4, <2>5, <2>6, <2>7, TypeParts DEF IInv
<1> QED
  BY <1>4, <1>5, <1>6, <1>7, <1>8 DEF DropStep

-----------------------------------------------------------------------------
(* Crash and recovery. *)

\* A crash at any point preserves the invariant.
LEMMA CrashIInv ==
    ASSUME IInv, Crash
    PROVE  IInv'
<1>0. TypeLog /\ TypeClients /\ TypeTables /\ TypeManifest /\ FilesInv
  BY TypeParts DEF IInv
<1>1. crashes < MaxCrashes /\ MemoryGone /\ UNCHANGED <<walFiles, sstVars, manifestDisk, acked>>
  BY DEF Crash
<1>2. PICK extra \in Ids :
        /\ walRecs' = [g \in Gens |-> SubSeq(walRecs[g], 1, Kept(g, extra))]
        /\ walDurable' = [g \in Gens |-> Kept(g, extra)]
        /\ hist' = SubSeq(hist, 1, Surviving(extra))
        /\ saw' = SubSeq(saw, 1, Surviving(extra))
  BY DEF Crash
<1>3. ASSUME NEW g \in Gens
      PROVE  SubSeq(walRecs[g], 1, Kept(g, extra)) \in Seq(Record) /\ Kept(g, extra) \in Nat
  <2>1. walRecs[g] \in Seq(Record)
    BY <1>0 DEF TypeLog
  <2>2. Kept(g, extra) \in 0 .. Len(walRecs[g])
    BY <1>0, KeptFacts
  <2>3. SubSeq(walRecs[g], 1, Kept(g, extra)) \in Seq(Record)
    BY <2>1, <2>2, PrefixFacts
  <2> QED
    BY <2>2, <2>3, SMT
<1>4. walRecs' \in [Gens -> Seq(Record)] /\ walDurable' \in [Gens -> Nat] /\ walFiles' \subseteq Gens
  BY <1>0, <1>1, <1>2, <1>3 DEF TypeLog
<1>5. /\ hist \in Seq([key : Keys, val : Ids]) /\ saw \in Seq(Ids \cup {-1})
      /\ Len(saw) = Len(hist) /\ Len(hist) <= MaxWrites /\ acked \in Ids /\ crashes \in Nat
  BY <1>0, SMT DEF TypeClients
<1>6. Surviving(extra) \in 0 .. Len(hist)
  BY <1>0, SurvivingFacts
<1>7. /\ hist' \in Seq([key : Keys, val : Ids]) /\ Len(hist') = Surviving(extra)
      /\ saw' \in Seq(Ids \cup {-1}) /\ Len(saw') = Surviving(extra)
  <2>1. Surviving(extra) \in 0 .. Len(saw)
    BY <1>5, <1>6
  <2>2. hist' \in Seq([key : Keys, val : Ids]) /\ Len(hist') = Surviving(extra)
    BY <1>2, <1>5, <1>6, PrefixFacts
  <2>3. saw' \in Seq(Ids \cup {-1}) /\ Len(saw') = Surviving(extra)
    BY <1>2, <1>5, <2>1, PrefixFacts
  <2> QED
    BY <2>2, <2>3
<1>8. Len(hist') <= MaxWrites
  <2>1. Len(hist) \in Nat
    BY <1>5, LenProperties
  <2> QED
    BY <1>5, <1>6, <1>7, <2>1, BoundsAssumption, SMT
<1>9. ManifestInv(manifestDisk)'
  BY <1>0, <1>1 DEF FilesInv, ManifestInv, sstVars
<1>10. manifestDisk' \in ManifestContent /\ TypeTables'
  BY <1>0, <1>1 DEF TypeTables, TypeManifest, sstVars
<1>11. acked' \in Ids
  BY <1>1, <1>5
<1> QED
  BY <1>1, <1>4, <1>5, <1>7, <1>8, <1>9, <1>10, <1>11, GoneIInv

\* load_sstables_from_manifest: the constructor never throws, and lists the
\* files in the order of their numbers.
LEMMA LoadSstablesIInv ==
    ASSUME IInv, LoadSstables
    PROVE  IInv'
<1> DEFINE files == manifestDisk.files
           n == Cardinality(files)
<1>0. TypeLog /\ TypeClients /\ TypeTables /\ TypeManifest /\ FilesInv
  BY TypeParts DEF IInv
<1>1. MissingFiles = {}
  BY <1>0 DEF MissingFiles, FilesInv, ManifestInv
<1>2. /\ mode = "down" /\ mode' = "loaded" /\ manifest' = manifestDisk
      /\ sstFiles' = Paths(files)
      /\ sst' = [p \in Seqs |-> IF p \in Paths(files) THEN sst[p] ELSE EmptyTable]
      /\ tier' = [p \in Seqs |-> IF p \in Paths(files) THEN tier[p] ELSE 0]
      /\ UNCHANGED <<walVars, manifestDisk, tableVars, threadVars, clientVars, histVars>>
  BY <1>1 DEF LoadSstables
<1>3. PICK f \in SortedFiles(files) : sstables' = [i \in DOMAIN f |-> f[i].path]
  BY <1>1 DEF LoadSstables
<1>4. files \in SUBSET FileMeta /\ manifestDisk \in ManifestContent
  BY <1>0 DEF TypeManifest, ManifestContent
<1>5. /\ n \in Nat /\ f \in [1 .. n -> files] /\ Range(f) = files
      /\ \A i, j \in 1 .. n : i # j => f[i] # f[j]
      /\ \A i, j \in 1 .. n : i < j => f[i].seq >= f[j].seq
  BY <1>3, <1>4, SortedFilesFacts, SMTT(30)
<1> HIDE DEF n
<1>6. DOMAIN f = 1 .. n /\ sstables' = [i \in 1 .. n |-> f[i].path]
  BY <1>3, <1>5
<1>7. \A i \in 1 .. n : f[i] \in files /\ f[i].path \in Seqs /\ f[i].seq \in Nat
  BY <1>4, <1>5, BoundsAssumption, SMT DEF FileMeta, Seqs
<1>8. sstables' \in Seq(Seqs)
  <2>1. sstables' \in [1 .. n -> Seqs]
    BY <1>6, <1>7
  <2> QED
    BY <1>5, <2>1, FunctionIsSeq
<1>9. DOMAIN sstables' = 1 .. n /\ \A i \in 1 .. n : sstables'[i] = f[i].path
  BY <1>6
<1>10. TypeLog' /\ TypeClients'
  BY <1>0, <1>2 DEF TypeLog, TypeClients, walVars, tableVars, clientVars, histVars
<1>11. TypeTables'
  <2>1. Paths(files) \subseteq Seqs
    BY <1>4 DEF Paths, FileMeta
  <2>2. EmptyTable \in Table
    BY IdleTypes
  <2>3. sst' \in [Seqs -> Table]
    BY <1>0, <1>2, <2>2 DEF TypeTables
  <2>4. tier' \in [Seqs -> Nat]
    BY <1>0, <1>2 DEF TypeTables
  <2> QED
    BY <1>2, <2>1, <2>3, <2>4 DEF TypeTables
<1>12. TypeManifest'
  <2>1. mode' \in {"down", "failed", "loaded", "checkpoint", "discard", "up", "closing"}
    BY <1>2
  <2> QED
    BY <1>0, <1>2, <1>8, <2>1 DEF TypeManifest, threadVars
<1>13. ManifestInv(manifestDisk)' /\ ManifestInv(manifest)'
  <2>1. \A g \in files : g.path \in sstFiles'
    BY <1>2 DEF Paths
  <2>2. ManifestInv(manifestDisk)'
    BY <1>0, <1>2, <2>1 DEF FilesInv, ManifestInv
  <2> QED
    BY <1>2, <2>2 DEF ManifestInv
<1>14. TablesInv'
  <2>0. \A g, h \in files : g # h => g.path # h.path /\ g.seq # h.seq
    BY <1>0 DEF FilesInv, ManifestInv
  <2>1. Range(sstables') = Paths(files)
    <3>1. \A g \in files : \E i \in 1 .. n : f[i] = g
      BY <1>5, <1>6 DEF Range
    <3> QED
      BY <1>7, <1>9, <3>1, SMT DEF Range, Paths
  <2>2. \A i, j \in 1 .. n : i # j => sstables'[i] # sstables'[j]
    BY <1>5, <1>7, <1>9, <2>0, SMT
  <2>3. ASSUME NEW i \in 1 .. n, NEW j \in 1 .. n, i < j,
               NEW g \in files, NEW h \in files, g.path = sstables'[i], h.path = sstables'[j]
        PROVE  g.seq > h.seq
    <3>1. g = f[i] /\ h = f[j]
      BY <1>7, <1>9, <2>0, <2>3
    <3>2. i # j
      BY <1>5, <2>3, SMT
    <3>3. f[i] # f[j] /\ f[i].seq >= f[j].seq
      BY <1>5, <2>3, <3>2
    <3>4. f[i].seq # f[j].seq
      BY <1>7, <2>0, <3>3
    <3> QED
      BY <1>7, <3>1, <3>3, <3>4, SMT
  <2>4. \A i, j \in DOMAIN sstables' : \A g, h \in manifest'.files :
           i < j /\ g.path = sstables'[i] /\ h.path = sstables'[j] => g.seq > h.seq
    BY <1>2, <1>9, <2>3
  <2>5. Range(sstables') = Paths(manifest'.files)
    BY <1>2, <2>1
  <2>6. \A i, j \in DOMAIN sstables' : i # j => sstables'[i] # sstables'[j]
    BY <1>9, <2>2
  <2> QED
    BY <2>4, <2>5, <2>6 DEF TablesInv
<1>15. FlushInv' /\ CompInv'
  <2>1. ~FlushBusy /\ ~CompBusy /\ comp.pc # "unlink"
    BY <1>0, <1>2 DEF FilesInv, FlushInv, CompInv, Serving
  <2> QED
    BY <1>2, <2>1 DEF FlushInv, CompInv, FlushBusy, CompBusy, threadVars
<1>16. ModeInv'
  <2>1. manifestDisk.next \in Nat
    BY <1>4, BoundsAssumption, SMT DEF ManifestContent
  <2> QED
    BY <1>0, <1>2, <2>1, SMT DEF FilesInv, ModeInv, clientVars
<1> QED
  BY <1>10, <1>11, <1>12, <1>13, <1>14, <1>15, <1>16, TypeParts DEF IInv, FilesInv

\* Every step of the constructor preserves the invariant.
LEMMA RecoveryStepIInv ==
    ASSUME IInv, RecoveryStep
    PROVE  IInv'
<1>0. TypeLog /\ TypeClients /\ TypeTables /\ TypeManifest /\ FilesInv
  BY TypeParts DEF IInv
<1>1. CASE LoadSstables
  BY <1>1, LoadSstablesIInv
<1>2. CASE ReplayWal
  <2> DEFINE gen == IF walFiles = {} THEN 0 ELSE Max(walFiles) + 1
  <2>0. /\ gen <= MaxGen /\ walGen' = gen /\ walFiles' = walFiles \cup {gen}
        /\ memtable' = [k \in Keys |-> Replayed(k)]
        /\ mode = "loaded" /\ mode' = "checkpoint"
        /\ UNCHANGED <<walRecs, walDurable, sstVars, manifestDisk, immutables, walBad,
                       sstables, manifest, threadVars, clientVars, histVars>>
    BY <1>2 DEF ReplayWal
  <2>1. gen \in Gens
    <3>1. CASE walFiles = {}
      BY <3>1, BoundsAssumption, SMT DEF Gens
    <3>2. CASE walFiles # {}
      <4>1. walFiles \in SUBSET (0 .. MaxGen) /\ MaxGen \in Nat
        BY <1>0, BoundsAssumption DEF TypeLog, Gens
      <4>2. Max(walFiles) \in 0 .. MaxGen
        BY <3>2, <4>1, MaxFacts
      <4> QED
        BY <2>0, <3>2, <4>1, <4>2, SMT DEF Gens
    <3> QED
      BY <3>1, <3>2
  <2> HIDE DEF gen
  <2>2. memtable' \in Table
    BY <1>0, <2>0, ReplayedType DEF Table
  <2>3. TypeLog'
    BY <1>0, <2>0, <2>1, <2>2 DEF TypeLog
  <2> QED
    BY <2>0, <2>3, RecoverFiles, TypeParts DEF IInv
<1>3. CASE CheckpointEntry
  <2> DEFINE k == Min(Unchecked)
             rec == [key |-> k, id |-> memtable[k]]
             recs(ok) == IF ok THEN Append(walRecs[walGen], rec) ELSE walRecs[walGen]
  <2>0. /\ Unchecked # {} /\ mode = "checkpoint"
        /\ UNCHANGED <<walFiles, sstVars, manifestDisk, mode, memtable, immutables, walGen,
                       sstables, manifest, threadVars, clientVars, histVars>>
    BY <1>3 DEF CheckpointEntry
  <2>1. Unchecked \in SUBSET Nat
    BY KeysAssumption DEF Unchecked
  <2>2. k \in Unchecked
    BY <2>0, <2>1, MinFacts
  <2>3. k \in Keys /\ memtable[k] # 0
    BY <2>2 DEF Unchecked
  <2>4. rec \in Record
    <3>1. memtable[k] \in 1 .. MaxWrites
      <4> HIDE DEF k
      <4> QED
        BY <1>0, <2>3, BoundsAssumption, SMT DEF TypeLog, Table, Ids
    <3> QED
      BY <2>3, <3>1 DEF Record
  <2>5. PICK ok \in LogOutcomes :
           /\ walRecs' = [walRecs EXCEPT ![walGen] = recs(ok)]
           /\ walDurable' = [walDurable EXCEPT ![walGen] = Len(recs(ok))]
           /\ walBad' = IF ok THEN walBad ELSE walBad \cup {walGen}
    BY <1>3 DEF CheckpointEntry
  <2> HIDE DEF rec
  <2>6. walGen \in Gens /\ walRecs[walGen] \in Seq(Record)
    BY <1>0 DEF TypeLog
  <2>7. Append(walRecs[walGen], rec) \in Seq(Record)
    BY <2>4, <2>6, AppendProperties
  <2>8. recs(ok) \in Seq(Record)
    BY <2>6, <2>7
  <2> HIDE DEF recs
  <2>9. Len(recs(ok)) \in Nat
    BY <2>8, LenProperties
  <2>10. walRecs' \in [Gens -> Seq(Record)]
    BY <1>0, <2>5, <2>6, <2>8 DEF TypeLog
  <2>11. walDurable' \in [Gens -> Nat]
    BY <1>0, <2>5, <2>6, <2>9 DEF TypeLog
  <2>12. walBad' \subseteq Gens
    BY <1>0, <2>5, <2>6 DEF TypeLog
  <2>13. TypeLog'
    BY <1>0, <2>0, <2>10, <2>11, <2>12 DEF TypeLog
  <2>14. TypeClients' /\ TypeTables' /\ TypeManifest' /\ FilesInv'
    BY <2>0, RecoverFiles
  <2> QED
    BY <2>13, <2>14, TypeParts DEF IInv
<1>4. CASE FinishCheckpoint
  <2>0. /\ mode = "checkpoint" /\ mode' = "discard"
        /\ UNCHANGED <<diskVars, tableVars, sstables, manifest, threadVars, clientVars, histVars>>
    BY <1>4 DEF FinishCheckpoint, CheckpointDone
  <2>1. TypeLog'
    BY <1>0, <2>0 DEF TypeLog, diskVars, walVars, tableVars
  <2>2. TypeClients' /\ TypeTables' /\ TypeManifest' /\ FilesInv'
    BY <2>0, RecoverFiles DEF diskVars, tableVars
  <2> QED
    BY <2>1, <2>2, TypeParts DEF IInv
<1>5. CASE DiscardSegment
  <2>0. /\ mode = "discard"
        /\ UNCHANGED <<sstVars, manifestDisk, mode, tableVars, sstables, manifest,
                       threadVars, clientVars, histVars>>
    BY <1>5 DEF DiscardSegment
  <2>1. PICK g \in OldSegments : RemoveSegment(g)
    BY <1>5 DEF DiscardSegment
  <2>2. g \in Gens
    BY <1>0, <2>1 DEF OldSegments, TypeLog
  <2>3. TypeLog'
    BY <1>0, <2>0, <2>1, <2>2, RemoveSegmentType
  <2>4. TypeClients' /\ TypeTables' /\ TypeManifest' /\ FilesInv'
    BY <2>0, RecoverFiles DEF tableVars
  <2> QED
    BY <2>3, <2>4, TypeParts DEF IInv
<1>6. CASE Start
  <2>0. /\ mode = "discard" /\ mode' = "up"
        /\ flush' = [IdleFlush EXCEPT !.pc = "wait"] /\ comp' = [IdleComp EXCEPT !.pc = "wait"]
        /\ UNCHANGED <<diskVars, tableVars, sstables, manifest, pending, clientVars, histVars>>
    BY <1>6 DEF Start
  <2>1. TypeLog' /\ TypeClients' /\ TypeTables'
    BY <1>0, <2>0 DEF TypeLog, TypeClients, TypeTables, diskVars, walVars, sstVars,
                             tableVars, clientVars, histVars
  <2>2. TypeManifest'
    <3>1. mode' \in {"down", "failed", "loaded", "checkpoint", "discard", "up", "closing"}
      BY <2>0
    <3>2. flush' \in [pc : {"wait", "write", "publish", "unlink", "exited"}, gen : Gens, seq : Seqs]
      BY <2>0, BoundsAssumption, SMT DEF IdleFlush, Gens, Seqs
    <3>3. comp' \in [pc : {"wait", "select", "merge", "publish", "unlink", "exited"},
                     inputs : Seq(Seqs), full : BOOLEAN, seq : Seqs, logical : Seqs,
                     old : Seq(Seqs)]
      <4>1. 0 \in Seqs /\ <<>> \in Seq(Seqs) /\ FALSE \in BOOLEAN
        BY BoundsAssumption, SMT DEF Seqs
      <4> QED
        BY <2>0, <4>1 DEF IdleComp
    <3> QED
      BY <1>0, <2>0, <3>1, <3>2, <3>3 DEF TypeManifest, diskVars
  <2>3. flush'.pc = "wait" /\ comp'.pc = "wait"
    BY <2>0 DEF IdleFlush, IdleComp
  <2>4. UNCHANGED <<sstFiles, manifestDisk, sstables, manifest, crashes, drop>>
    BY <2>0 DEF diskVars, sstVars, clientVars, histVars
  <2>5. ManifestInv(manifestDisk)' /\ ManifestInv(manifest)'
    BY <1>0, <2>4 DEF FilesInv, ManifestInv
  <2>6. TablesInv'
    BY <1>0, <2>4 DEF FilesInv, TablesInv
  <2>7. FlushInv' /\ CompInv'
    BY <2>3 DEF FlushInv, CompInv, FlushBusy, CompBusy
  <2>8. ModeInv'
    BY <1>0, <2>0, <2>4 DEF FilesInv, ModeInv
  <2> QED
    BY <2>1, <2>2, <2>5, <2>6, <2>7, <2>8, TypeParts DEF IInv, FilesInv
<1> QED
  BY <1>1, <1>2, <1>3, <1>4, <1>5, <1>6 DEF RecoveryStep

-----------------------------------------------------------------------------
(* The invariant is inductive. *)

\* The invariant is inductive: no step of the engine leaves it.
LEMMA NextIInv == IInv /\ [Next]_vars => IInv'
<1> SUFFICES ASSUME IInv, [Next]_vars PROVE IInv'
  OBVIOUS
<1>0. TypeLog /\ TypeClients /\ TypeTables /\ TypeManifest /\ FilesInv
  BY TypeParts DEF IInv
<1>1. ASSUME NEW w \in Writers, WriterStep(w) PROVE IInv'
  <2>1. ASSUME NEW k \in Keys, Put(w, k) \/ Remove(w, k) PROVE IInv'
    <3>1. FALSE \in BOOLEAN /\ TRUE \in BOOLEAN /\ -1 \in Ids \cup {-1}
      OBVIOUS
    <3>2. ClientWrite(w, k, FALSE, -1) \/ ClientWrite(w, k, TRUE, -1)
      BY <2>1 DEF Put, Remove
    <3> QED
      BY <3>1, <3>2, ClientWriteIInv
  <2>2. ASSUME NEW k \in Keys, NEW del \in BOOLEAN, Mutate(w, k, del) PROVE IInv'
    <3>1. GetLocked(k) \in Ids
      BY <1>0, GetLockedType
    <3>2. Live(GetLocked(k)) \in Ids \cup {-1}
      BY <1>0, <3>1, LiveType
    <3>3. ClientWrite(w, k, del, Live(GetLocked(k)))
      BY <2>2 DEF Mutate
    <3> QED
      BY <3>2, <3>3, ClientWriteIInv
  <2>3. CASE Commit(w)
    BY <2>3, CommitIInv
  <2> QED
    BY <1>1, <2>1, <2>2, <2>3 DEF WriterStep
<1>2. CASE DropStep
  BY <1>2, DropStepIInv
<1>3. CASE FlushStep
  BY <1>3, FlushStepIInv
<1>4. CASE CompStep
  BY <1>4, CompStepIInv
<1>5. CASE ShutDown
  BY <1>5, ShutDownIInv
<1>6. CASE Close
  BY <1>6, CloseIInv
<1>7. CASE Crash
  BY <1>7, CrashIInv
<1>8. CASE RecoveryStep
  BY <1>8, RecoveryStepIInv
<1>9. CASE UNCHANGED vars
  <2>0. UNCHANGED <<walVars, sstVars, manifestDisk, mode, tableVars, sstables, manifest,
                    threadVars, clientVars, histVars>>
    BY <1>9 DEF vars
  <2>a. TypeLog'
    BY <1>0, <2>0 DEF TypeLog, walVars, tableVars
  <2>b. TypeClients'
    BY <1>0, <2>0 DEF TypeClients, clientVars, histVars
  <2>1. TypeLog' /\ TypeClients' /\ TypeTables' /\ TypeManifest'
    BY <1>0, <2>0, <2>a, <2>b, SameFiles
  <2>2. drop'.pc \in {"lock", "removing"} => drop'.batch # {}
    BY <1>0, <1>9 DEF FilesInv, ModeInv, vars, clientVars
  <2>3. FilesInv'
    BY <1>0, <1>9, <2>2, ClientFiles DEF vars, sstVars, tableVars, threadVars, clientVars, histVars
  <2> QED
    BY <2>1, <2>3, TypeParts DEF IInv
<1> QED
  BY <1>1, <1>2, <1>3, <1>4, <1>5, <1>6, <1>7, <1>8, <1>9 DEF Next

\* What the two threads and the constructor rely on holds in every state.
THEOREM Invariance == Spec => []IInv
<1>1. Init => IInv
  BY InitIInv
<1>2. IInv /\ [Next]_vars => IInv'
  BY NextIInv
<1> QED
  BY <1>1, <1>2, PTL DEF Spec

-----------------------------------------------------------------------------
(* The properties. *)

\* Every variable of the engine keeps its type, whatever fails or crashes.
THEOREM TypeCorrect == Spec => []TypeOK
<1>1. IInv => TypeOK
  BY DEF IInv
<1> QED
  BY <1>1, Invariance, PTL

\* The saved manifest never names a file that does not exist: neither a
\* flush nor a compaction, failed, interrupted by a crash or not, makes
\* load_sstables_from_manifest throw.
THEOREM ManifestNeverDangles == Spec => []ManifestFilesExist
<1>1. IInv => ManifestFilesExist
  BY DEF IInv, FilesInv, ManifestInv, ManifestFilesExist
<1> QED
  BY <1>1, Invariance, PTL

\* The inputs of a compaction stay adjacent in sstables_ until its publish,
\* however many tables are flushed in front of them.
THEOREM RunStaysIntact == Spec => []RunIntact
<1>1. IInv => RunIntact
  <2> SUFFICES ASSUME IInv, comp.pc \in {"merge", "publish"}
               PROVE  \E i \in 1 .. Len(sstables) - Len(comp.inputs) + 1 :
                         SubSeq(sstables, i, i + Len(comp.inputs) - 1) = comp.inputs
    BY DEF RunIntact
  <2> DEFINE s == sstables
             inputs == comp.inputs
             K == Len(inputs)
             N == Len(s)
  <2>0. TypeManifest /\ CompInv
    BY TypeParts DEF IInv, FilesInv
  <2>1. s \in Seq(Seqs) /\ inputs \in Seq(Seqs)
    BY <2>0 DEF TypeManifest
  <2>2. K \in Nat /\ N \in Nat
    BY <2>1, LenProperties
  <2>3. PICK i \in 1 .. N : RunAt(i)
    BY <2>0 DEF CompInv, CompBusy
  <2>4. i + K - 1 <= N /\ \A j \in 1 .. K : s[i + j - 1] = inputs[j]
    BY <2>3 DEF RunAt
  <2>5. K >= 1
    BY <2>0, SizesAssumption, SMT DEF CompInv, CompBusy
  <2> HIDE DEF s, inputs
  <2> DEFINE t == SubSeq(s, i, i + K - 1)
  <2> HIDE DEF K, N
  <2>6. i \in 1 .. N - K + 1 /\ i + K - 1 \in Int /\ i \in Int /\ i <= i + K - 1
        /\ (i + K - 1) - i + 1 = K
    BY <2>2, <2>4, <2>5, SMT
  <2>7. \A j \in i .. i + K - 1 : s[j] \in Seqs
    <3>1. ASSUME NEW j \in i .. i + K - 1 PROVE s[j] \in Seqs
      <4>1. j \in 1 .. N
        BY <2>2, <2>4, SMT
      <4> QED
        BY <2>1, <4>1, ElementOfSeq DEF N
    <3> QED
      BY <3>1
  <2>8. /\ t \in Seq(Seqs)
        /\ Len(t) = IF i <= i + K - 1 THEN (i + K - 1) - i + 1 ELSE 0
        /\ \A j \in 1 .. (i + K - 1) - i + 1 : t[j] = s[i + j - 1]
    BY <2>6, <2>7, SubSeqProperties, SMT
  <2> HIDE DEF t
  <2>9. Len(t) = Len(inputs) /\ \A j \in 1 .. Len(t) : t[j] = inputs[j]
    BY <2>4, <2>6, <2>8 DEF K
  <2>10. t = inputs
    BY <2>1, <2>8, <2>9, SeqEqual
  <2> QED
    BY <2>6, <2>10 DEF t, s, inputs, K, N
<1> QED
  BY <1>1, Invariance, PTL

\* sstables_ always holds the files of the manifest in the order of the
\* sequence numbers that a restart sorts by: the tables keep their precedence
\* over flushes, compactions and restarts.
THEOREM OrderSurvivesRestart == Spec => []RestartKeepsOrder
<1>1. IInv => RestartKeepsOrder
  <2> SUFFICES ASSUME IInv
               PROVE  /\ Range(sstables) = Paths(manifest.files)
                      /\ \A i, j \in DOMAIN sstables :
                            i < j => SequenceNumber(sstables[i]) > SequenceNumber(sstables[j])
    BY DEF RestartKeepsOrder
  <2>0. TablesInv /\ ManifestInv(manifest)
    BY DEF IInv, FilesInv
  <2>1. \A i \in DOMAIN sstables : \E f \in manifest.files : f.path = sstables[i]
    BY <2>0 DEF TablesInv, Range, Paths
  <2>2. ASSUME NEW i \in DOMAIN sstables, NEW j \in DOMAIN sstables, i < j
        PROVE  SequenceNumber(sstables[i]) > SequenceNumber(sstables[j])
    <3>1. PICK f \in manifest.files : f.path = sstables[i]
      BY <2>1
    <3>2. PICK g \in manifest.files : g.path = sstables[j]
      BY <2>1
    <3>3. SequenceNumber(f.path) = f.seq /\ SequenceNumber(g.path) = g.seq
      BY <2>0, SequenceNumberFacts
    <3>4. f.seq > g.seq
      BY <2>0, <2>2, <3>1, <3>2 DEF TablesInv
    <3> QED
      BY <3>1, <3>2, <3>3, <3>4
  <2> QED
    BY <2>0, <2>2 DEF TablesInv
<1> QED
  BY <1>1, Invariance, PTL

=============================================================================
