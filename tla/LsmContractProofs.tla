-------------------------- MODULE LsmContractProofs --------------------------
(***************************************************************************)
(* What the clients of LsmEngine may rely on, for every value of the       *)
(* constants, as long as no append to a log fails and a segment that is    *)
(* deleted goes (LogsReliable): a read returns the last write of its key,  *)
(* an acknowledged write survives, mutate is atomic, drop_table empties    *)
(* its table, and the engine implements StorageEngine.                     *)
(*                                                                         *)
(* LsmEngineProofs has that IInv is an invariant.  Given IInv,             *)
(* LsmWriteProofs and LsmRestartProofs have that each step preserves CInv, *)
(* and LsmFacts what a state with both lets clients see.                   *)
(***************************************************************************)
EXTENDS LsmEngineProofs, LsmWriteProofs, LsmRestartProofs

\* A leaf that names no prover is for Zenon; those with arithmetic name SMT.
USE Zenon

-----------------------------------------------------------------------------
(* All steps. *)

\* CInv is inductive, given IInv.
LEMMA NextCInv ==
    ASSUME LogsReliable, IInv, IInv', CInv, [Next]_vars
    PROVE  CInv'
<1>1. CASE \E w \in Writers : WriterStep(w)
  BY <1>1, WriterStepCInv
<1>2. CASE DropStep
  BY <1>2, DropStepCInv
<1>3. CASE FlushStep
  BY <1>3, FlushStepCInv
<1>4. CASE CompStep
  BY <1>4, CompStepCInv
<1>5. CASE ShutDown
  BY <1>5, ShutDownCInv
<1>6. CASE Close
  BY <1>6, CloseCInv
<1>7. CASE Crash
  BY <1>7, CrashCInv
<1>8. CASE RecoveryStep
  BY <1>8, RecoveryStepCInv
<1>9. CASE UNCHANGED vars
  BY <1>9, StutterCInv
<1> QED
  BY <1>1, <1>2, <1>3, <1>4, <1>5, <1>6, <1>7, <1>8, <1>9 DEF Next

-----------------------------------------------------------------------------
(* drop_table. *)

\* The keys of one round: with any key, those of S before it; none only if
\* there are none.
LEMMA FirstKeysFacts ==
    ASSUME NEW S \in SUBSET Nat
    PROVE  /\ FirstKeys(S) = {} => S = {}
           /\ \A k \in S, last \in FirstKeys(S) : k <= last => k \in FirstKeys(S)
<1> DEFINE Below(k) == {j \in S : j < k}
<1>1. MemtableThreshold \in Nat /\ 0 < MemtableThreshold
  BY SizesAssumption, SMT
<1>2. FirstKeys(S) = {k \in S : Cardinality(Below(k)) < MemtableThreshold}
  BY DEF FirstKeys
<1>3. ASSUME S # {} PROVE FirstKeys(S) # {}
  <2>1. PICK x \in S : \A y \in S : x <= y
    BY <1>3, LeastExists
  <2>2. \A y \in S : ~(y < x)
    BY <2>1, SMT
  <2>3. Below(x) = {}
    BY <2>2
  <2>4. Cardinality(Below(x)) = 0
    BY <2>3, FS_EmptySet
  <2> QED
    BY <1>1, <1>2, <2>4
<1>4. ASSUME NEW k \in S, NEW last \in FirstKeys(S), k <= last
      PROVE  k \in FirstKeys(S)
  <2>0. last \in S /\ Cardinality(Below(last)) < MemtableThreshold
    BY DEF FirstKeys
  <2>1. last \in S /\ last \in Nat /\ k \in Nat /\ Cardinality(Below(last)) < MemtableThreshold
    BY <2>0
  <2>2. Below(last) \subseteq 0 .. last
    <3>1. \A j \in S : j < last => j \in 0 .. last
      BY <2>1, SMT
    <3> QED
      BY <3>1
  <2>3. IsFiniteSet(0 .. last)
    BY <2>1, FS_Interval, SMT
  <2>4. IsFiniteSet(Below(last))
    BY <2>2, <2>3, FS_Subset
  <2>5. \A j \in S : j < k => j < last
    BY <1>4, <2>1, SMT
  <2>6. Below(k) \in SUBSET Below(last)
    BY <2>5
  <2>7. IsFiniteSet(Below(k)) /\ Cardinality(Below(k)) <= Cardinality(Below(last))
    BY <2>4, <2>6, FS_Subset
  <2>8. Cardinality(Below(k)) \in Nat /\ Cardinality(Below(last)) \in Nat
    BY <2>4, <2>7, FS_CardinalityType
  <2> DEFINE a == Cardinality(Below(k))
             b == Cardinality(Below(last))
  <2> HIDE DEF a, b
  <2>9. a < MemtableThreshold
    BY <1>1, <2>1, <2>7, <2>8, SMT DEF a, b
  <2> QED
    BY <1>2, <1>4, <2>9 DEF a
<1> QED
  BY <1>3, <1>4

\* The scan that finds keys passes over none that is live.
LEMMA ScanOk ==
    ASSUME IInv, CInv, DropOk(drop, hist), DropScan
    PROVE  /\ DropOk(drop', hist')
           /\ drop'.pc = "idle" => \A k \in TableKeys : Gone(hist, k, drop.from)
<1> DEFINE S == Droppable
           F == FirstKeys(S)
<1>1. /\ drop.pc = "scan" /\ drop.batch = {} /\ hist' = hist /\ mode = "up"
      /\ \A k \in TableKeys : k <= drop.cursor => Gone(hist, k, drop.from)
      /\ drop.from <= Len(hist)
  BY DEF DropScan, DropOk
<1>2. drop.cursor \in Int /\ TableKeys \subseteq Nat /\ TableKeys \subseteq Keys
  <2>1. drop.cursor \in Keys \cup {-1}
    BY DEF IInv, TypeOK
  <2>2. TableKeys \subseteq Nat /\ TableKeys \subseteq Keys /\ Keys \subseteq Nat
    BY KeysAssumption
  <2>3. \A c : c \in Keys \cup {-1} => c \in Int
    BY <2>2, SMT
  <2> QED
    BY <2>1, <2>2, <2>3
<1>3. ASSUME NEW k \in TableKeys, k > drop.cursor, k \notin S
      PROVE  Gone(hist, k, drop.from)
  <2>1. Live(GetLocked(k)) = 0
    BY <1>3 DEF Droppable
  <2>2. View(k) = 0 /\ View(k) = Live(LastWrite(k))
    BY <1>1, <1>2, <2>1, ReadsOfInvariant DEF View, Serving, ReadsSeeLastWrite
  <2> QED
    BY <2>2 DEF Gone, LastWrite, LastAt, Live, LiveAt
<1>4. \A k \in TableKeys : k <= drop.cursor \/ k > drop.cursor
  BY <1>2, SMT
<1>5. S \in SUBSET Nat
  BY <1>2 DEF Droppable
<1>6. (F = {} => S = {}) /\ \A k \in S, last \in F : k <= last => k \in F
  BY <1>5, FirstKeysFacts
<1>7. CASE F = {} /\ drop' = IdleDrop
  <2>1. \A k \in TableKeys : Gone(hist, k, drop.from)
    BY <1>1, <1>3, <1>4, <1>6, <1>7
  <2> QED
    BY <1>7, <2>1 DEF DropOk, IdleDrop
<1>8. ASSUME NEW last \in F, drop' = [drop EXCEPT !.pc = "lock", !.batch = F, !.cursor = last]
      PROVE  DropOk(drop', hist') /\ drop'.pc # "idle"
  <2>1. /\ drop'.pc = "lock" /\ drop'.batch = F /\ drop'.cursor = last
        /\ drop'.from = drop.from
    BY <1>8 DEF IInv, TypeOK
  <2>2. ASSUME NEW k \in TableKeys, k <= last, k \notin F PROVE Gone(hist, k, drop.from)
    BY <1>1, <1>3, <1>4, <1>6, <2>2
  <2> QED
    BY <1>1, <2>1, <2>2 DEF DropOk
<1>9. \/ F = {} /\ drop' = IdleDrop
      \/ \E last \in F : drop' = [drop EXCEPT !.pc = "lock", !.batch = F, !.cursor = last]
  BY DEF DropScan
<1> QED
  BY <1>7, <1>8, <1>9

-----------------------------------------------------------------------------
(* The theorems. *)

\* CInv: which writes the logs, the memtables and the files of the engine
\* hold, in every reachable state.
THEOREM ContentsInvariance ==
    ASSUME LogsReliable
    PROVE  Spec => []CInv
<1>1. Init => CInv
  BY InitCInv
<1>2. IInv /\ IInv' /\ CInv /\ [Next]_vars => CInv'
  BY NextCInv
<1> QED
  BY <1>1, <1>2, Invariance, PTL DEF Spec

\* get, put, flush, compaction, crash, recovery: a read always returns the
\* last write of its key, wherever that write is kept, and when the engine is
\* down its disk holds exactly that (lsm_engine.cpp get_locked,
\* recover_from_wal, load_sstables_from_manifest).
THEOREM ReadsReturnLastWrite ==
    ASSUME LogsReliable
    PROVE  Spec => []ReadsSeeLastWrite
<1>1. IInv /\ CInv => ReadsSeeLastWrite
  BY ReadsOfInvariant
<1> QED
  BY <1>1, Invariance, ContentsInvariance, PTL

\* put (lsm_engine.cpp): no crash takes an acknowledged write.
THEOREM AcknowledgedWritesSurvive ==
    ASSUME LogsReliable
    PROVE  Spec => []AckedWritesSurvive
<1>1. IInv /\ CInv => AckedWritesSurvive
  BY PartsOfInvariant
<1> QED
  BY <1>1, Invariance, ContentsInvariance, PTL

\* The promise per key, which the two runs with failing logs refute: without
\* those failures a read returns the last acknowledged write of its key, or a
\* later one.
THEOREM AcknowledgedWritesReadable ==
    ASSUME LogsReliable
    PROVE  Spec => []AckedWritesReadable
<1>1. IInv /\ CInv => AckedWritesReadable
  BY ReadableOfInvariant
<1> QED
  BY <1>1, Invariance, ContentsInvariance, PTL

\* rotate_memtable_if_needed and recover_from_wal: only the segment in use has
\* records that a crash can take.
THEOREM FrozenLogsDurable ==
    ASSUME LogsReliable
    PROVE  Spec => []TailOnlyInActive
<1>1. IInv /\ CInv => TailOnlyInActive
  BY PartsOfInvariant
<1> QED
  BY <1>1, Invariance, ContentsInvariance, PTL

\* flush_memtable and recover_from_wal: the segments on disk are those of the
\* memtables, and the one being deleted.
THEOREM LogsMatchMemtables ==
    ASSUME LogsReliable
    PROVE  Spec => []SegmentsMatchMemtables
<1>1. IInv /\ CInv => SegmentsMatchMemtables
  BY PartsOfInvariant
<1> QED
  BY <1>1, Invariance, ContentsInvariance, PTL

\* mutate (storage_engine.hpp): what a mutator saw is what its write replaces.
THEOREM MutateAtomic ==
    ASSUME LogsReliable
    PROVE  Spec => []MutateIsAtomic
<1> DEFINE Atomic == \A i \in DOMAIN hist : AtomicAt(hist, saw, i)
<1>1. Init => Atomic
  BY InitAtomic
<1>2. IInv /\ IInv' /\ CInv /\ Atomic /\ [Next]_vars => Atomic'
  BY NextAtomic
<1>3. Atomic => MutateIsAtomic
  BY MutateIsAtomicAt
<1> HIDE DEF Atomic
<1> QED
  BY <1>1, <1>2, <1>3, Invariance, ContentsInvariance, PTL DEF Spec

\* drop_table: DropInv, round by round.
THEOREM DropInvariance ==
    ASSUME LogsReliable
    PROVE  Spec => []DropInv
<1>1. Init => DropInv
  BY SMT DEF Init, DropInv, IdleDrop
<1>2. IInv /\ CInv /\ DropInv /\ [Next]_vars => DropInv'
  BY DropInvIsOk, NextDropOk, ScanOk
<1> QED
  BY <1>1, <1>2, Invariance, ContentsInvariance, PTL DEF Spec

\* drop_table (storage_engine.hpp): a key of the table that is live when the
\* call returns was written after the call began.
THEOREM DropTableEmpties ==
    ASSUME LogsReliable
    PROVE  Spec => DropEmptiesTable
<1> DEFINE Emptied == drop.pc = "scan" /\ drop'.pc = "idle" /\ mode' = "up" =>
                          \A k \in TableKeys : View(k) # 0 => LastWrite(k) > drop.from
<1>1. IInv /\ CInv /\ DropInv /\ [Next]_vars => [Emptied]_vars
  <2>1. SUFFICES ASSUME IInv, CInv, DropInv, Next, drop.pc = "scan", drop'.pc = "idle", mode' = "up"
                 PROVE  \A k \in TableKeys : View(k) # 0 => LastWrite(k) > drop.from
    OBVIOUS
  <2>2. DropScan
    <3>1. DropStep
      BY <2>1, StepsBesideDrop
    <3> QED
      BY <2>1, <3>1 DEF DropStep, DropStart, DropLock, DropRemove, DropCommit
  <2>3. \A k \in TableKeys : Gone(hist, k, drop.from)
    BY <2>1, <2>2, DropInvIsOk, ScanOk
  <2>4. \A k \in TableKeys : View(k) = Live(LastWrite(k))
    BY <2>1, ReadsOfInvariant, KeysAssumption DEF ReadsSeeLastWrite
  <2> QED
    BY <2>3, <2>4 DEF Gone, LastWrite, LastAt, Live, LiveAt
<1> QED
  BY <1>1, Invariance, ContentsInvariance, DropInvariance, PTL DEF Spec, DropEmptiesTable

\* LsmEngine implements StorageEngine: a map that writes change at once, and
\* that a restart shortens by unacknowledged writes only.
THEOREM ImplementsStorageEngine ==
    ASSUME LogsReliable
    PROVE  Spec => RefinesStorageEngine
<1> DEFINE Mapped == Contents = ContentOf(hist) /\ hist \in WriteSeq
<1>1. IInv /\ CInv => Mapped
  BY ContentsOfHistory DEF IInv, TypeOK, WriteSeq
<1>2. Mapped' => Contents' = ContentOf(hist') /\ hist' \in WriteSeq
  BY DEF ContentOf, LastAt, LiveAt, WriteSeq
<1>3. Init /\ Mapped => Abstract!Init
  BY InitRefines
<1>4. IInv /\ CInv /\ Mapped /\ Mapped' /\ [Next]_vars => [Abstract!Next]_(Abstract!vars)
  BY <1>2, NextRefines
<1> HIDE DEF Mapped
<1> QED
  BY <1>1, <1>3, <1>4, Invariance, ContentsInvariance, PTL DEF Spec, RefinesStorageEngine, Abstract!Spec

=============================================================================
