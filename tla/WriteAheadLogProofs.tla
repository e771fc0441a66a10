------------------------- MODULE WriteAheadLogProofs -------------------------
(***************************************************************************)
(* Group commit is durable for any number of threads and calls: every      *)
(* record whose commit() returned true before a flush or an fdatasync      *)
(* failed is replayed after a crash, whatever fails later.                 *)
(*                                                                         *)
(* The argument follows one caller through commit(): what it appended is   *)
(* within needed, needed within target once the file is flushed, target    *)
(* within flushed, and within device once fdatasync has returned, unless   *)
(* one of the two has failed.  Every return before the first failure       *)
(* therefore leaves what was acknowledged within synced, and synced within *)
(* what a crash preserves.  A failure takes nothing back from the          *)
(* operating system or the device, so what was acknowledged by then stays. *)
(***************************************************************************)
EXTENDS WriteAheadLog, TLAPS

\* The faults that make a commit() publish what is not durable.
SyncFaults == Faults \cap {"stream", "fdatasync", "descriptor"}

\* A caller's own records, the count it waits for and the count it flushed
\* are nested once it has taken the respective step.
CallerInv(c) ==
    /\ mine[c] <= appended
    /\ needed[c] <= appended
    /\ target[c] <= appended
    /\ pc[c] \in {"lock", "holding", "fsync", "publish"} => mine[c] <= needed[c]
    /\ pc[c] \in {"fsync", "publish"} => needed[c] <= target[c]
    /\ pc[c] \in {"fsync", "publish"} /\ ~failed => target[c] <= flushed
    /\ pc[c] = "publish" /\ ~failed /\ fsyncEach => target[c] <= device
    /\ pc[c] # "idle" => isOpen

\* What commit() has published is covered, and covers what was acknowledged,
\* until something fails.
PublishedInv ==
    ~failed => /\ acked = firm
               /\ firm <= synced
               /\ synced <= flushed
               /\ fsyncEach => synced <= device

\* What was acknowledged by then stays covered.
FirmInv ==
    /\ firm <= flushed
    /\ fsyncEach => firm <= device

\* What replay() finds after the crash.
CrashInv ==
    /\ crash = "kill" => survivors = flushed
    /\ crash = "power" => survivors >= device

\* Nothing fails unless the environment lets it.
FaultInv ==
    SyncFaults = {} => /\ ~failed
                       /\ ~streamBad
                       /\ fsyncEach /\ isOpen => syncFd

IInv ==
    /\ TypeOK
    /\ \A c \in Callers : CallerInv(c)
    /\ PublishedInv
    /\ FirmInv
    /\ CrashInv
    /\ FaultInv

\* The larger of two offsets is one of them and at least both.
LEMMA HigherFacts ==
    ASSUME NEW a \in Nat, NEW b \in Nat
    PROVE  Higher(a, b) \in Nat /\ Higher(a, b) >= a /\ Higher(a, b) >= b
               /\ (Higher(a, b) = a \/ Higher(a, b) = b)
BY DEF Higher

\* A new segment, with no call in progress, satisfies the invariant.
LEMMA InitIInv == Init => IInv
<1> SUFFICES ASSUME Init PROVE IInv
  OBVIOUS
<1>1. fsyncEach \in BOOLEAN /\ isOpen \in BOOLEAN /\ syncFd \in BOOLEAN
  BY ModeAssumption DEF Init
<1>2. /\ syncMutex \in Callers \cup {NoCaller}
      /\ pc \in [Callers -> {"idle", "load", "lock", "holding", "fsync", "publish"}]
      /\ mine \in [Callers -> Nat] /\ needed \in [Callers -> Nat] /\ target \in [Callers -> Nat]
      /\ ok \in [Callers -> BOOLEAN]
      /\ calls \in [Callers -> 0 .. MaxCalls]
  BY MaxCallsAssumption DEF Init
<1>3. /\ appended = 0 /\ synced = 0 /\ flushed = 0 /\ device = 0
      /\ streamBad = FALSE /\ survivors = 0 /\ crash = "none"
      /\ acked = 0 /\ failed = FALSE /\ firm = 0
  BY DEF Init
<1>4. TypeOK
  <2>1. streamBad \in BOOLEAN /\ failed \in BOOLEAN /\ crash \in {"none", "kill", "power"}
    BY <1>3, Zenon
  <2>2. /\ appended \in Nat /\ synced \in 0 .. appended /\ flushed \in 0 .. appended
        /\ device \in 0 .. flushed /\ survivors \in Nat /\ acked \in Nat /\ firm \in Nat
    BY <1>3
  <2> QED
    BY <1>1, <1>2, <2>1, <2>2, Zenon DEF TypeOK
<1>5. ASSUME NEW c \in Callers PROVE CallerInv(c)
  <2>1. pc[c] = "idle" /\ mine[c] = 0 /\ needed[c] = 0 /\ target[c] = 0
    BY DEF Init
  <2> QED
    BY <1>3, <2>1 DEF CallerInv
<1>6. PublishedInv /\ FirmInv /\ CrashInv
  BY <1>3 DEF PublishedInv, FirmInv, CrashInv
<1>7. FaultInv
  <2>1. SyncFaults = {} => (fsyncEach /\ isOpen => syncFd)
    BY <1>1 DEF Init, SyncFaults
  <2> QED
    BY <1>3, <2>1 DEF FaultInv
<1> QED
  BY <1>4, <1>5, <1>6, <1>7 DEF IInv

\* What a return of commit() does to the history, when the record it is about
\* is within what the code has published.
LEMMA AcknowledgeFacts ==
    ASSUME NEW c \in Callers, TypeOK, Acknowledge(c)
    PROVE  /\ acked' \in Nat /\ firm' \in Nat /\ failed' = failed
           /\ failed => firm' = firm
           /\ ~failed => firm' = firm \/ firm' = mine[c]
           /\ ~failed /\ acked = firm => acked' = firm'
<1>1. acked \in Nat /\ firm \in Nat /\ mine[c] \in Nat /\ failed \in BOOLEAN
  BY DEF TypeOK
<1>2. acked' = Higher(acked, mine[c]) /\ failed' = failed
  BY DEF Acknowledge
<1>3. firm' = IF failed THEN firm ELSE Higher(firm, mine[c])
  BY DEF Acknowledge
<1>4. acked' \in Nat
  BY <1>1, <1>2, HigherFacts
<1>5. Higher(firm, mine[c]) \in Nat /\ (Higher(firm, mine[c]) = firm \/ Higher(firm, mine[c]) = mine[c])
  BY <1>1, HigherFacts
<1> QED
  BY <1>1, <1>2, <1>3, <1>4, <1>5

\* Every step of commit() and of its environment keeps the invariant.
LEMMA NextIInv == IInv /\ [Next]_vars => IInv'
<1> SUFFICES ASSUME IInv, [Next]_vars PROVE IInv'
  OBVIOUS
<1> USE CallersAssumption, ModeAssumption, FaultsAssumption, MaxCallsAssumption DEF IInv
<1>1. ASSUME NEW c \in Callers, AppendOnly(c) PROVE IInv'
  <2> USE <1>1 DEF AppendOnly, Enter, endVars, modeVars, history
  <2>1. TypeOK'
    BY DEF TypeOK
  <2>2. ASSUME NEW d \in Callers PROVE CallerInv(d)'
    BY <2>2 DEF TypeOK, CallerInv
  <2>3. PublishedInv' /\ FirmInv' /\ CrashInv'
    BY DEF PublishedInv, FirmInv, CrashInv, TypeOK
  <2>4. FaultInv'
    BY DEF FaultInv, SyncFaults, TypeOK
  <2> QED
    BY <2>1, <2>2, <2>3, <2>4
<1>2. ASSUME NEW c \in Callers, AppendFails(c) PROVE IInv'
  <2> USE <1>2 DEF AppendFails, Enter, endVars, modeVars, history
  <2>1. TypeOK'
    <3>1. calls' \in [Callers -> 0 .. MaxCalls]
      BY DEF TypeOK
    <3>2. streamBad' \in BOOLEAN
      BY Zenon DEF TypeOK
    <3>3. flushed' = flushed \/ flushed' \in flushed .. appended
      BY Zenon
    <3>4. flushed' \in 0 .. appended /\ device \in 0 .. flushed'
      <4>1. /\ flushed \in Nat /\ appended \in Nat /\ device \in Nat
            /\ device <= flushed /\ flushed <= appended
        BY DEF TypeOK
      <4>2. flushed' \in Nat /\ flushed <= flushed' /\ flushed' <= appended
        BY ONLY <3>3, <4>1
      <4> QED
        BY ONLY <4>1, <4>2
    <3> QED
      BY <3>1, <3>2, <3>4, Zenon DEF TypeOK
  <2>2. ASSUME NEW d \in Callers PROVE CallerInv(d)'
    BY <2>2 DEF TypeOK, CallerInv
  <2>3. PublishedInv' /\ FirmInv' /\ CrashInv'
    BY DEF PublishedInv, FirmInv, CrashInv, TypeOK
  <2>4. FaultInv'
    BY DEF FaultInv, SyncFaults, TypeOK
  <2> QED
    BY <2>1, <2>2, <2>3, <2>4
<1>3. ASSUME NEW c \in Callers, Sync(c) PROVE IInv'
  <2> USE <1>3 DEF Sync, Enter, fileVars, endVars, modeVars, history
  <2>1. TypeOK'
    BY DEF TypeOK
  <2>2. ASSUME NEW d \in Callers PROVE CallerInv(d)'
    BY <2>2 DEF TypeOK, CallerInv
  <2>3. PublishedInv' /\ FirmInv' /\ CrashInv'
    BY DEF PublishedInv, FirmInv, CrashInv, TypeOK
  <2>4. FaultInv'
    BY DEF FaultInv, SyncFaults, TypeOK
  <2> QED
    BY <2>1, <2>2, <2>3, <2>4
<1>4. ASSUME NEW c \in Callers, Refuse(c) PROVE IInv'
  <2> USE <1>4 DEF Refuse, Enter, fileVars, endVars, modeVars, history
  <2>1. TypeOK'
    BY DEF TypeOK
  <2>2. ASSUME NEW d \in Callers PROVE CallerInv(d)'
    BY <2>2 DEF TypeOK, CallerInv
  <2>3. PublishedInv' /\ FirmInv' /\ CrashInv'
    BY DEF PublishedInv, FirmInv, CrashInv, TypeOK
  <2>4. FaultInv'
    BY DEF FaultInv, SyncFaults, TypeOK
  <2> QED
    BY <2>1, <2>2, <2>3, <2>4
<1>5. ASSUME NEW c \in Callers, LoadNeeded(c) PROVE IInv'
  <2> USE <1>5 DEF LoadNeeded, fileVars, endVars, modeVars, history
  <2>1. TypeOK'
    BY DEF TypeOK
  <2>2. ASSUME NEW d \in Callers PROVE CallerInv(d)'
    BY <2>2 DEF TypeOK, CallerInv
  <2>3. PublishedInv' /\ FirmInv' /\ CrashInv'
    BY DEF PublishedInv, FirmInv, CrashInv, TypeOK
  <2>4. FaultInv'
    BY DEF FaultInv, SyncFaults, TypeOK
  <2> QED
    BY <2>1, <2>2, <2>3, <2>4
<1>6. ASSUME NEW c \in Callers, LockSync(c) PROVE IInv'
  <2> USE <1>6 DEF LockSync, fileVars, endVars, modeVars, history
  <2>1. TypeOK'
    BY DEF TypeOK
  <2>2. ASSUME NEW d \in Callers PROVE CallerInv(d)'
    BY <2>2 DEF TypeOK, CallerInv
  <2>3. PublishedInv' /\ FirmInv' /\ CrashInv'
    BY DEF PublishedInv, FirmInv, CrashInv, TypeOK
  <2>4. FaultInv'
    BY DEF FaultInv, SyncFaults, TypeOK
  <2> QED
    BY <2>1, <2>2, <2>3, <2>4
<1>7. ASSUME NEW c \in Callers, ReturnCovered(c) PROVE IInv'
  <2> USE <1>7 DEF ReturnCovered, Return, fileVars, endVars, modeVars
  <2>1. /\ acked' \in Nat /\ firm' \in Nat /\ failed' = failed
        /\ failed => firm' = firm
        /\ ~failed => firm' = firm \/ firm' = mine[c]
        /\ ~failed /\ acked = firm => acked' = firm'
    BY AcknowledgeFacts
  <2>2. mine[c] <= synced
    <3>1. mine[c] \in Nat /\ synced \in Nat /\ needed[c] \in Nat
      BY DEF TypeOK
    <3> QED
      BY <3>1 DEF CallerInv, Covered
  <2>3. TypeOK'
    BY <2>1 DEF TypeOK
  <2>4. ASSUME NEW d \in Callers PROVE CallerInv(d)'
    BY <2>1, <2>4 DEF TypeOK, CallerInv
  <2>5. PublishedInv' /\ FirmInv' /\ CrashInv'
    BY <2>1, <2>2 DEF PublishedInv, FirmInv, CrashInv, TypeOK
  <2>6. FaultInv'
    BY <2>1 DEF FaultInv, SyncFaults
  <2> QED
    BY <2>3, <2>4, <2>5, <2>6
<1>8. ASSUME NEW c \in Callers, Flush(c) PROVE IInv'
  <2> USE <1>8 DEF Flush, endVars, modeVars, history
  <2>1. TypeOK'
    BY DEF TypeOK
  <2>2. ASSUME NEW d \in Callers PROVE CallerInv(d)'
    BY <2>2 DEF TypeOK, CallerInv
  <2>3. PublishedInv' /\ FirmInv' /\ CrashInv'
    BY DEF PublishedInv, FirmInv, CrashInv, TypeOK
  <2>4. FaultInv'
    BY DEF FaultInv, SyncFaults, TypeOK
  <2> QED
    BY <2>1, <2>2, <2>3, <2>4
<1>9. ASSUME NEW c \in Callers, FlushFails(c) PROVE IInv'
  <2> USE <1>9 DEF FlushFails, endVars, modeVars, history
  <2>1. TypeOK'
    BY DEF TypeOK
  <2>2. ASSUME NEW d \in Callers PROVE CallerInv(d)'
    BY <2>2 DEF TypeOK, CallerInv
  <2>3. PublishedInv' /\ FirmInv' /\ CrashInv'
    BY DEF PublishedInv, FirmInv, CrashInv, TypeOK
  <2>4. FaultInv'
    BY DEF FaultInv, SyncFaults, TypeOK
  <2> QED
    BY <2>1, <2>2, <2>3, <2>4
<1>10. ASSUME NEW c \in Callers, Fdatasync(c) PROVE IInv'
  <2> USE <1>10 DEF endVars, modeVars
  <2>1. /\ device' \in device .. flushed
        /\ failed' \in BOOLEAN
        /\ failed => failed'
        /\ ~failed' /\ fsyncEach => device' >= target[c]
        /\ SyncFaults = {} => ~failed'
    <3>1. /\ device \in Nat /\ target[c] \in Nat /\ flushed \in Nat /\ device <= flushed
          /\ failed \in BOOLEAN /\ fsyncEach \in BOOLEAN /\ syncFd \in BOOLEAN
      BY DEF TypeOK
    <3>2. ~failed => target[c] <= flushed
      BY DEF CallerInv, Fdatasync
    <3>3. CASE /\ syncFd /\ device' \in device .. flushed
               /\ device' >= target[c] \/ device' = flushed
               /\ failed' = failed
      <4>1. ~failed => device' >= target[c]
        BY <3>1, <3>2, <3>3
      <4> QED
        BY <3>1, <3>3, <4>1 DEF FaultInv
    <3>4. CASE /\ syncFd => "fdatasync" \in Faults
               /\ device' = device
               /\ failed' = (failed \/ fsyncEach)
      <4>1. SyncFaults = {} => ~failed'
        BY <3>1, <3>4 DEF FaultInv, SyncFaults, CallerInv, Fdatasync
      <4> QED
        BY <3>1, <3>4, <4>1
    <3> QED
      BY <3>3, <3>4 DEF Fdatasync
  <2> USE DEF Fdatasync
  <2>2. TypeOK'
    BY <2>1 DEF TypeOK
  <2>3. ASSUME NEW d \in Callers PROVE CallerInv(d)'
    BY <2>1, <2>3 DEF TypeOK, CallerInv
  <2>4. PublishedInv' /\ FirmInv' /\ CrashInv'
    BY <2>1 DEF PublishedInv, FirmInv, CrashInv, TypeOK
  <2>5. FaultInv'
    BY <2>1 DEF FaultInv
  <2> QED
    BY <2>2, <2>3, <2>4, <2>5
<1>11. ASSUME NEW c \in Callers, Publish(c) PROVE IInv'
  <2> USE <1>11 DEF Publish, Return, endVars, modeVars
  <2>1. /\ acked' \in Nat /\ firm' \in Nat /\ failed' = failed
        /\ failed => firm' = firm
        /\ ~failed => firm' = firm \/ firm' = mine[c]
        /\ ~failed /\ acked = firm => acked' = firm'
    <3>1. CASE ok[c]
      BY <3>1, AcknowledgeFacts
    <3>2. CASE ~ok[c]
      BY <3>2 DEF history, TypeOK
    <3> QED
      BY <3>1, <3>2
  <2>2. /\ synced' \in 0 .. appended
        /\ synced' >= synced /\ synced' >= mine[c]
        /\ ~failed => synced' <= flushed
        /\ ~failed /\ fsyncEach => synced' <= device
    <3>1. /\ mine[c] \in Nat /\ synced \in Nat /\ needed[c] \in Nat /\ appended \in Nat
          /\ target[c] \in Nat /\ flushed \in Nat /\ device \in Nat /\ synced <= appended
      BY DEF TypeOK
    <3>2. mine[c] <= target[c] /\ target[c] <= appended
      BY <3>1 DEF CallerInv
    <3>3. /\ ~failed => target[c] <= flushed
          /\ ~failed /\ fsyncEach => target[c] <= device
      BY DEF CallerInv
    <3>4. /\ ~failed => synced <= flushed
          /\ ~failed /\ fsyncEach => synced <= device
      BY DEF PublishedInv
    <3>5. /\ synced' \in Nat /\ synced' >= target[c]
          /\ synced' >= synced /\ (synced' = synced \/ synced' = target[c])
      BY <3>1, HigherFacts
    <3> QED
      BY <3>1, <3>2, <3>3, <3>4, <3>5
  <2>3. TypeOK'
    BY <2>1, <2>2 DEF TypeOK
  <2>4. ASSUME NEW d \in Callers PROVE CallerInv(d)'
    BY <2>1, <2>4 DEF TypeOK, CallerInv
  <2>5. PublishedInv'
    BY <2>1, <2>2 DEF PublishedInv, TypeOK
  <2>6. FirmInv' /\ CrashInv'
    <3>1. mine[c] \in Nat /\ firm \in Nat /\ synced \in Nat /\ flushed \in Nat /\ device \in Nat
      BY DEF TypeOK
    <3> QED
      BY <2>1, <2>2, <3>1 DEF FirmInv, CrashInv, PublishedInv
  <2>7. FaultInv'
    BY <2>1 DEF FaultInv, SyncFaults
  <2> QED
    BY <2>3, <2>4, <2>5, <2>6, <2>7
<1>12. CASE SpillBuffer
  <2> USE <1>12 DEF SpillBuffer, localVars, endVars, modeVars, history
  <2>1. TypeOK'
    BY DEF TypeOK
  <2>2. ASSUME NEW d \in Callers PROVE CallerInv(d)'
    BY <2>2 DEF TypeOK, CallerInv
  <2>3. PublishedInv' /\ FirmInv' /\ CrashInv' /\ FaultInv'
    BY DEF PublishedInv, FirmInv, CrashInv, FaultInv, SyncFaults, TypeOK
  <2> QED
    BY <2>1, <2>2, <2>3
<1>13. CASE WriteBack
  <2> USE <1>13 DEF WriteBack, localVars, endVars, modeVars, history
  <2>1. TypeOK'
    BY DEF TypeOK
  <2>2. ASSUME NEW d \in Callers PROVE CallerInv(d)'
    BY <2>2 DEF TypeOK, CallerInv
  <2>3. PublishedInv' /\ FirmInv' /\ CrashInv' /\ FaultInv'
    BY DEF PublishedInv, FirmInv, CrashInv, FaultInv, SyncFaults, TypeOK
  <2> QED
    BY <2>1, <2>2, <2>3
<1>14. CASE KillProcess
  <2> USE <1>14 DEF KillProcess, fileVars, localVars, modeVars, history
  <2>1. TypeOK'
    BY DEF TypeOK
  <2>2. ASSUME NEW d \in Callers PROVE CallerInv(d)'
    BY <2>2 DEF TypeOK, CallerInv
  <2>3. PublishedInv' /\ FirmInv' /\ CrashInv' /\ FaultInv'
    BY DEF PublishedInv, FirmInv, CrashInv, FaultInv, SyncFaults, TypeOK
  <2> QED
    BY <2>1, <2>2, <2>3
<1>15. CASE LosePower
  <2> USE <1>15 DEF LosePower, fileVars, localVars, modeVars, history
  <2>1. TypeOK'
    BY DEF TypeOK
  <2>2. ASSUME NEW d \in Callers PROVE CallerInv(d)'
    BY <2>2 DEF TypeOK, CallerInv
  <2>3. PublishedInv' /\ FirmInv' /\ CrashInv' /\ FaultInv'
    BY DEF PublishedInv, FirmInv, CrashInv, FaultInv, SyncFaults, TypeOK
  <2> QED
    BY <2>1, <2>2, <2>3
<1>16. CASE UNCHANGED vars
  BY <1>16 DEF vars, fileVars, localVars, endVars, modeVars, history, TypeOK, CallerInv,
               PublishedInv, FirmInv, CrashInv, FaultInv, SyncFaults
<1> QED
  BY <1>1, <1>2, <1>3, <1>4, <1>5, <1>6, <1>7, <1>8, <1>9, <1>10, <1>11, <1>12, <1>13, <1>14,
     <1>15, <1>16 DEF Next, Call, Step

\* The invariant holds throughout every run of the segment.
THEOREM Invariance == Spec => []IInv
BY InitIInv, NextIInv, PTL DEF Spec

\* Type correctness, and the nesting of buffer, operating system and device.
THEOREM TypeCorrect == Spec => []TypeOK
<1>1. IInv => TypeOK
  BY DEF IInv
<1> QED
  BY <1>1, Invariance, PTL

\* Up to the first failing flush or fdatasync, synced_ is never ahead of the
\* device: a caller that returns early because of it (wal.cpp:126) relies on a
\* completed fdatasync.
THEOREM SyncedDurable == Spec => []SyncedIsDurable
<1>1. IInv => SyncedIsDurable
  BY DEF IInv, PublishedInv, SyncedIsDurable
<1> QED
  BY <1>1, Invariance, PTL

\* Every record whose commit() returned true before a flush or an fdatasync
\* failed is replayed after the crash, however many threads share their
\* fdatasyncs and whatever fails later.
THEOREM GroupCommitDurable == Spec => []AckedBeforeFailureSurvives
<1>1. IInv => AckedBeforeFailureSurvives
  BY DEF IInv, TypeOK, FirmInv, CrashInv, AckedBeforeFailureSurvives, Preserving
<1> QED
  BY <1>1, Invariance, PTL

\* What wal.hpp promises of every acknowledged record holds where neither the
\* stream nor fdatasync fails and the descriptor could be opened.
THEOREM FaultFreeDurable == ASSUME SyncFaults = {} PROVE Spec => []AckedSurvivesCrash
<1>1. IInv => AckedSurvivesCrash
  BY DEF IInv, TypeOK, PublishedInv, FirmInv, CrashInv, FaultInv, AckedSurvivesCrash, Preserving
<1> QED
  BY <1>1, Invariance, PTL

=============================================================================
