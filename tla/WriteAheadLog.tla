---------------------------- MODULE WriteAheadLog ----------------------------
(***************************************************************************)
(* One WAL segment: class WriteAheadLog (src/src/engine/lsm/wal.cpp).      *)
(*                                                                         *)
(* Records are counted, not spelled out: record n is the n-th one written  *)
(* to the file.  A record moves through three places, and each holds a     *)
(* prefix of the one before:                                               *)
(*                                                                         *)
(*    appended  records written to file_ (the ostream buffer included)     *)
(*    flushed   records the operating system has                           *)
(*    device    records on stable storage                                  *)
(*                                                                         *)
(* mutex_ is held for one short section at a time, so each section is one  *)
(* action.  sync_mutex_ is held across several of them and is a variable.  *)
(*                                                                         *)
(* What the environment may let fail: "stream", a write of file_ to the    *)
(* operating system, after which the stream stays bad; "fdatasync";        *)
(* "descriptor", the opening of sync_fd_; "header", the file's header,     *)
(* which leaves the segment closed.                                        *)
(***************************************************************************)
EXTENDS Integers, FiniteSets

CONSTANTS
    Callers,        \* threads that use the segment
    NoCaller,       \* value of syncMutex when nobody holds it
    FsyncModes,     \* values CYNAMODB_WAL_FSYNC may give fsync_each_
    Faults,         \* what the environment lets fail
    MaxCalls        \* bound: calls made by each thread

ASSUME CallersAssumption == NoCaller \notin Callers
ASSUME ModeAssumption == FsyncModes \subseteq BOOLEAN
ASSUME FaultsAssumption == Faults \subseteq {"stream", "fdatasync", "descriptor", "header"}
ASSUME MaxCallsAssumption == MaxCalls \in Nat

VARIABLES
    fsyncEach,      \* fsync_each_
    isOpen,         \* file_.is_open()
    syncFd,         \* sync_fd_ >= 0
    streamBad,      \* ~file_.good()
    appended,       \* appended_
    synced,         \* synced_: what the code believes to be durable
    syncMutex,      \* holder of sync_mutex_
    flushed,        \* records in the operating system
    device,         \* records on stable storage
    pc,             \* where each thread is
    mine,           \* the record each call is about, 0 for none
    needed,         \* the local variable of commit()
    target,         \* the local variable of commit()
    ok,             \* the local variable of commit()
    calls,          \* calls each thread has made
    survivors,      \* records replay() returns after the crash
    crash,          \* "none", or the kind of crash that ended the run
    \* History, read by the properties only:
    acked,          \* highest record whose append() or commit() returned true
    failed,         \* a flush or an fdatasync of commit() did not do its work
    firm            \* highest record acknowledged before that

fileVars == <<appended, synced, flushed, device, streamBad>>
localVars == <<pc, mine, needed, target, ok, calls>>
modeVars == <<fsyncEach, isOpen, syncFd>>
endVars == <<modeVars, survivors, crash>>
history == <<acked, failed, firm>>
vars == <<fileVars, syncMutex, localVars, endVars, history>>

Higher(a, b) == IF a >= b THEN a ELSE b

-----------------------------------------------------------------------------
(* What a return of commit() promises. *)

\* commit() returns true: the caller's record counts as durable.
Acknowledge(c) ==
    /\ acked' = Higher(acked, mine[c])
    /\ firm' = IF failed THEN firm ELSE Higher(firm, mine[c])
    /\ UNCHANGED failed

\* commit() returns; its local variables are gone.
Return(c) ==
    /\ pc' = [pc EXCEPT ![c] = "idle"]
    /\ mine' = [mine EXCEPT ![c] = 0]
    /\ needed' = [needed EXCEPT ![c] = 0]
    /\ target' = [target EXCEPT ![c] = 0]
    /\ ok' = [ok EXCEPT ![c] = FALSE]

-----------------------------------------------------------------------------
(* Mutations of the definitions below: plausible slips in this code. *)

\* commit() reads appended_ after fdatasync instead of before it.
PublishLateTarget(c) ==
    /\ crash = "none"
    /\ pc[c] = "publish"
    /\ synced' = Higher(synced, appended)
    /\ syncMutex' = NoCaller
    /\ IF ok[c] THEN Acknowledge(c) ELSE UNCHANGED history
    /\ Return(c)
    /\ UNCHANGED <<appended, flushed, device, streamBad, calls, endVars>>

\* The device credited with records that are still in the stream buffer.
FdatasyncOfBuffer(c) ==
    /\ crash = "none"
    /\ pc[c] = "fsync"
    /\ device' = appended
    /\ pc' = [pc EXCEPT ![c] = "publish"]
    /\ UNCHANGED <<appended, synced, flushed, streamBad, syncMutex, mine, needed, target, ok,
                   calls, endVars, history>>

\* commit() trusts the file as soon as another caller has flushed it.
CoveredWhenFlushed(c) == flushed >= needed[c]

\* commit() returns early without releasing sync_mutex_.
CoveredKeepsMutex(c) ==
    /\ crash = "none"
    /\ pc[c] = "holding"
    /\ synced >= needed[c]
    /\ Acknowledge(c)
    /\ Return(c)
    /\ UNCHANGED <<fileVars, syncMutex, calls, endVars>>

-----------------------------------------------------------------------------
(* A freshly created segment; the header is not a record. *)
Init ==
    /\ appended = 0 /\ synced = 0 /\ flushed = 0 /\ device = 0
    /\ streamBad = FALSE
    /\ syncMutex = NoCaller
    /\ pc = [c \in Callers |-> "idle"]
    /\ mine = [c \in Callers |-> 0]
    /\ needed = [c \in Callers |-> 0]
    /\ target = [c \in Callers |-> 0]
    /\ ok = [c \in Callers |-> FALSE]
    /\ calls = [c \in Callers |-> 0]
    /\ fsyncEach \in FsyncModes
    /\ isOpen \in {TRUE} \cup {b \in BOOLEAN : "header" \in Faults}
    /\ syncFd \in {fsyncEach /\ isOpen} \cup {b \in {FALSE} : "descriptor" \in Faults}
    /\ survivors = 0
    /\ crash = "none"
    /\ acked = 0 /\ failed = FALSE /\ firm = 0

\* A thread starts a call of append(), append_only() or sync().
Enter(c) ==
    /\ crash = "none"
    /\ pc[c] = "idle"
    /\ calls[c] < MaxCalls
    /\ calls' = [calls EXCEPT ![c] = @ + 1]

\* append_only(): write_record and the increment of appended_, under mutex_.
\* The caller goes on to commit(), as append() and the engine do.
AppendOnly(c) ==
    /\ Enter(c)
    /\ isOpen /\ ~streamBad
    /\ appended' = appended + 1
    /\ mine' = [mine EXCEPT ![c] = appended + 1]
    /\ pc' = [pc EXCEPT ![c] = "load"]
    /\ UNCHANGED <<synced, syncMutex, flushed, device, streamBad, needed, target, ok, endVars, history>>

\* append_only() returns false: the stream is bad, or becomes so while it
\* passes a part of its buffer on.  The record is not counted.  A caller that
\* commits all the same, as the engine does, calls Sync next.
AppendFails(c) ==
    /\ Enter(c)
    /\ isOpen
    /\ \/ streamBad /\ UNCHANGED <<flushed, streamBad>>
       \/ /\ "stream" \in Faults /\ ~streamBad
          /\ streamBad' = TRUE
          /\ flushed' \in flushed .. appended
    /\ UNCHANGED <<appended, synced, device, syncMutex, pc, mine, needed, target, ok, endVars, history>>

\* sync(): commit() by a thread that appended nothing of its own (rotation,
\* destructor).  It promises the durability of all it finds appended.
Sync(c) ==
    /\ Enter(c)
    /\ isOpen
    /\ mine' = [mine EXCEPT ![c] = appended]
    /\ pc' = [pc EXCEPT ![c] = "load"]
    /\ UNCHANGED <<fileVars, syncMutex, needed, target, ok, endVars, history>>

\* append_only() and commit() on a segment that is not open return false.
Refuse(c) ==
    /\ Enter(c)
    /\ ~isOpen
    /\ UNCHANGED <<fileVars, syncMutex, pc, mine, needed, target, ok, endVars, history>>

\* commit(): needed = appended_.load()
LoadNeeded(c) ==
    /\ crash = "none"
    /\ pc[c] = "load"
    /\ needed' = [needed EXCEPT ![c] = appended]
    /\ pc' = [pc EXCEPT ![c] = "lock"]
    /\ UNCHANGED <<fileVars, syncMutex, mine, target, ok, calls, endVars, history>>

\* commit(): sync_lock(sync_mutex_)
LockSync(c) ==
    /\ crash = "none"
    /\ pc[c] = "lock"
    /\ syncMutex = NoCaller
    /\ syncMutex' = c
    /\ pc' = [pc EXCEPT ![c] = "holding"]
    /\ UNCHANGED <<fileVars, mine, needed, target, ok, calls, endVars, history>>

\* The test that lets a caller share the fdatasync of another one.
Covered(c) == synced >= needed[c]

\* commit(): the early return of a caller whose records are already durable.
ReturnCovered(c) ==
    /\ crash = "none"
    /\ pc[c] = "holding"
    /\ Covered(c)
    /\ syncMutex' = NoCaller
    /\ Acknowledge(c)
    /\ Return(c)
    /\ UNCHANGED <<fileVars, calls, endVars>>

\* commit(): file_.flush() and target = appended_, both under mutex_.
Flush(c) ==
    /\ crash = "none"
    /\ pc[c] = "holding"
    /\ ~Covered(c)
    /\ ~streamBad
    /\ flushed' = appended
    /\ target' = [target EXCEPT ![c] = appended]
    /\ ok' = [ok EXCEPT ![c] = TRUE]
    /\ pc' = [pc EXCEPT ![c] = "fsync"]
    /\ UNCHANGED <<appended, synced, streamBad, syncMutex, device, mine, needed, calls, endVars, history>>

\* The same with a stream that is bad, or becomes so: a part of the buffer may
\* have been written, target is taken all the same and commit() goes on.
FlushFails(c) ==
    /\ crash = "none"
    /\ pc[c] = "holding"
    /\ ~Covered(c)
    /\ streamBad \/ ("stream" \in Faults /\ flushed < appended)
    /\ streamBad' = TRUE
    /\ flushed' \in flushed .. appended
    /\ target' = [target EXCEPT ![c] = appended]
    /\ ok' = [ok EXCEPT ![c] = FALSE]
    /\ failed' = TRUE
    /\ pc' = [pc EXCEPT ![c] = "fsync"]
    /\ UNCHANGED <<appended, synced, syncMutex, device, mine, needed, calls, endVars, acked, firm>>

\* commit(): fdatasync(sync_fd_), outside mutex_, if there is a descriptor; its
\* result is ignored.  When it works the device has at least what was flushed
\* before the call.
Fdatasync(c) ==
    /\ crash = "none"
    /\ pc[c] = "fsync"
    /\ \/ /\ syncFd
          /\ device' \in device .. flushed
          /\ device' >= target[c] \/ device' = flushed
          /\ UNCHANGED failed
       \/ /\ syncFd => "fdatasync" \in Faults
          /\ UNCHANGED device
          /\ failed' = (failed \/ fsyncEach)
    /\ pc' = [pc EXCEPT ![c] = "publish"]
    /\ UNCHANGED <<appended, synced, flushed, streamBad, syncMutex, mine, needed, target, ok,
                   calls, endVars, acked, firm>>

\* commit(): synced_ = max(synced_, target), whatever became of the flush and
\* of fdatasync; release of sync_mutex_; return ok.
Publish(c) ==
    /\ crash = "none"
    /\ pc[c] = "publish"
    /\ synced' = Higher(synced, target[c])
    /\ syncMutex' = NoCaller
    /\ IF ok[c] THEN Acknowledge(c) ELSE UNCHANGED history
    /\ Return(c)
    /\ UNCHANGED <<appended, flushed, device, streamBad, calls, endVars>>

-----------------------------------------------------------------------------
(* The environment. *)

\* A full stream buffer spills to the operating system on its own.
SpillBuffer ==
    /\ crash = "none"
    /\ ~streamBad
    /\ flushed < appended
    /\ flushed' \in (flushed + 1) .. appended
    /\ UNCHANGED <<appended, synced, device, streamBad, syncMutex, localVars, endVars, history>>

\* The operating system writes pages back on its own.
WriteBack ==
    /\ crash = "none"
    /\ device < flushed
    /\ device' \in (device + 1) .. flushed
    /\ UNCHANGED <<appended, synced, flushed, streamBad, syncMutex, localVars, endVars, history>>

\* The process dies; replay() finds what the operating system had.  A record
\* cut in two by the crash fails the length or CRC test and ends the replay.
KillProcess ==
    /\ crash = "none"
    /\ crash' = "kill"
    /\ survivors' = flushed
    /\ UNCHANGED <<fileVars, syncMutex, localVars, modeVars, history>>

\* Power or OS failure; replay() stops at the first record that did not
\* reach the device whole, which is beyond the durable prefix.
LosePower ==
    /\ crash = "none"
    /\ crash' = "power"
    /\ survivors' \in device .. flushed
    /\ UNCHANGED <<fileVars, syncMutex, localVars, modeVars, history>>

Step(c) ==
    \/ LoadNeeded(c)
    \/ LockSync(c)
    \/ ReturnCovered(c)
    \/ Flush(c)
    \/ FlushFails(c)
    \/ Fdatasync(c)
    \/ Publish(c)

Call(c) == AppendOnly(c) \/ AppendFails(c) \/ Sync(c) \/ Refuse(c)

Next ==
    \/ \E c \in Callers : Call(c) \/ Step(c)
    \/ SpillBuffer
    \/ WriteBack
    \/ KillProcess
    \/ LosePower

Spec == Init /\ [][Next]_vars

\* A thread inside commit() is scheduled; nobody is obliged to call it.
FairSpec == Spec /\ \A c \in Callers : WF_vars(Step(c))

-----------------------------------------------------------------------------
(* Properties. *)

\* Every variable has its type, and the three places are nested prefixes.
TypeOK ==
    /\ appended \in Nat
    /\ synced \in 0 .. appended
    /\ flushed \in 0 .. appended
    /\ device \in 0 .. flushed
    /\ streamBad \in BOOLEAN
    /\ syncMutex \in Callers \cup {NoCaller}
    /\ pc \in [Callers -> {"idle", "load", "lock", "holding", "fsync", "publish"}]
    /\ mine \in [Callers -> Nat]
    /\ needed \in [Callers -> Nat]
    /\ target \in [Callers -> Nat]
    /\ ok \in [Callers -> BOOLEAN]
    /\ calls \in [Callers -> 0 .. MaxCalls]
    /\ fsyncEach \in BOOLEAN
    /\ isOpen \in BOOLEAN
    /\ syncFd \in BOOLEAN
    /\ survivors \in Nat
    /\ crash \in {"none", "kill", "power"}
    /\ acked \in Nat
    /\ failed \in BOOLEAN
    /\ firm \in Nat

\* A crash of this kind keeps what the segment has on the device (power) or in
\* the operating system (kill); without fsync_each_ a power failure keeps nothing.
Preserving == crash = "kill" \/ (crash = "power" /\ fsyncEach)

\* wal.hpp, constructor: an acknowledged record survives the death of the
\* process, and with fsync_each_ a power or OS failure too: whatever the
\* interleaving of the callers that share one fdatasync, replay() returns
\* every record whose commit() had returned true.
AckedSurvivesCrash == Preserving => acked <= survivors

\* The part of it that the code keeps whatever fails: a record acknowledged
\* before the first failing flush or fdatasync of a commit() survives the crash,
\* whoever shared whose fdatasync and whatever fails after it, be it an append
\* that leaves the stream bad, a flush that writes half of its buffer or a
\* commit() that counts it as done.
AckedBeforeFailureSurvives == Preserving => firm <= survivors

\* synced_ never overstates what has left the process, up to the first failing
\* flush or fdatasync: the record count a later caller compares with is covered
\* by the operating system and, with fsync_each_, by the device.
SyncedIsDurable ==
    ~failed => /\ synced <= flushed
               /\ fsyncEach => synced <= device

\* commit() returns: the callers that queue on sync_mutex_ never wait on one
\* another for ever, also when flushes fail (unless a crash ends them all).
CommitReturns ==
    \A c \in Callers : pc[c] = "load" ~> (pc[c] = "idle" \/ crash # "none")

=============================================================================
