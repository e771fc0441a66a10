------------------------- MODULE LockFreeQueueProofs -------------------------
(* LockFreeQueue keeps its order for any threads and any capacity of at      *)
(* least two.  The inductive invariant says, for each position, what its     *)
(* cell holds and which thread, if any, is at work on it.                    *)
EXTENDS LockFreeQueue, TLAPS

Cells == 0 .. Capacity - 1
CellSet == [sequence : Nat, data : Nat]
ThreadSet == [call : {"none", "enqueue", "dequeue"},
              pc : {"idle", "load", "check", "claim", "move", "store"}, pos : Nat, data : Nat]

QueueTypeOK ==
    /\ buffer_ \in [Cells -> CellSet]
    /\ enqueue_pos_ \in Nat
    /\ dequeue_pos_ \in Nat
    /\ threads \in [Threads -> ThreadSet]
    /\ calls \in Nat
    /\ enqueued \in Seq(Nat)
    /\ Len(enqueued) = enqueue_pos_
    /\ dequeue_pos_ <= enqueue_pos_
    /\ enqueue_pos_ <= dequeue_pos_ + Capacity

SequenceAt(p) == buffer_[Cell(p)].sequence
DataAt(p) == buffer_[Cell(p)].data

\* A thread that has claimed a position owns its cell.
Fills(t) == threads[t].call = "enqueue" /\ threads[t].pc \in {"move", "store"}
Empties(t) == threads[t].call = "dequeue" /\ threads[t].pc \in {"move", "store"}

ThreadsOwnTheirCells ==
    \A t \in Threads :
        /\ Fills(t) =>
            /\ dequeue_pos_ <= threads[t].pos /\ threads[t].pos < enqueue_pos_
            /\ SequenceAt(threads[t].pos) = threads[t].pos
            /\ threads[t].data = enqueued[threads[t].pos + 1]
            /\ threads[t].pc = "store" => DataAt(threads[t].pos) = threads[t].data
        /\ Empties(t) =>
            /\ enqueue_pos_ <= threads[t].pos + Capacity /\ threads[t].pos < dequeue_pos_
            /\ SequenceAt(threads[t].pos) = threads[t].pos + 1
            /\ threads[t].pc = "move" => DataAt(threads[t].pos) = enqueued[threads[t].pos + 1]

OneThreadPerPosition ==
    \A t, u \in Threads :
        /\ t # u /\ Fills(t) /\ Fills(u) => threads[t].pos # threads[u].pos
        /\ t # u /\ Empties(t) /\ Empties(u) => threads[t].pos # threads[u].pos

\* A position in the queue is filled, or some thread is about to fill it.
QueuedAreFilled ==
    \A p \in Nat : dequeue_pos_ <= p /\ p < enqueue_pos_ =>
        \/ SequenceAt(p) = p + 1 /\ DataAt(p) = enqueued[p + 1]
        \/ \E t \in Threads : Fills(t) /\ threads[t].pos = p

\* A position still to come is free, or some thread is about to free it.
OthersAreFree ==
    \A p \in Nat : enqueue_pos_ <= p /\ p < dequeue_pos_ + Capacity =>
        \/ SequenceAt(p) = p
        \/ \E t \in Threads : Empties(t) /\ threads[t].pos + Capacity = p

\* Sequence numbers do not fall behind what was claimed.
SequencesKeepUp ==
    /\ \A p \in Nat : p < enqueue_pos_ => SequenceAt(p) >= p
    /\ \A p \in Nat : p < dequeue_pos_ => SequenceAt(p) >= p + 1

\* A thread about to claim a position nobody has claimed finds its cell ready.
ClaimsAreCurrent ==
    \A t \in Threads :
        /\ threads[t].pc \in {"check", "claim"} => threads[t].pos <= Position(threads[t].call)
        /\ threads[t].pc = "claim" /\ threads[t].pos = Position(threads[t].call) =>
               SequenceAt(threads[t].pos) = Turn(threads[t].call, threads[t].pos)
        /\ threads[t].pc # "idle" => threads[t].call \in {"enqueue", "dequeue"}

QueueInv ==
    /\ QueueTypeOK
    /\ ThreadsOwnTheirCells
    /\ OneThreadPerPosition
    /\ QueuedAreFilled
    /\ OthersAreFree
    /\ SequencesKeepUp
    /\ ClaimsAreCurrent

-----------------------------------------------------------------------------
(* Cells: a position's cell is the one Capacity positions later, and          *)
(* positions less than Capacity apart have different cells.                   *)

\* Every position has a cell of the buffer (pos & mask_).
LEMMA CellIsOne == \A p \in Nat : Cell(p) \in Cells
  BY CapacityAssumption DEF Cell, Cells

\* A multiple of the capacity is not strictly between 0 and the capacity.
LEMMA NoMultipleBetween ==
    \A k \in Int : ~(0 < Capacity * k /\ Capacity * k < Capacity)
  <1> SUFFICES ASSUME NEW k \in Int, 0 < Capacity * k, Capacity * k < Capacity
               PROVE  FALSE
    OBVIOUS
  <1>1. CASE k <= 0
    <2>1. Capacity * k <= 0
      BY <1>1, CapacityAssumption, SMTT(30)
    <2> QED
      BY <2>1, CapacityAssumption
  <1>2. CASE k >= 1
    <2>1. Capacity * k >= Capacity
      BY <1>2, CapacityAssumption, SMTT(30)
    <2> QED
      BY <2>1, CapacityAssumption
  <1> QED
    BY <1>1, <1>2

\* A number is the capacity times a quotient plus its cell.
LEMMA Division ==
    \A p \in Nat : \E d \in Int : p = Capacity * d + Cell(p)
  <1> SUFFICES ASSUME NEW p \in Nat
               PROVE  \E d \in Int : p = Capacity * d + Cell(p)
    OBVIOUS
  <1>1. p = Capacity * (p \div Capacity) + Cell(p) /\ p \div Capacity \in Int
    BY CapacityAssumption DEF Cell
  <1> QED
    BY <1>1

\* The buffer wraps around after Capacity positions.
LEMMA CellsRepeat == \A p \in Nat : Cell(p + Capacity) = Cell(p)
  <1> SUFFICES ASSUME NEW p \in Nat
               PROVE  Cell(p + Capacity) = Cell(p)
    OBVIOUS
  <1>1. PICK c \in Int : p = Capacity * c + Cell(p)
    BY Division
  <1>2. PICK d \in Int : p + Capacity = Capacity * d + Cell(p + Capacity)
    BY Division, CapacityAssumption
  <1>3. /\ Cell(p) \in Cells /\ Cell(p + Capacity) \in Cells
    BY CellIsOne, CapacityAssumption
  <1>4. /\ Capacity * (d - c - 1) = Cell(p) - Cell(p + Capacity)
        /\ Capacity * (c + 1 - d) = Cell(p + Capacity) - Cell(p)
    <2>1. /\ Capacity * (d - c - 1) = Capacity * d - Capacity * c - Capacity
          /\ Capacity * (c + 1 - d) = Capacity * c + Capacity - Capacity * d
          /\ Capacity * c \in Int /\ Capacity * d \in Int
      BY CapacityAssumption
    <2>2. Cell(p) \in Int /\ Cell(p + Capacity) \in Int
      BY <1>3 DEF Cells
    <2>3. PICK x \in Int : x = Capacity * c
      BY <2>1
    <2>4. PICK y \in Int : y = Capacity * d
      BY <2>1
    <2>5. p = x + Cell(p) /\ p + Capacity = y + Cell(p + Capacity)
      BY <1>1, <1>2, <2>3, <2>4, Zenon
    <2>6. /\ y - x - Capacity = Cell(p) - Cell(p + Capacity)
          /\ x + Capacity - y = Cell(p + Capacity) - Cell(p)
      BY <2>2, <2>5, CapacityAssumption, SMTT(30)
    <2> QED
      BY <2>1, <2>3, <2>4, <2>6, Zenon
  <1>5. d - c - 1 \in Int /\ c + 1 - d \in Int
    OBVIOUS
  <1> QED
    BY <1>3, <1>4, <1>5, NoMultipleBetween, CapacityAssumption, SMTT(30) DEF Cells

\* Positions less than Capacity apart never share a cell.
LEMMA CellsApart ==
    \A p, q \in Nat : p < q /\ q < p + Capacity => Cell(p) # Cell(q)
  <1> SUFFICES ASSUME NEW p \in Nat, NEW q \in Nat, p < q, q < p + Capacity, Cell(p) = Cell(q)
               PROVE  FALSE
    OBVIOUS
  <1>1. PICK c \in Int : p = Capacity * c + Cell(p)
    BY Division
  <1>2. PICK d \in Int : q = Capacity * d + Cell(q)
    BY Division
  <1>3. Cell(p) \in Int
    BY CellIsOne, CapacityAssumption DEF Cells
  <1>4. d - c \in Int /\ Capacity * (d - c) = q - p
    BY <1>1, <1>2, <1>3, CapacityAssumption, SMTT(30)
  <1> QED
    BY <1>4, NoMultipleBetween, CapacityAssumption

-----------------------------------------------------------------------------
(* The invariant holds initially and every step keeps it.                     *)

\* What the type invariant says of one thread and of one position's cell.
LEMMA Types ==
    ASSUME QueueTypeOK
    PROVE  /\ \A u \in Threads : threads[u] \in ThreadSet /\ threads[u].pos \in Nat
                                 /\ threads[u].data \in Nat
           /\ \A p \in Nat : SequenceAt(p) \in Nat /\ DataAt(p) \in Nat
  BY CellIsOne, ZenonT(60) DEF QueueTypeOK, ThreadSet, CellSet, SequenceAt, DataAt

\* The empty queue of the constructor satisfies the invariant.
LEMMA InitEstablishesInv == QueueInit => QueueInv
  <1> SUFFICES ASSUME QueueInit
               PROVE  QueueInv
    OBVIOUS
  <1>1. QueueTypeOK
    BY CapacityAssumption DEF QueueInit, QueueTypeOK, Cells, CellSet, ThreadSet, Idle, NoData
  <1>2. \A t \in Threads : ~Fills(t) /\ ~Empties(t) /\ threads[t].pc = "idle"
    BY DEF QueueInit, Fills, Empties, Idle
  <1>3. \A p \in Nat : p < Capacity => SequenceAt(p) = p
    <2> SUFFICES ASSUME NEW p \in Nat, p < Capacity
                 PROVE  SequenceAt(p) = p
      OBVIOUS
    <2>1. Cell(p) = p
      BY CapacityAssumption DEF Cell
    <2> QED
      BY <2>1, CapacityAssumption DEF QueueInit, SequenceAt
  <1>4. OthersAreFree
    BY <1>3, CapacityAssumption DEF QueueInit, OthersAreFree
  <1> QED
    BY <1>1, <1>2, <1>4 DEF QueueInit, QueueInv, ThreadsOwnTheirCells, OneThreadPerPosition,
        QueuedAreFilled, SequencesKeepUp, ClaimsAreCurrent

\* A step of a thread that owns no cell before or after it, and writes nothing
\* that is shared, keeps the invariant as long as its own position is current.
LEMMA ThreadStep ==
    ASSUME QueueInv, NEW t \in Threads, NEW me \in ThreadSet,
           threads' = [threads EXCEPT ![t] = me], calls' \in Nat,
           UNCHANGED <<buffer_, enqueue_pos_, dequeue_pos_, enqueued>>,
           threads[t].pc \notin {"move", "store"}, me.pc \notin {"move", "store"},
           me.pc \in {"check", "claim"} => me.pos <= Position(me.call),
           me.pc = "claim" /\ me.pos = Position(me.call) =>
               SequenceAt(me.pos) = Turn(me.call, me.pos),
           me.pc # "idle" => me.call \in {"enqueue", "dequeue"}
    PROVE  QueueInv'
  <1>1. QueueTypeOK'
    BY DEF QueueInv, QueueTypeOK
  <1>2. threads'[t] = me /\ \A u \in Threads : u # t => threads'[u] = threads[u]
    BY DEF QueueInv, QueueTypeOK
  <1>3. \A u \in Threads : /\ Fills(u)' <=> Fills(u)
                           /\ Empties(u)' <=> Empties(u)
                           /\ Fills(u) \/ Empties(u) => threads'[u] = threads[u]
    BY <1>2 DEF Fills, Empties
  <1>4. \A p : SequenceAt(p)' = SequenceAt(p) /\ DataAt(p)' = DataAt(p)
    BY DEF SequenceAt, DataAt
  <1>5. ThreadsOwnTheirCells'
    BY <1>3, <1>4 DEF QueueInv, ThreadsOwnTheirCells
  <1>6. OneThreadPerPosition'
    BY <1>3 DEF QueueInv, OneThreadPerPosition
  <1>7. QueuedAreFilled'
    BY <1>3, <1>4 DEF QueueInv, QueuedAreFilled
  <1>8. OthersAreFree'
    BY <1>3, <1>4 DEF QueueInv, OthersAreFree
  <1>9. SequencesKeepUp'
    BY <1>4 DEF QueueInv, SequencesKeepUp
  <1>10. ClaimsAreCurrent'
    BY <1>2, <1>4 DEF QueueInv, ClaimsAreCurrent, Position
  <1> QED
    BY <1>1, <1>5, <1>6, <1>7, <1>8, <1>9, <1>10 DEF QueueInv

\* A call begins.
LEMMA StartCallKeepsInv ==
    ASSUME QueueInv, NEW t \in Threads, NEW call \in {"enqueue", "dequeue"}, StartCall(t, call)
    PROVE  QueueInv'
  <1> DEFINE me == [call |-> call, pc |-> "load", pos |-> 0,
                    data |-> IF call = "enqueue" THEN calls + 1 ELSE NoData]
  <1>1. me \in ThreadSet /\ me.pc = "load" /\ me.call = call
    <2>1. (IF call = "enqueue" THEN calls + 1 ELSE NoData) \in Nat
      BY DEF QueueInv, QueueTypeOK, NoData
    <2> QED
      BY <2>1 DEF ThreadSet
  <1>2. threads[t].pc = "idle" /\ calls' \in Nat /\ threads' = [threads EXCEPT ![t] = me]
    BY DEF StartCall, QueueInv, QueueTypeOK
  <1>3. UNCHANGED <<buffer_, enqueue_pos_, dequeue_pos_, enqueued>>
    BY DEF StartCall
  <1> HIDE DEF me
  <1> QED
    BY <1>1, <1>2, <1>3, ThreadStep, ZenonT(60)

\* The position is loaded at the start, and again when a compare-exchange fails.
LEMMA LoadKeepsInv ==
    ASSUME QueueInv, NEW t \in Threads, LoadPosition(t) \/ ClaimFails(t)
    PROVE  QueueInv'
  <1> DEFINE me == [threads[t] EXCEPT !.pos = Position(threads[t].call), !.pc = "check"]
  <1>1. threads[t] \in ThreadSet /\ Position(threads[t].call) \in Nat
    BY Types DEF QueueInv, QueueTypeOK, Position
  <1>2. /\ me \in ThreadSet /\ me.pc = "check" /\ me.call = threads[t].call
        /\ me.pos = Position(me.call)
    BY <1>1, ZenonT(60) DEF ThreadSet
  <1>3. /\ threads[t].pc \in {"load", "claim"}
        /\ threads' = [threads EXCEPT ![t] = me]
        /\ UNCHANGED <<buffer_, enqueue_pos_, dequeue_pos_, calls, enqueued>>
    BY <1>1 DEF LoadPosition, ClaimFails, QueueInv, QueueTypeOK, ThreadSet
  <1>4. me.call \in {"enqueue", "dequeue"} /\ calls' \in Nat
    BY <1>2, <1>3 DEF QueueInv, QueueTypeOK, ClaimsAreCurrent
  <1>5. me.pos <= Position(me.call)
    BY <1>1, <1>2
  <1> HIDE DEF me
  <1> QED
    BY <1>2, <1>3, <1>4, <1>5, ThreadStep, ZenonT(60)

\* The cell is ready, or behind, or ahead.
LEMMA CheckKeepsInv ==
    ASSUME QueueInv, NEW t \in Threads, CheckCell(t)
    PROVE  QueueInv'
  <1> DEFINE diff == SequenceAt(threads[t].pos) - Turn(threads[t].call, threads[t].pos)
             me == IF diff < 0 THEN Idle
                   ELSE [threads[t] EXCEPT !.pc = IF diff = 0 THEN "claim" ELSE "load"]
  <1>1. /\ threads[t] \in ThreadSet /\ threads[t].pos \in Nat
        /\ SequenceAt(threads[t].pos) \in Nat /\ Turn(threads[t].call, threads[t].pos) \in Nat
    BY Types DEF QueueInv, Turn
  <1>2. /\ threads[t].pc = "check"
        /\ threads' = [threads EXCEPT ![t] = me]
        /\ UNCHANGED <<buffer_, enqueue_pos_, dequeue_pos_, calls, enqueued>>
    BY DEF CheckCell, SequenceAt
  <1>3. calls' \in Nat
    BY <1>2 DEF QueueInv, QueueTypeOK
  <1>4. /\ threads[t].pos <= Position(threads[t].call)
        /\ threads[t].call \in {"enqueue", "dequeue"}
    BY <1>2 DEF QueueInv, ClaimsAreCurrent
  <1>5. CASE diff < 0
    <2>1. me = Idle /\ Idle \in ThreadSet /\ Idle.pc = "idle"
      BY <1>5 DEF Idle, ThreadSet, NoData
    <2> QED
      BY <1>2, <1>3, <2>1, ThreadStep, ZenonT(60)
  <1>6. CASE ~(diff < 0)
    <2>1. /\ me \in ThreadSet /\ me.call = threads[t].call /\ me.pos = threads[t].pos
          /\ me.pc = IF diff = 0 THEN "claim" ELSE "load"
      BY <1>1, <1>6 DEF ThreadSet
    <2>2. me.pc = "claim" => SequenceAt(me.pos) = Turn(me.call, me.pos)
      BY <1>1, <2>1
    <2>3. me.pc \in {"claim", "load"} /\ me.pos <= Position(me.call)
          /\ me.call \in {"enqueue", "dequeue"}
      BY <1>4, <2>1
    <2> HIDE DEF me
    <2> QED
      BY <1>2, <1>3, <2>1, <2>2, <2>3, ThreadStep, ZenonT(60)
  <1> QED
    BY <1>5, <1>6

\* A thread claims the next position: to fill it or to empty it.
LEMMA ClaimKeepsInv ==
    ASSUME QueueInv, NEW t \in Threads, Claim(t)
    PROVE  QueueInv'
  <1> DEFINE e == enqueue_pos_
             d == dequeue_pos_
             pos == threads[t].pos
  <1>1. /\ e \in Nat /\ d \in Nat /\ d <= e /\ e <= d + Capacity /\ pos \in Nat
        /\ Capacity \in Nat /\ Capacity >= 2
    BY Types, CapacityAssumption DEF QueueInv, QueueTypeOK
  <1>p. \A u \in Threads : threads[u].pos \in Nat
    BY Types DEF QueueInv
  <1>s. \A p \in Nat : SequenceAt(p) \in Nat
    BY Types DEF QueueInv
  <1>t. \A u \in Threads : threads[u] \in ThreadSet
    BY Types DEF QueueInv
  <1>q. enqueued \in Seq(Nat) /\ Len(enqueued) = e /\ threads[t].data \in Nat
    BY Types DEF QueueInv, QueueTypeOK
  <1>2. /\ threads[t].pc = "claim" /\ pos = Position(threads[t].call)
        /\ threads' = [threads EXCEPT ![t].pc = "move"]
        /\ UNCHANGED <<buffer_, calls>>
        /\ threads[t].call \in {"enqueue", "dequeue"}
        /\ SequenceAt(pos) = Turn(threads[t].call, pos)
    BY DEF Claim, Expected, QueueInv, ClaimsAreCurrent
  <1>3. /\ threads'[t] = [threads[t] EXCEPT !.pc = "move"]
        /\ \A u \in Threads : u # t => threads'[u] = threads[u]
        /\ threads' \in [Threads -> ThreadSet]
    BY <1>t, <1>2 DEF QueueInv, QueueTypeOK, ThreadSet
  <1>4. /\ threads'[t].pc = "move" /\ threads'[t].pos = pos
        /\ threads'[t].call = threads[t].call /\ threads'[t].data = threads[t].data
        /\ ~Fills(t) /\ ~Empties(t)
    BY <1>t, <1>2, <1>3 DEF ThreadSet, Fills, Empties
  <1>5. \A u \in Threads : u # t => (Fills(u)' <=> Fills(u)) /\ (Empties(u)' <=> Empties(u))
    BY <1>3 DEF Fills, Empties
  <1>6. \A p : SequenceAt(p)' = SequenceAt(p) /\ DataAt(p)' = DataAt(p)
    BY <1>2 DEF SequenceAt, DataAt
  <1>7. CASE threads[t].call = "enqueue"
    <2>1. /\ pos = e /\ enqueue_pos_' = e + 1 /\ dequeue_pos_' = d
          /\ enqueued' = Append(enqueued, threads[t].data) /\ SequenceAt(e) = e
          /\ Fills(t)' /\ ~Empties(t)'
      BY <1>2, <1>4, <1>7 DEF Claim, Position, Turn, Fills, Empties
    <2>2. /\ enqueued' \in Seq(Nat) /\ Len(enqueued') = e + 1
          /\ enqueued'[e + 1] = threads[t].data
          /\ \A p \in Nat : p < e => enqueued'[p + 1] = enqueued[p + 1]
      BY <1>1, <1>q, <2>1
    <2>3. e < d + Capacity
      <3> SUFFICES ASSUME e = d + Capacity
                   PROVE  FALSE
        BY <1>1
      <3>1. SequenceAt(d) = e
        BY <1>1, <2>1, CellsRepeat, ZenonT(60) DEF SequenceAt
      <3>2. SequenceAt(d) = d + 1 \/ SequenceAt(d) = d
        <4>1. CASE SequenceAt(d) = d + 1
          BY <4>1
        <4>2. CASE \E u \in Threads : Fills(u) /\ threads[u].pos = d
          BY <4>2 DEF QueueInv, ThreadsOwnTheirCells
        <4> QED
          BY <1>1, <4>1, <4>2 DEF QueueInv, QueuedAreFilled
      <3> QED
        BY <1>1, <3>1, <3>2
    <2>4. \A u \in Threads : Empties(u) => e < threads[u].pos + Capacity
      <3> SUFFICES ASSUME NEW u \in Threads, Empties(u), e = threads[u].pos + Capacity
                   PROVE  FALSE
        BY <1>1, <1>p DEF QueueInv, ThreadsOwnTheirCells
      <3>1. SequenceAt(threads[u].pos) = e
        BY <1>p, <2>1, CellsRepeat DEF SequenceAt
      <3>2. SequenceAt(threads[u].pos) = threads[u].pos + 1
        BY DEF QueueInv, ThreadsOwnTheirCells
      <3> QED
        BY <1>1, <1>p, <3>1, <3>2
    <2>5. QueueTypeOK'
      BY <1>1, <1>2, <1>3, <2>1, <2>2, <2>3 DEF QueueInv, QueueTypeOK
    <2>6. ThreadsOwnTheirCells'
      <3> SUFFICES ASSUME NEW u \in Threads
                   PROVE  ThreadsOwnTheirCells!(u)'
        BY DEF ThreadsOwnTheirCells
      <3>1. CASE u = t
        BY <1>1, <1>4, <1>6, <2>1, <2>2, <3>1
      <3>2. CASE u # t
        <4>1. threads'[u] = threads[u] /\ (Fills(u)' <=> Fills(u)) /\ (Empties(u)' <=> Empties(u))
          BY <1>3, <1>5, <3>2
        <4>2. ThreadsOwnTheirCells!(u)
          BY DEF QueueInv, ThreadsOwnTheirCells
        <4>3. CASE Fills(u)
          <5>1. threads[u].pos < e /\ threads[u].pos \in Nat /\ ~Empties(u)
            BY <1>p, <4>2, <4>3 DEF Fills, Empties
          <5>2. enqueued'[threads[u].pos + 1] = enqueued[threads[u].pos + 1]
            BY <2>2, <5>1
          <5> QED
            BY <1>1, <1>6, <2>1, <4>1, <4>2, <4>3, <5>1, <5>2
        <4>4. CASE Empties(u)
          <5>1. /\ threads[u].pos < e /\ threads[u].pos \in Nat /\ ~Fills(u)
                /\ e + 1 <= threads[u].pos + Capacity
            BY <1>1, <1>p, <2>4, <4>2, <4>4 DEF Fills, Empties
          <5>2. enqueued'[threads[u].pos + 1] = enqueued[threads[u].pos + 1]
            BY <2>2, <5>1
          <5> QED
            BY <1>1, <1>6, <2>1, <4>1, <4>2, <4>4, <5>1, <5>2
        <4> QED
          BY <4>1, <4>3, <4>4
      <3> QED
        BY <3>1, <3>2
    <2>7. OneThreadPerPosition'
      <3>1. \A u \in Threads : Fills(u) => threads[u].pos # e
        BY <1>1, <1>p DEF QueueInv, ThreadsOwnTheirCells
      <3> SUFFICES ASSUME NEW u \in Threads, NEW v \in Threads, u # v
                   PROVE  OneThreadPerPosition!(u, v)'
        BY DEF OneThreadPerPosition
      <3>2. CASE u # t /\ v # t
        BY <1>3, <1>5, <3>2 DEF QueueInv, OneThreadPerPosition
      <3>3. CASE u = t
        BY <1>3, <1>4, <1>5, <2>1, <3>1, <3>3, ZenonT(60)
      <3>4. CASE v = t
        BY <1>3, <1>4, <1>5, <2>1, <3>1, <3>4, ZenonT(60)
      <3> QED
        BY <3>2, <3>3, <3>4
    <2>8. QueuedAreFilled'
      <3> SUFFICES ASSUME NEW p \in Nat, d <= p, p < e + 1
                   PROVE  \/ SequenceAt(p)' = p + 1 /\ DataAt(p)' = enqueued'[p + 1]
                          \/ \E u \in Threads : Fills(u)' /\ threads'[u].pos = p
        BY <2>1, ZenonT(60) DEF QueuedAreFilled
      <3>1. CASE p = e
        BY <1>4, <2>1, <3>1
      <3>2. CASE p < e
        <4>1. \/ SequenceAt(p) = p + 1 /\ DataAt(p) = enqueued[p + 1]
              \/ \E u \in Threads : Fills(u) /\ threads[u].pos = p
          BY <3>2 DEF QueueInv, QueuedAreFilled
        <4>2. \A u \in Threads : Fills(u) => Fills(u)' /\ threads'[u] = threads[u]
          BY <1>3, <1>4, <1>5
        <4>3. enqueued'[p + 1] = enqueued[p + 1]
          BY <2>2, <3>2
        <4> QED
          BY <1>6, <4>1, <4>2, <4>3
      <3> QED
        BY <1>1, <3>1, <3>2
    <2>9. OthersAreFree'
      <3> SUFFICES ASSUME NEW p \in Nat, e + 1 <= p, p < d + Capacity
                   PROVE  \/ SequenceAt(p)' = p
                          \/ \E u \in Threads : Empties(u)' /\ threads'[u].pos + Capacity = p
        BY <2>1 DEF OthersAreFree
      <3>1. \/ SequenceAt(p) = p
            \/ \E u \in Threads : Empties(u) /\ threads[u].pos + Capacity = p
        BY <1>1 DEF QueueInv, OthersAreFree
      <3>2. \A u \in Threads : Empties(u) => Empties(u)' /\ threads'[u] = threads[u]
        BY <1>3, <1>4, <1>5
      <3> QED
        BY <1>6, <3>1, <3>2
    <2>10. SequencesKeepUp'
      BY <1>1, <1>6, <2>1 DEF QueueInv, SequencesKeepUp
    <2>11. ClaimsAreCurrent'
      <3> SUFFICES ASSUME NEW u \in Threads
                   PROVE  ClaimsAreCurrent!(u)'
        BY DEF ClaimsAreCurrent
      <3>1. CASE u = t
        BY <1>2, <1>4, <3>1
      <3>2. CASE u # t
        BY <1>1, <1>p, <1>3, <1>6, <2>1, <3>2, SMTT(30) DEF QueueInv, ClaimsAreCurrent, Position, Turn
      <3> QED
        BY <3>1, <3>2
    <2> QED
      BY <2>5, <2>6, <2>7, <2>8, <2>9, <2>10, <2>11 DEF QueueInv
  <1>8. CASE threads[t].call = "dequeue"
    <2>1. /\ pos = d /\ dequeue_pos_' = d + 1 /\ enqueue_pos_' = e /\ enqueued' = enqueued
          /\ SequenceAt(d) = d + 1 /\ Empties(t)' /\ ~Fills(t)'
      BY <1>2, <1>4, <1>8 DEF Claim, Position, Turn, Fills, Empties
    <2>2. d < e
      <3> SUFFICES ASSUME d = e
                   PROVE  FALSE
        BY <1>1
      <3>1. PICK u \in Threads : Empties(u) /\ threads[u].pos + Capacity = d
        BY <1>1, <2>1 DEF QueueInv, OthersAreFree
      <3>2. SequenceAt(threads[u].pos) = SequenceAt(d)
        BY <1>p, <3>1, CellsRepeat DEF SequenceAt
      <3> QED
        BY <1>1, <1>p, <2>1, <3>1, <3>2 DEF QueueInv, ThreadsOwnTheirCells
    <2>3. \A u \in Threads : Fills(u) => threads[u].pos # d
      BY <1>1, <2>1 DEF QueueInv, ThreadsOwnTheirCells
    <2>4. DataAt(d) = enqueued[d + 1]
      BY <1>1, <2>2, <2>3 DEF QueueInv, QueuedAreFilled
    <2>5. QueueTypeOK'
      BY <1>1, <1>2, <1>3, <2>1, <2>2, SMTT(30) DEF QueueInv, QueueTypeOK
    <2>6. ThreadsOwnTheirCells'
      <3> SUFFICES ASSUME NEW u \in Threads
                   PROVE  ThreadsOwnTheirCells!(u)'
        BY DEF ThreadsOwnTheirCells
      <3>1. CASE u = t
        BY <1>1, <1>4, <1>6, <2>1, <2>4, <3>1
      <3>2. CASE u # t
        BY <1>1, <1>p, <1>3, <1>5, <1>6, <2>1, <2>3, <3>2
            DEF QueueInv, ThreadsOwnTheirCells
      <3> QED
        BY <3>1, <3>2
    <2>7. OneThreadPerPosition'
      <3>1. \A u \in Threads : Empties(u) => threads[u].pos # d
        BY <1>1, <1>p DEF QueueInv, ThreadsOwnTheirCells
      <3> SUFFICES ASSUME NEW u \in Threads, NEW v \in Threads, u # v
                   PROVE  OneThreadPerPosition!(u, v)'
        BY DEF OneThreadPerPosition
      <3>2. CASE u # t /\ v # t
        BY <1>3, <1>5, <3>2 DEF QueueInv, OneThreadPerPosition
      <3>3. CASE u = t
        BY <1>3, <1>4, <1>5, <2>1, <3>1, <3>3, ZenonT(60)
      <3>4. CASE v = t
        BY <1>3, <1>4, <1>5, <2>1, <3>1, <3>4, ZenonT(60)
      <3> QED
        BY <3>2, <3>3, <3>4
    <2>8. QueuedAreFilled'
      BY <1>1, <1>3, <1>4, <1>5, <1>6, <2>1 DEF QueueInv, QueuedAreFilled
    <2>9. OthersAreFree'
      <3> SUFFICES ASSUME NEW p \in Nat, e <= p, p < d + 1 + Capacity
                   PROVE  \/ SequenceAt(p)' = p
                          \/ \E u \in Threads : Empties(u)' /\ threads'[u].pos + Capacity = p
        BY <2>1 DEF OthersAreFree
      <3>1. CASE p = d + Capacity
        BY <1>4, <2>1, <3>1
      <3>2. CASE p < d + Capacity
        BY <1>3, <1>4, <1>5, <1>6, <3>2 DEF QueueInv, OthersAreFree
      <3> QED
        BY <1>1, <3>1, <3>2
    <2>10. SequencesKeepUp'
      BY <1>1, <1>6, <2>1 DEF QueueInv, SequencesKeepUp
    <2>11. ClaimsAreCurrent'
      <3> SUFFICES ASSUME NEW u \in Threads
                   PROVE  ClaimsAreCurrent!(u)'
        BY DEF ClaimsAreCurrent
      <3>1. CASE u = t
        BY <1>2, <1>4, <3>1
      <3>2. CASE u # t
        BY <1>1, <1>p, <1>3, <1>6, <2>1, <3>2 DEF QueueInv, ClaimsAreCurrent, Position, Turn
      <3> QED
        BY <3>1, <3>2
    <2> QED
      BY <2>5, <2>6, <2>7, <2>8, <2>9, <2>10, <2>11 DEF QueueInv
  <1> QED
    BY <1>2, <1>7, <1>8

\* Two positions that share a cell see the same sequence number, and they are
\* not neighbours.
LEMMA SharedCells ==
    \A p, q \in Nat : Cell(p) = Cell(q) => SequenceAt(p) = SequenceAt(q) /\ p # q + 1 /\ q # p + 1
  <1>1. \A p \in Nat : Cell(p) # Cell(p + 1)
    BY CellsApart, CapacityAssumption
  <1> QED
    BY <1>1 DEF SequenceAt

\* Updating fields of a cell or of a thread's record leaves the others alone.
LEMMA CellUpdate ==
    \A x \in CellSet, v \in Nat :
        /\ [x EXCEPT !.data = v] \in CellSet /\ [x EXCEPT !.data = v].data = v
        /\ [x EXCEPT !.data = v].sequence = x.sequence
        /\ [x EXCEPT !.sequence = v] \in CellSet /\ [x EXCEPT !.sequence = v].sequence = v
        /\ [x EXCEPT !.sequence = v].data = x.data
  BY DEF CellSet

\* The same for a thread that moves data.
LEMMA ThreadUpdate ==
    \A x \in ThreadSet, v \in Nat :
        /\ [x EXCEPT !.pc = "store"] \in ThreadSet /\ [x EXCEPT !.pc = "store"].pc = "store"
        /\ [x EXCEPT !.pc = "store"].call = x.call /\ [x EXCEPT !.pc = "store"].pos = x.pos
        /\ [x EXCEPT !.pc = "store"].data = x.data
        /\ [x EXCEPT !.pc = "store", !.data = v] \in ThreadSet
        /\ [x EXCEPT !.pc = "store", !.data = v].pc = "store"
        /\ [x EXCEPT !.pc = "store", !.data = v].call = x.call
        /\ [x EXCEPT !.pc = "store", !.data = v].pos = x.pos
  BY ZenonT(60) DEF ThreadSet

\* The data moves between a claimed cell and its owner.
LEMMA MoveKeepsInv ==
    ASSUME QueueInv, NEW t \in Threads, MoveData(t)
    PROVE  QueueInv'
  <1> DEFINE e == enqueue_pos_
             d == dequeue_pos_
             pos == threads[t].pos
  <1>1. /\ e \in Nat /\ d \in Nat /\ d <= e /\ e <= d + Capacity /\ pos \in Nat
        /\ Capacity \in Nat /\ Capacity >= 2 /\ Cell(pos) \in Cells
    BY Types, CapacityAssumption, CellIsOne, ZenonT(60) DEF QueueInv, QueueTypeOK
  <1>p. \A u \in Threads : threads[u].pos \in Nat
    BY Types DEF QueueInv
  <1>t. \A u \in Threads : threads[u] \in ThreadSet
    BY Types DEF QueueInv
  <1>b. buffer_ \in [Cells -> CellSet] /\ threads[t].data \in Nat
    BY Types DEF QueueInv, QueueTypeOK
  <1>2. /\ threads[t].pc = "move" /\ threads[t].call \in {"enqueue", "dequeue"}
        /\ UNCHANGED <<enqueue_pos_, dequeue_pos_, calls, enqueued>>
    BY DEF MoveData, QueueInv, ClaimsAreCurrent
  <1>c. \E y \in CellSet, me \in ThreadSet :
            /\ buffer_' = [buffer_ EXCEPT ![Cell(pos)] = y]
            /\ y.sequence = buffer_[Cell(pos)].sequence
            /\ threads' = [threads EXCEPT ![t] = me]
            /\ me.call = threads[t].call /\ me.pos = pos /\ me.pc = "store"
            /\ threads[t].call = "enqueue" => y.data = threads[t].data /\ me.data = threads[t].data
    <2> DEFINE old == buffer_[Cell(pos)]
    <2>1. old \in CellSet /\ old.data \in Nat /\ threads[t] \in ThreadSet
      BY <1>1, <1>t, <1>b DEF CellSet
    <2>2. CASE threads[t].call = "enqueue"
      <3> DEFINE y == [old EXCEPT !.data = threads[t].data]
                 me == [threads[t] EXCEPT !.pc = "store"]
      <3>1. buffer_' = [buffer_ EXCEPT ![Cell(pos)] = y] /\ threads' = [threads EXCEPT ![t] = me]
        BY <2>2 DEF MoveData
      <3>2. /\ y \in CellSet /\ y.sequence = old.sequence /\ y.data = threads[t].data
            /\ me \in ThreadSet /\ me.call = threads[t].call /\ me.pos = pos
            /\ me.pc = "store" /\ me.data = threads[t].data
        BY <1>b, <2>1, CellUpdate, ThreadUpdate, ZenonT(60)
      <3> HIDE DEF y, me
      <3> QED
        BY <3>1, <3>2, ZenonT(60)
    <2>3. CASE threads[t].call = "dequeue"
      <3> DEFINE y == [old EXCEPT !.data = NoData]
                 me == [threads[t] EXCEPT !.pc = "store", !.data = old.data]
      <3>1. buffer_' = [buffer_ EXCEPT ![Cell(pos)] = y] /\ threads' = [threads EXCEPT ![t] = me]
        BY <2>3, ZenonT(60) DEF MoveData
      <3>2. NoData \in Nat
        BY DEF NoData
      <3>3. /\ y \in CellSet /\ y.sequence = old.sequence
            /\ me \in ThreadSet /\ me.call = threads[t].call /\ me.pos = pos /\ me.pc = "store"
        BY <2>1, <3>2, CellUpdate, ThreadUpdate, ZenonT(60)
      <3> HIDE DEF y, me
      <3> QED
        BY <2>3, <3>1, <3>3, ZenonT(60)
    <2> QED
      BY <1>2, <2>2, <2>3
  <1>d. PICK y \in CellSet, me \in ThreadSet :
            /\ buffer_' = [buffer_ EXCEPT ![Cell(pos)] = y]
            /\ y.sequence = buffer_[Cell(pos)].sequence
            /\ threads' = [threads EXCEPT ![t] = me]
            /\ me.call = threads[t].call /\ me.pos = pos /\ me.pc = "store"
            /\ threads[t].call = "enqueue" => y.data = threads[t].data /\ me.data = threads[t].data
    BY <1>c, ZenonT(60)
  <1>3. /\ buffer_' \in [Cells -> CellSet]
        /\ threads' \in [Threads -> ThreadSet]
        /\ \A u \in Threads : /\ u # t => threads'[u] = threads[u]
                              /\ threads'[u].call = threads[u].call
                              /\ threads'[u].pos = threads[u].pos
        /\ threads'[t] = me /\ threads'[t].pc = "store"
    BY <1>1, <1>b, <1>d DEF QueueInv, QueueTypeOK
  <1>4. \A u \in Threads : (Fills(u)' <=> Fills(u)) /\ (Empties(u)' <=> Empties(u))
    BY <1>2, <1>3 DEF Fills, Empties
  <1>5. \A p \in Nat : /\ SequenceAt(p)' = SequenceAt(p)
                       /\ Cell(p) # Cell(pos) => DataAt(p)' = DataAt(p)
    BY <1>1, <1>b, <1>d, CellIsOne DEF SequenceAt, DataAt
  <1>6. QueueTypeOK'
    BY <1>2, <1>3 DEF QueueInv, QueueTypeOK
  <1>7. OneThreadPerPosition'
    BY <1>3, <1>4 DEF QueueInv, OneThreadPerPosition
  <1>8. OthersAreFree'
    BY <1>1, <1>2, <1>3, <1>4, <1>5 DEF QueueInv, OthersAreFree
  <1>9. SequencesKeepUp'
    BY <1>2, <1>5 DEF QueueInv, SequencesKeepUp
  <1>10. ClaimsAreCurrent'
    <2> SUFFICES ASSUME NEW u \in Threads
                 PROVE  ClaimsAreCurrent!(u)'
      BY DEF ClaimsAreCurrent
    <2>1. CASE u = t
      BY <1>2, <1>3, <2>1
    <2>2. CASE u # t
      BY <1>p, <1>2, <1>3, <1>5, <2>2 DEF QueueInv, ClaimsAreCurrent, Position
    <2> QED
      BY <2>1, <2>2
  <1>11. ASSUME NEW u \in Threads, u # t, Fills(u) \/ Empties(u)
         PROVE  Cell(threads[u].pos) # Cell(pos)
    <2> SUFFICES ASSUME Cell(threads[u].pos) = Cell(pos)
                 PROVE  FALSE
      OBVIOUS
    <2>1. /\ SequenceAt(threads[u].pos) = SequenceAt(pos)
          /\ threads[u].pos # pos + 1 /\ pos # threads[u].pos + 1
      BY <1>1, <1>p, SharedCells
    <2>2. /\ Fills(u) => SequenceAt(threads[u].pos) = threads[u].pos
          /\ Empties(u) => SequenceAt(threads[u].pos) = threads[u].pos + 1
          /\ Fills(t) => SequenceAt(pos) = pos
          /\ Empties(t) => SequenceAt(pos) = pos + 1
      BY DEF QueueInv, ThreadsOwnTheirCells
    <2>3. Fills(t) \/ Empties(t)
      BY <1>2 DEF Fills, Empties
    <2>4. threads[u].pos # pos \/ (Fills(u) /\ Empties(t)) \/ (Empties(u) /\ Fills(t))
      BY <1>11, <2>3 DEF QueueInv, OneThreadPerPosition
    <2> QED
      BY <1>1, <1>p, <1>11, <2>1, <2>2, <2>3, <2>4
  <1>12. ThreadsOwnTheirCells'
    <2> SUFFICES ASSUME NEW u \in Threads
                 PROVE  ThreadsOwnTheirCells!(u)'
      BY DEF ThreadsOwnTheirCells
    <2>1. ThreadsOwnTheirCells!(u) /\ threads[u].pos \in Nat
      BY <1>p DEF QueueInv, ThreadsOwnTheirCells
    <2>2. CASE u # t
      BY <1>2, <1>3, <1>4, <1>5, <1>11, <2>1, <2>2
    <2>3. CASE u = t
      <3>1. Fills(t) => /\ DataAt(pos)' = threads[t].data
                        /\ threads'[t].data = threads[t].data
        BY <1>1, <1>b, <1>d, <1>3 DEF Fills, DataAt
      <3> QED
        BY <1>2, <1>3, <1>4, <1>5, <2>1, <2>3, <3>1
    <2> QED
      BY <2>2, <2>3
  <1>13. QueuedAreFilled'
    <2> SUFFICES ASSUME NEW p \in Nat, d <= p, p < e,
                        ~ \E u \in Threads : Fills(u)' /\ threads'[u].pos = p
                 PROVE  SequenceAt(p)' = p + 1 /\ DataAt(p)' = enqueued'[p + 1]
      BY <1>2 DEF QueuedAreFilled
    <2>1. SequenceAt(p) = p + 1 /\ DataAt(p) = enqueued[p + 1]
      BY <1>3, <1>4 DEF QueueInv, QueuedAreFilled
    <2>2. Cell(p) # Cell(pos)
      <3> SUFFICES ASSUME Cell(p) = Cell(pos)
                   PROVE  FALSE
        OBVIOUS
      <3>1. SequenceAt(pos) = p + 1 /\ pos # p + 1
        BY <1>1, <2>1, SharedCells
      <3>2. Fills(t) => SequenceAt(pos) = pos
        BY DEF QueueInv, ThreadsOwnTheirCells
      <3>3. Empties(t) => SequenceAt(pos) = pos + 1 /\ pos < d
        BY DEF QueueInv, ThreadsOwnTheirCells
      <3>4. Fills(t) \/ Empties(t)
        BY <1>2 DEF Fills, Empties
      <3> QED
        BY <1>1, <3>1, <3>2, <3>3, <3>4
    <2> QED
      BY <1>2, <1>5, <2>1, <2>2
  <1> QED
    BY <1>6, <1>7, <1>8, <1>9, <1>10, <1>12, <1>13 DEF QueueInv

\* The owner of a cell hands it over and ends its call.
LEMMA StoreKeepsInv ==
    ASSUME QueueInv, NEW t \in Threads, StoreSequence(t)
    PROVE  QueueInv'
  <1> DEFINE e == enqueue_pos_
             d == dequeue_pos_
             pos == threads[t].pos
             next == NextTurn(threads[t].call, pos)
  <1>1. /\ e \in Nat /\ d \in Nat /\ d <= e /\ e <= d + Capacity /\ pos \in Nat
        /\ Capacity \in Nat /\ Capacity >= 2 /\ Cell(pos) \in Cells
    BY Types, CapacityAssumption, CellIsOne, ZenonT(60) DEF QueueInv, QueueTypeOK
  <1>p. \A u \in Threads : threads[u].pos \in Nat
    BY Types DEF QueueInv
  <1>b. buffer_ \in [Cells -> CellSet]
    BY DEF QueueInv, QueueTypeOK
  <1>2. /\ threads[t].pc = "store" /\ threads[t].call \in {"enqueue", "dequeue"}
        /\ UNCHANGED <<enqueue_pos_, dequeue_pos_, calls, enqueued>>
        /\ threads' = [threads EXCEPT ![t] = Idle]
        /\ buffer_' = [buffer_ EXCEPT ![Cell(pos)] = [buffer_[Cell(pos)] EXCEPT !.sequence = next]]
        /\ Fills(t) \/ Empties(t)
    BY DEF StoreSequence, QueueInv, ClaimsAreCurrent, Fills, Empties
  <1>3. /\ Fills(t) => next = pos + 1 /\ SequenceAt(pos) = pos /\ d <= pos /\ pos < e
                       /\ DataAt(pos) = enqueued[pos + 1]
        /\ Empties(t) => next = pos + Capacity /\ SequenceAt(pos) = pos + 1 /\ pos < d
                         /\ e <= pos + Capacity
        /\ ~(Fills(t) /\ Empties(t))
    BY <1>2 DEF Fills, Empties, NextTurn, QueueInv, ThreadsOwnTheirCells
  <1>4. next \in Nat
    BY <1>1, <1>2, <1>3
  <1>5. Idle \in ThreadSet /\ Idle.pc = "idle"
    BY DEF Idle, ThreadSet, NoData
  <1>6. /\ threads' \in [Threads -> ThreadSet] /\ threads'[t] = Idle
        /\ \A u \in Threads : u # t => threads'[u] = threads[u]
    BY <1>2, <1>5 DEF QueueInv, QueueTypeOK
  <1>7. /\ ~Fills(t)' /\ ~Empties(t)'
        /\ \A u \in Threads : u # t => (Fills(u)' <=> Fills(u)) /\ (Empties(u)' <=> Empties(u))
    BY <1>5, <1>6 DEF Fills, Empties
  <1>8. buffer_' \in [Cells -> CellSet]
    BY <1>1, <1>b, <1>2, <1>4, CellUpdate, ZenonT(60)
  <1>9. \A p \in Nat : /\ DataAt(p)' = DataAt(p)
                       /\ Cell(p) = Cell(pos) => SequenceAt(p)' = next
                       /\ Cell(p) # Cell(pos) => SequenceAt(p)' = SequenceAt(p)
    <2>1. buffer_[Cell(pos)] \in CellSet
      BY <1>1, <1>b
    <2> QED
      BY <1>1, <1>b, <1>2, <1>4, <2>1, CellIsOne, CellUpdate DEF SequenceAt, DataAt
  <1>10. \A p \in Nat : Cell(p) = Cell(pos) =>
             SequenceAt(p) = SequenceAt(pos) /\ p # pos + 1 /\ pos # p + 1
    BY <1>1, SharedCells
  <1>11. \A p \in Nat : SequenceAt(p) \in Nat /\ SequenceAt(p)' >= SequenceAt(p)
    <2>1. \A p \in Nat : SequenceAt(p) \in Nat
      BY Types DEF QueueInv
    <2>2. next >= SequenceAt(pos)
      BY <1>1, <1>2, <1>3
    <2> QED
      BY <1>1, <1>4, <1>9, <1>10, <2>1, <2>2
  <1>12. QueueTypeOK'
    BY <1>2, <1>6, <1>8 DEF QueueInv, QueueTypeOK
  <1>13. OneThreadPerPosition'
    <2> SUFFICES ASSUME NEW u \in Threads, NEW v \in Threads, u # v
                 PROVE  OneThreadPerPosition!(u, v)'
      BY DEF OneThreadPerPosition
    <2>1. CASE u # t /\ v # t
      BY <1>6, <1>7, <2>1 DEF QueueInv, OneThreadPerPosition
    <2>2. CASE u = t \/ v = t
      BY <1>7, <2>2
    <2> QED
      BY <2>1, <2>2
  <1>14. ThreadsOwnTheirCells'
    <2> SUFFICES ASSUME NEW u \in Threads
                 PROVE  ThreadsOwnTheirCells!(u)'
      BY DEF ThreadsOwnTheirCells
    <2>1. CASE u = t
      BY <1>7, <2>1
    <2>2. CASE u # t
      <3>1. ThreadsOwnTheirCells!(u) /\ threads[u].pos \in Nat
        BY <1>p DEF QueueInv, ThreadsOwnTheirCells
      <3>2. Fills(u) \/ Empties(u) => Cell(threads[u].pos) # Cell(pos)
        <4> SUFFICES ASSUME Fills(u) \/ Empties(u), Cell(threads[u].pos) = Cell(pos)
                     PROVE  FALSE
          OBVIOUS
        <4>1. /\ SequenceAt(threads[u].pos) = SequenceAt(pos)
              /\ threads[u].pos # pos + 1 /\ pos # threads[u].pos + 1
          BY <1>10, <3>1
        <4>2. threads[u].pos # pos \/ (Fills(u) /\ Empties(t)) \/ (Empties(u) /\ Fills(t))
          BY <1>2, <2>2 DEF QueueInv, OneThreadPerPosition
        <4> QED
          BY <1>1, <1>2, <1>3, <3>1, <4>1, <4>2
      <3> QED
        BY <1>2, <1>6, <1>7, <1>9, <2>2, <3>1, <3>2
    <2> QED
      BY <2>1, <2>2
  <1>15. QueuedAreFilled'
    <2> SUFFICES ASSUME NEW p \in Nat, d <= p, p < e,
                        ~ \E u \in Threads : Fills(u)' /\ threads'[u].pos = p
                 PROVE  SequenceAt(p)' = p + 1 /\ DataAt(p)' = enqueued'[p + 1]
      BY <1>2 DEF QueuedAreFilled
    <2>1. CASE Fills(t) /\ p = pos
      BY <1>2, <1>3, <1>9, <2>1
    <2>2. CASE ~(Fills(t) /\ p = pos)
      <3>1. SequenceAt(p) = p + 1 /\ DataAt(p) = enqueued[p + 1]
        BY <1>6, <1>7, <2>2 DEF QueueInv, QueuedAreFilled
      <3>2. Cell(p) # Cell(pos)
        <4> SUFFICES ASSUME Cell(p) = Cell(pos)
                     PROVE  FALSE
          OBVIOUS
        <4>1. SequenceAt(pos) = p + 1 /\ pos # p + 1
          BY <1>10, <3>1
        <4> QED
          BY <1>1, <1>2, <1>3, <4>1
      <3> QED
        BY <1>2, <1>9, <3>1, <3>2
    <2> QED
      BY <2>1, <2>2
  <1>16. OthersAreFree'
    <2> SUFFICES ASSUME NEW p \in Nat, e <= p, p < d + Capacity,
                        ~ \E u \in Threads : Empties(u)' /\ threads'[u].pos + Capacity = p
                 PROVE  SequenceAt(p)' = p
      BY <1>2 DEF OthersAreFree
    <2>1. CASE Empties(t) /\ p = pos + Capacity
      <3>1. Cell(p) = Cell(pos)
        BY <1>1, <2>1, CellsRepeat
      <3> QED
        BY <1>3, <1>9, <2>1, <3>1
    <2>2. CASE ~(Empties(t) /\ p = pos + Capacity)
      <3>1. SequenceAt(p) = p
        BY <1>6, <1>7, <2>2 DEF QueueInv, OthersAreFree
      <3>2. Cell(p) # Cell(pos)
        <4> SUFFICES ASSUME Cell(p) = Cell(pos)
                     PROVE  FALSE
          OBVIOUS
        <4>1. SequenceAt(pos) = p /\ p # pos + 1
          BY <1>10, <3>1
        <4> QED
          BY <1>1, <1>2, <1>3, <4>1
      <3> QED
        BY <1>9, <3>1, <3>2
    <2> QED
      BY <2>1, <2>2
  <1>17. SequencesKeepUp'
    <2>1. \A p \in Nat : SequenceAt(p)' \in Nat
      BY <1>4, <1>9, <1>11
    <2> QED
      BY <1>1, <1>2, <1>11, <2>1 DEF QueueInv, SequencesKeepUp
  <1>18. ClaimsAreCurrent'
    <2> SUFFICES ASSUME NEW u \in Threads
                 PROVE  ClaimsAreCurrent!(u)'
      BY DEF ClaimsAreCurrent
    <2>1. CASE u = t
      BY <1>5, <1>6, <2>1
    <2>2. CASE u # t
      <3>1. ClaimsAreCurrent!(u) /\ threads'[u] = threads[u] /\ threads[u].pos \in Nat
        BY <1>p, <1>6, <2>2 DEF QueueInv, ClaimsAreCurrent
      <3>2. Position(threads[u].call)' = Position(threads[u].call)
        BY <1>2, <3>1 DEF Position
      <3>3. ASSUME threads[u].pc = "claim", threads[u].pos = Position(threads[u].call)
            PROVE  Cell(threads[u].pos) # Cell(pos)
        <4> SUFFICES ASSUME Cell(threads[u].pos) = Cell(pos)
                     PROVE  FALSE
          OBVIOUS
        <4>1. /\ SequenceAt(pos) = Turn(threads[u].call, threads[u].pos)
              /\ threads[u].pos # pos + 1 /\ pos # threads[u].pos + 1
          BY <1>10, <3>1, <3>3
        <4>2. CASE threads[u].call = "enqueue"
          <5>1. SequenceAt(pos) = threads[u].pos /\ threads[u].pos = e
            BY <3>3, <4>1, <4>2 DEF Turn, Position
          <5> QED
            BY <1>1, <1>2, <1>3, <4>1, <5>1
        <4>3. CASE threads[u].call = "dequeue"
          <5>1. SequenceAt(pos) = threads[u].pos + 1 /\ threads[u].pos = d
            BY <3>3, <4>1, <4>3 DEF Turn, Position
          <5> QED
            BY <1>1, <1>2, <1>3, <4>1, <5>1
        <4> QED
          BY <3>1, <3>3, <4>2, <4>3
      <3> QED
        BY <1>2, <1>9, <3>1, <3>2, <3>3 DEF Position
    <2> QED
      BY <2>1, <2>2
  <1> QED
    BY <1>12, <1>13, <1>14, <1>15, <1>16, <1>17, <1>18 DEF QueueInv

-----------------------------------------------------------------------------
\* Every step of every thread keeps the invariant.
LEMMA NextKeepsInv == QueueInv /\ [QueueNext]_queueVars => QueueInv'
  <1> SUFFICES ASSUME QueueInv, [QueueNext]_queueVars
               PROVE  QueueInv'
    OBVIOUS
  <1>1. CASE UNCHANGED queueVars
    BY <1>1 DEF queueVars, QueueInv, QueueTypeOK, ThreadsOwnTheirCells, OneThreadPerPosition,
        QueuedAreFilled, OthersAreFree, SequencesKeepUp, ClaimsAreCurrent, Fills, Empties,
        SequenceAt, DataAt, Position
  <1>2. CASE QueueNext
    BY <1>2, StartCallKeepsInv, LoadKeepsInv, CheckKeepsInv, ClaimKeepsInv, MoveKeepsInv,
        StoreKeepsInv DEF QueueNext
  <1> QED
    BY <1>1, <1>2

\* At any time, each position of lock_free_queue.hpp's buffer is free, being
\* filled, filled or being emptied, by at most one thread, as QueueInv says.
THEOREM QueueInvariant == QueueSpec => []QueueInv
  BY InitEstablishesInv, NextKeepsInv, PTL DEF QueueSpec

\* A thread moves on by its own steps only: it takes data in MoveData and is
\* refused in CheckCell.
LEMMA OwnSteps ==
    ASSUME QueueInv, QueueNext, NEW t \in Threads
    PROVE  /\ Takes(t) => MoveData(t)
           /\ \A call \in {"enqueue", "dequeue"} : Refused(t, call) => CheckCell(t)
  <1>1. PICK u \in Threads : \/ \E call \in {"enqueue", "dequeue"} : StartCall(u, call)
                             \/ LoadPosition(u) \/ CheckCell(u) \/ Claim(u) \/ ClaimFails(u)
                             \/ MoveData(u) \/ StoreSequence(u)
    BY DEF QueueNext
  <1>2. threads \in [Threads -> ThreadSet]
    BY DEF QueueInv, QueueTypeOK
  <1>3. CASE u # t
    <2>1. threads'[t] = threads[t]
      BY <1>1, <1>2, <1>3 DEF StartCall, LoadPosition, CheckCell, Claim, ClaimFails, MoveData,
          StoreSequence
    <2> QED
      BY <2>1 DEF Takes, Refused
  <1>4. CASE u = t
    <2>1. ASSUME Takes(t)
          PROVE  MoveData(t)
      BY <1>1, <1>4, <2>1 DEF Takes, StartCall, LoadPosition, CheckCell, Claim, ClaimFails,
          StoreSequence
    <2>2. ASSUME NEW call \in {"enqueue", "dequeue"}, Refused(t, call)
          PROVE  CheckCell(t)
      BY <1>1, <1>4, <2>2 DEF Refused, StartCall, LoadPosition, Claim, ClaimFails, MoveData,
          StoreSequence
    <2> QED
      BY <2>1, <2>2
  <1> QED
    BY <1>3, <1>4

\* Each step respects the order of the queue and refuses only for a reason.
LEMMA StepsKeepOrder ==
    ASSUME QueueInv, QueueNext
    PROVE  \A t \in Threads : KeepsOrder(t)
  <1> SUFFICES ASSUME NEW t \in Threads
               PROVE  KeepsOrder(t)
    OBVIOUS
  <1> DEFINE e == enqueue_pos_
             d == dequeue_pos_
             pos == threads[t].pos
  <1>1. /\ e \in Nat /\ d \in Nat /\ d <= e /\ e <= d + Capacity /\ pos \in Nat
        /\ Capacity \in Nat /\ Capacity >= 2 /\ SequenceAt(pos) \in Nat
    BY Types, CapacityAssumption, ZenonT(60) DEF QueueInv, QueueTypeOK
  <1>2. threads \in [Threads -> ThreadSet] /\ threads[t] \in ThreadSet
    BY DEF QueueInv, QueueTypeOK
  <1>3. ASSUME Takes(t)
        PROVE  threads'[t].data = enqueued[pos + 1]
    <2>1. MoveData(t) /\ Empties(t) /\ threads[t].pc = "move"
      BY <1>3, OwnSteps DEF Takes, Empties
    <2>2. threads'[t].data = DataAt(pos)
      BY <1>2, <1>3, <2>1 DEF MoveData, Takes, DataAt, ThreadSet
    <2>3. DataAt(pos) = enqueued[pos + 1]
      BY <2>1 DEF QueueInv, ThreadsOwnTheirCells
    <2> QED
      BY <2>2, <2>3
  <1>4. ASSUME NEW call \in {"enqueue", "dequeue"}, Refused(t, call)
        PROVE  /\ threads[t].call = call /\ pos <= Position(call)
               /\ SequenceAt(pos) < Turn(call, pos)
    <2>1. CheckCell(t) /\ threads[t].call = call /\ threads[t].pc = "check" /\ threads'[t].pc = "idle"
      BY <1>4, OwnSteps DEF Refused
    <2>2. pos <= Position(call)
      BY <2>1 DEF QueueInv, ClaimsAreCurrent
    <2>3. SequenceAt(pos) - Turn(call, pos) < 0
      <3> SUFFICES ASSUME ~(SequenceAt(pos) - Turn(call, pos) < 0)
                   PROVE  FALSE
        OBVIOUS
      <3>1. threads'[t] = [threads[t] EXCEPT !.pc =
                IF SequenceAt(pos) - Turn(call, pos) = 0 THEN "claim" ELSE "load"]
        BY <1>2, <2>1 DEF CheckCell, SequenceAt
      <3> QED
        BY <1>2, <2>1, <3>1 DEF ThreadSet
    <2>4. Turn(call, pos) \in Nat
      BY <1>1 DEF Turn
    <2> QED
      BY <1>1, <2>1, <2>2, <2>3, <2>4
  <1>5. ASSUME Refused(t, "enqueue"), e - d # Capacity
        PROVE  InProgress("dequeue") # {}
    <2>1. pos <= e /\ SequenceAt(pos) < pos
      BY <1>4, <1>5 DEF Position, Turn
    <2>2. pos = e
      BY <1>1, <2>1 DEF QueueInv, SequencesKeepUp
    <2>3. PICK u \in Threads : Empties(u)
      BY <1>1, <1>5, <2>1, <2>2 DEF QueueInv, OthersAreFree
    <2> QED
      BY <2>3 DEF Empties, InProgress
  <1>6. ASSUME Refused(t, "dequeue"), e # d
        PROVE  InProgress("enqueue") # {}
    <2>1. pos <= d /\ SequenceAt(pos) < pos + 1
      BY <1>4, <1>6 DEF Position, Turn
    <2>2. pos = d
      BY <1>1, <2>1 DEF QueueInv, SequencesKeepUp
    <2>3. PICK u \in Threads : Fills(u)
      BY <1>1, <1>6, <2>1, <2>2 DEF QueueInv, QueuedAreFilled
    <2> QED
      BY <2>3 DEF Fills, InProgress
  <1> QED
    BY <1>3, <1>5, <1>6 DEF KeepsOrder

\* For any number of threads and any capacity of at least two, items leave the
\* queue of lock_free_queue.hpp in order, once and intact, and a call is refused
\* only when the queue is full or empty or another call is half done.
THEOREM QueueOrder == QueueSpec => QueueKeepsItsOrder
  <1>1. QueueInv /\ [QueueNext]_queueVars => [\A t \in Threads : KeepsOrder(t)]_queueVars
    BY StepsKeepOrder
  <1> QED
    BY <1>1, QueueInvariant, PTL DEF QueueSpec, QueueKeepsItsOrder
=============================================================================
