---------------------------- MODULE LockFreeQueue ----------------------------
(* core/lock_free_queue.hpp: the bounded ring buffer between many producers *)
(* and many consumers.  Each atomic access of enqueue and dequeue is a step *)
(* of its own, so that any two calls interleave between them.               *)
(*                                                                          *)
(* A cell's sequence says whose turn it is: position p may be filled when   *)
(* it is p, and emptied when it is p + 1.  The positions are size_t         *)
(* counters; MaxCalls keeps them far from wrapping.  The acquire load and   *)
(* the release store of a cell's sequence order the accesses to its data,   *)
(* and the positions are read relaxed but only acted on through the         *)
(* compare-exchange; the steps are therefore sequentially consistent here.  *)
EXTENDS Integers, Sequences

CONSTANTS
    Threads,
    Capacity,   \* template parameter, a power of two
    MaxCalls    \* bound on the calls of enqueue and dequeue

\* With a single cell "filled" and "free for the next position" would be the
\* same sequence number; the code's static_assert leaves that case open.
ASSUME CapacityAssumption == Capacity \in Nat /\ Capacity >= 2

VARIABLES
    buffer_,        \* the cells, [sequence, data], by position modulo Capacity
    enqueue_pos_,
    dequeue_pos_,
    threads,        \* what each thread is doing: [call, pc, pos, data]
    calls,          \* calls made so far; the n-th enqueue call carries n
    enqueued        \* history: the data by position claimed, first position first

queueVars == <<buffer_, enqueue_pos_, dequeue_pos_, threads, calls, enqueued>>

NoData == 0
Idle == [call |-> "none", pc |-> "idle", pos |-> 0, data |-> NoData]

Cell(pos) == pos % Capacity

QueueInit ==
    /\ buffer_ = [c \in 0 .. Capacity - 1 |-> [sequence |-> c, data |-> NoData]]
    /\ enqueue_pos_ = 0
    /\ dequeue_pos_ = 0
    /\ threads = [t \in Threads |-> Idle]
    /\ calls = 0
    /\ enqueued = <<>>

Position(call) == IF call = "enqueue" THEN enqueue_pos_ ELSE dequeue_pos_

\* The sequence a cell must have for a call to go on, and what it leaves there.
Turn(call, pos) == IF call = "enqueue" THEN pos ELSE pos + 1
NextTurn(call, pos) == IF call = "enqueue" THEN pos + 1 ELSE pos + Capacity

StartCall(t, call) ==
    /\ threads[t].pc = "idle"
    /\ calls < MaxCalls
    /\ calls' = calls + 1
    /\ threads' = [threads EXCEPT ![t] =
           [call |-> call, pc |-> "load", pos |-> 0,
            data |-> IF call = "enqueue" THEN calls + 1 ELSE NoData]]
    /\ UNCHANGED <<buffer_, enqueue_pos_, dequeue_pos_, enqueued>>

LoadPosition(t) ==
    /\ threads[t].pc = "load"
    /\ threads' = [threads EXCEPT ![t].pos = Position(threads[t].call), ![t].pc = "check"]
    /\ UNCHANGED <<buffer_, enqueue_pos_, dequeue_pos_, calls, enqueued>>

\* The cell's turn has come, or it lags behind and the queue counts as full or
\* empty, or another thread was faster and the position is loaded again.
CheckCell(t) ==
    /\ threads[t].pc = "check"
    /\ LET me   == threads[t]
           diff == buffer_[Cell(me.pos)].sequence - Turn(me.call, me.pos)
       IN  threads' = [threads EXCEPT ![t] = IF diff < 0 THEN Idle
                           ELSE [@ EXCEPT !.pc = IF diff = 0 THEN "claim" ELSE "load"]]
    /\ UNCHANGED <<buffer_, enqueue_pos_, dequeue_pos_, calls, enqueued>>

\* A plain store in place of the compare-exchange.
AlwaysExpected(me) == TRUE

Expected(me) == Position(me.call) = me.pos

Claim(t) ==
    LET me == threads[t]
    IN  /\ me.pc = "claim"
        /\ Expected(me)
        /\ threads' = [threads EXCEPT ![t].pc = "move"]
        /\ IF me.call = "enqueue"
           THEN /\ enqueue_pos_' = me.pos + 1
                /\ enqueued' = Append(enqueued, me.data)
                /\ UNCHANGED dequeue_pos_
           ELSE /\ dequeue_pos_' = me.pos + 1
                /\ UNCHANGED <<enqueue_pos_, enqueued>>
        /\ UNCHANGED <<buffer_, calls>>

\* compare_exchange_weak stores the counter's value into pos when it fails, and
\* it may fail although the values are equal.
ClaimFails(t) ==
    /\ threads[t].pc = "claim"
    /\ threads' = [threads EXCEPT ![t].pos = Position(threads[t].call), ![t].pc = "check"]
    /\ UNCHANGED <<buffer_, enqueue_pos_, dequeue_pos_, calls, enqueued>>

MoveData(t) ==
    LET me == threads[t]
        c  == Cell(me.pos)
    IN  /\ me.pc = "move"
        /\ IF me.call = "enqueue"
           THEN /\ buffer_' = [buffer_ EXCEPT ![c].data = me.data]
                /\ threads' = [threads EXCEPT ![t].pc = "store"]
           ELSE /\ buffer_' = [buffer_ EXCEPT ![c].data = NoData]
                /\ threads' = [threads EXCEPT ![t].pc = "store", ![t].data = buffer_[c].data]
        /\ UNCHANGED <<enqueue_pos_, dequeue_pos_, calls, enqueued>>

StoreSequence(t) ==
    LET me == threads[t]
    IN  /\ me.pc = "store"
        /\ buffer_' = [buffer_ EXCEPT ![Cell(me.pos)].sequence = NextTurn(me.call, me.pos)]
        /\ threads' = [threads EXCEPT ![t] = Idle]
        /\ UNCHANGED <<enqueue_pos_, dequeue_pos_, calls, enqueued>>

QueueNext ==
    \E t \in Threads :
        \/ \E call \in {"enqueue", "dequeue"} : StartCall(t, call)
        \/ LoadPosition(t)
        \/ CheckCell(t)
        \/ Claim(t)
        \/ ClaimFails(t)
        \/ MoveData(t)
        \/ StoreSequence(t)

QueueSpec == QueueInit /\ [][QueueNext]_queueVars

-----------------------------------------------------------------------------
\* Threads between claiming a position and handing its cell over.
InProgress(call) == {t \in Threads : threads[t].call = call /\ threads[t].pc \in {"move", "store"}}

Takes(t) == /\ threads[t].call = "dequeue" /\ threads[t].pc = "move"
            /\ threads'[t].pc = "store"
Refused(t, call) == /\ threads[t].call = call /\ threads[t].pc = "check"
                    /\ threads'[t].pc = "idle"

KeepsOrder(t) ==
    /\ Takes(t) => threads'[t].data = enqueued[threads[t].pos + 1]
    /\ Refused(t, "enqueue") => \/ enqueue_pos_ - dequeue_pos_ = Capacity
                                \/ InProgress("dequeue") # {}
    /\ Refused(t, "dequeue") => \/ enqueue_pos_ = dequeue_pos_
                                \/ InProgress("enqueue") # {}

\* Items leave in the order their positions were claimed, each once and intact:
\* the dequeue of a position takes what the enqueue of that position brought.
\* An enqueue is refused only when Capacity items are in the queue or a dequeue
\* is still emptying its cell, and a dequeue comes back empty-handed only when
\* there is nothing in the queue or an enqueue is still filling its cell.
QueueKeepsItsOrder == [][\A t \in Threads : KeepsOrder(t)]_queueVars
=============================================================================
