---------------------------- MODULE StorageEngine ----------------------------
(***************************************************************************)
(* What a StorageEngine promises its callers: one map from keys to values  *)
(* (as MemoryEngine keeps it), whose changes form one sequence, and, for a *)
(* durable engine, that a restart loses at most a tail of that sequence    *)
(* that was never acknowledged.                                            *)
(*                                                                         *)
(* A key here is the pair (table, item key), and removing a key is writing *)
(* Absent to it.  The methods of MemoryEngine are exactly Write and the    *)
(* reads of store; Acknowledge and Restart are what a durable engine adds. *)
(***************************************************************************)
EXTENDS Integers, Sequences

CONSTANTS Keys, Values, Absent

VARIABLES
    store,      \* the map every read sees
    history,    \* the writes made so far, oldest first
    acked       \* how many of them have been acknowledged or precede one that was

vars == <<store, history, acked>>

Content == Values \cup {Absent}
Write == [key : Keys, val : Content]

\* The last position of history that writes k, 0 if there is none.
LastWrite(h, k) ==
    LET writes == {i \in DOMAIN h : h[i].key = k}
    IN  IF writes = {} THEN 0
        ELSE CHOOSE i \in writes : \A j \in writes : j <= i

\* The map that a sequence of writes leaves behind.
Outcome(h) ==
    [k \in Keys |-> LET i == LastWrite(h, k) IN IF i = 0 THEN Absent ELSE h[i].val]

Init ==
    /\ store = [k \in Keys |-> Absent]
    /\ history = <<>>
    /\ acked = 0

\* put, remove, and the write a mutate decides on: the map changes at once.
\* drop_table is a sequence of removals.
WriteKey(k, v) ==
    /\ acked' = acked
    /\ history' = Append(history, [key |-> k, val |-> v])
    /\ store' = [store EXCEPT ![k] = v]

\* A call returns to its client.  The writes before the acknowledged one are
\* durable with it.
Acknowledge ==
    /\ acked' \in acked .. Len(history)
    /\ UNCHANGED <<history, store>>

\* The engine stops and starts again on what is on disk.
Restart ==
    \E n \in acked .. Len(history) :
        /\ acked' = acked
        /\ history' = SubSeq(history, 1, n)
        /\ store' = Outcome(history')

Next ==
    \/ Acknowledge
    \/ \E k \in Keys, v \in Content : WriteKey(k, v)
    \/ Restart

Spec == Init /\ [][Next]_vars

=============================================================================
