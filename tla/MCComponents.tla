---------------------------- MODULE MCComponents ----------------------------
(* Five components that share no state, checked side by side: a behaviour    *)
(* picks one and runs it, the others rest.  The read requests, the condition *)
(* language, the update language, the records of a stream and the ring       *)
(* buffer each have their own module and their own specification.            *)
EXTENDS MCReadRequests, MCExpressions, StreamShards, LockFreeQueue

VARIABLE component

vars == <<component, readVars, conditionVars, updateVars, streamVars, queueVars>>

Init ==
    /\ component \in {"reads", "conditions", "updates", "streams", "queue"}
    /\ ReadInit /\ ConditionInit /\ UpdateInit /\ StreamInit /\ QueueInit

Reads ==
    /\ component = "reads" /\ ReadNext
    /\ UNCHANGED <<component, conditionVars, updateVars, streamVars, queueVars>>

Conditions ==
    /\ component = "conditions" /\ ConditionNext
    /\ UNCHANGED <<component, readVars, updateVars, streamVars, queueVars>>

Updates ==
    /\ component = "updates" /\ UpdateNext
    /\ UNCHANGED <<component, readVars, conditionVars, streamVars, queueVars>>

Streams ==
    /\ component = "streams" /\ StreamNext
    /\ UNCHANGED <<component, readVars, conditionVars, updateVars, queueVars>>

Queue ==
    /\ component = "queue" /\ QueueNext
    /\ UNCHANGED <<component, readVars, conditionVars, updateVars, streamVars>>

Next == Reads \/ Conditions \/ Updates \/ Streams \/ Queue

Spec == Init /\ [][Next]_vars
=============================================================================
