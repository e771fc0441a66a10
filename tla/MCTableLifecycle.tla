-------------------------- MODULE MCTableLifecycle --------------------------
(* A small instance of TableLifecycle: two threads, two tables, two keys,  *)
(* one definition with everything a definition can have and a plain one.   *)
EXTENDS TableLifecycle, TLC

CONSTANTS A, B

MCDefinition(all) == [born |-> 0, rate |-> 1, indexed |-> all, stream |-> all, ttl |-> FALSE]
MCDefinitions == {MCDefinition(TRUE), MCDefinition(FALSE)}
MCInitialTables == [t \in Tables |-> IF t = A THEN MCDefinition(TRUE) ELSE None]
MCSymmetry == Permutations(Threads)
=============================================================================
