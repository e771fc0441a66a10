--------------------------- MODULE MCReadRequests ---------------------------
(* A small instance of ReadRequests.  The partition keys "a" and "a\0" share *)
(* a prefix and hold a zero byte; sort keys are negative and positive.       *)
EXTENDS ReadRequests

MCS(bytes) == [type |-> "S", v |-> bytes]
MCN(d) == [type |-> "N", v |-> d]
MCa == MCS(<<97>>)
MCa0 == MCS(<<97, 0>>)
MCx == MCS(<<120>>)
MCy == MCS(<<120, 1>>)

MCRow(pk, sk, ix, hit, dead, size) ==
    [pk |-> pk, sk |-> MCN(sk), ix |-> ix, hit |-> hit, dead |-> dead, size |-> size]

MCInitialRows ==
    << MCRow(MCa, -300, MCx, TRUE, FALSE, 1), MCRow(MCa, -2, MCy, FALSE, FALSE, 1),
       MCRow(MCa, 5, MCx, TRUE, FALSE, 1), MCRow(MCa0, -2, MCx, TRUE, FALSE, 3) >>

MCInitialTable ==
    [ns \in Namespaces |->
        LET entries == [i \in 1 .. 4 |-> Entry(StorageKey(ns, MCInitialRows[i]), MCInitialRows[i])]
        IN  SortSeq(entries, LAMBDA d, e : Less(d.key, e.key))]

MCRows ==
    { MCRow(MCa, -2, MCy, TRUE, FALSE, 3), MCRow(MCa0, 1, MCx, TRUE, TRUE, 1),
      MCRow(MCa, 5, MCx, TRUE, FALSE, 1) }

MCScan(ns, limit, filter, segment, total) ==
    [op |-> "Scan", ns |-> ns, limit |-> limit, filter |-> filter, segment |-> segment,
     total |-> total, hash |-> None, sort |-> None, forward |-> TRUE, keys |-> <<>>]

MCQuery(ns, hash, sort, limit, filter, forward) ==
    [op |-> "Query", ns |-> ns, limit |-> limit, filter |-> filter, segment |-> 0,
     total |-> 0, hash |-> hash, sort |-> sort, forward |-> forward, keys |-> <<>>]

MCSort(op, v1, v2) == [op |-> op, v1 |-> v1, v2 |-> v2]

MCRequests ==
    { MCScan("base", 0, FALSE, 0, 0), MCScan("base", 1, TRUE, 0, 0),
      MCScan("base", 0, FALSE, 0, 2), MCScan("base", 1, FALSE, 1, 2),
      MCScan("index", 2, FALSE, 0, 0),
      MCQuery("base", MCa, None, 1, FALSE, TRUE),
      MCQuery("base", MCa, MCSort("BETWEEN", MCN(-2), MCN(5)), 0, FALSE, FALSE),
      MCQuery("base", MCa0, MCSort("<", MCN(1), None), 2, TRUE, FALSE),
      MCQuery("index", MCx, MCSort("begins_with", MCS(<<97>>), None), 1, FALSE, FALSE),
      MCQuery("index", MCx, MCSort("=", MCa, None), 0, TRUE, TRUE),
      [MCScan("base", 0, FALSE, 0, 0) EXCEPT !.op = "Select"],
      [MCScan("base", 0, TRUE, 0, 0) EXCEPT !.op = "Select"],
      [MCScan("base", 0, FALSE, 0, 0) EXCEPT !.op = "TransactGetItems",
          !.keys = <<MCRow(MCa, -2, MCy, TRUE, FALSE, 3), MCRow(MCa0, 1, MCx, TRUE, TRUE, 1),
                     MCRow(MCa, 5, MCx, TRUE, FALSE, 1)>>] }
=============================================================================
