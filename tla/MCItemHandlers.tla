--------------------------- MODULE MCItemHandlers ---------------------------
(* A small instance of ItemHandlers: two clients, two keys, two index       *)
(* values, two tokens, and requests of every kind chosen to meet on key k1. *)
EXTENDS ItemHandlers, TLC

CONSTANTS k1, k2, x1, x2, t1, t2

NoAttrs == [a \in {} |-> 0]

MCOp(kind, k, attrs, cond, update) ==
    [kind |-> kind, key |-> k, attrs |-> attrs, cond |-> cond, update |-> update]
MCPut(k, attrs, cond) == MCOp("put", k, attrs, cond, "none")
MCDelete(k, cond) == MCOp("delete", k, NoAttrs, cond, "none")

MCRequest(op, ops, token) == [op |-> op, ops |-> ops, token |-> token, shape |-> "valid"]
MCSingle(op, operation) == MCRequest(op, <<operation>>, None)

MCSingles ==
    { MCSingle("PutItem", MCPut(k1, [ix |-> x2, n |-> 20, ttl |-> 1], "none")),
      MCSingle("PutItem", MCPut(k1, [n |-> 30], "attribute_not_exists")),
      MCSingle("DeleteItem", MCDelete(k1, "attribute_exists")),
      MCSingle("UpdateItem", MCOp("update", k1, [ix |-> x2], "none", "increment")),
      MCSingle("GetItem", MCOp("get", k1, NoAttrs, "none", "none")),
      MCSingle("PartiqlInsert", MCPut(k1, [ix |-> x1, n |-> 60], "none")),
      MCSingle("PartiqlUpdate", MCOp("update", k1, [ix |-> x1], "none", "none")),
      MCSingle("PartiqlDelete", MCDelete(k1, "none")) }

MCMany ==
    { MCRequest("BatchWriteItem",
          <<MCPut(k1, [ix |-> x2, n |-> 50], "none"), MCDelete(k2, "none")>>, None),
      MCRequest("TransactWriteItems",
          <<MCOp("update", k1, [ix |-> x1], "none", "increment"),
            MCPut(k2, [n |-> 70], "attribute_not_exists")>>, t1),
      MCRequest("TransactWriteItems",
          <<MCOp("check", k1, NoAttrs, "attribute_exists", "none"),
            MCDelete(k2, "malformed")>>, t1),
      MCRequest("TransactWriteItems",
          <<MCPut(k2, [n |-> 80], "none")>>, t2),
      MCRequest("TransactWriteItems", <<MCDelete(k1, "none"), MCDelete(k1, "none")>>, t2),
      [MCRequest("TransactWriteItems", <<MCDelete(k1, "none")>>, t2)
          EXCEPT !.shape = "too many"] }

MCRequests == MCSingles \cup MCMany

MCInitialItems ==
    {[k \in Keys |-> IF k = k1 THEN [ix |-> x1, n |-> 1] ELSE None]}

MCProjected == {"ttl"}
MCSymmetry == Permutations(Clients)
=============================================================================
