---------------------------- MODULE ItemHandlers ----------------------------
(***************************************************************************)
(* The item requests of src/api/handlers.cpp, served concurrently.         *)
(*                                                                         *)
(* A handler holds no lock of its own.  It is a sequence of calls, each of *)
(* them atomic: one call of the storage engine (get, put, remove, mutate), *)
(* one append to the table's stream, one use of the idempotency cache.     *)
(* Calls of different requests interleave.  The storage engine is taken at *)
(* its contract (module StorageEngine): a call is atomic and its effect    *)
(* survives a crash; streams and the idempotency cache live in memory.     *)
(*                                                                         *)
(* One table is modelled, with one secondary index on attribute "ix", a    *)
(* stream with both images and a time-to-live attribute "ttl".  An item is *)
(* a function from the attributes it has to their values.                  *)
(***************************************************************************)
EXTENDS Naturals, Sequences, FiniteSets, SequencesExt, FiniteSetsExt, Functions

CONSTANTS
    Clients,        \* requests that are in progress at the same time
    Keys,           \* encoded primary keys of the table
    IndexValues,    \* values of the indexed attribute
    Tokens,         \* ClientRequestTokens
    Requests,       \* the requests clients may send
    Projected,      \* attributes an index entry carries beside the keys
    CacheSize,      \* IdempotencyCache::kMax
    CacheTtl,       \* IdempotencyCache::kTtl
    MaxRequests,    \* bound: requests sent in a behaviour
    MaxOps,         \* bound: operations of these requests together
    MaxTime,        \* bound: the clock's last value
    MaxCrashes,     \* bound: crashes in a behaviour
    None            \* no item, no entry, no token

VARIABLES
    base,           \* the table's items, by key
    index,          \* the index's entries, by index value and key
    stream,         \* the table's stream records, oldest first
    entries,        \* the idempotency cache: what was stored, by token
    order,          \* ... and the order tokens are evicted in
    now,            \* the clock
    client,         \* the progress of every request
    issued,         \* requests sent so far, and their operations
    crashes,        \* crashes so far
    \* History, read by the properties only:
    origin,         \* the items when the stream began
    tainted,        \* keys whose writers overlapped, crashed midway or reaped
    unchained,      \* keys whose old image was stale, lost or never read
    applied,        \* how often a token's writes were started
    excused         \* tokens the cache cannot vouch for any more

store == <<base, index>>
cache == <<entries, order>>
history == <<origin, tainted, unchained, applied, excused>>
vars == <<base, index, stream, entries, order, now, client, issued, crashes,
          origin, tainted, unchained, applied, excused>>

Attributes == {"ix", "n", "ttl"}

IsItem(v) ==
    /\ DOMAIN v \subseteq Attributes
    /\ \A a \in DOMAIN v : IF a = "ix" THEN v[a] \in IndexValues ELSE v[a] \in Nat

-----------------------------------------------------------------------------
(* Secondary index: an entry lives under its index value and the base key. *)

\* The value an item is indexed under; None leaves it out (sparse index).
IndexValue(item) ==
    IF item # None /\ "ix" \in DOMAIN item THEN item["ix"] ELSE None

project_for_index(item) ==
    Restrict(item, DOMAIN item \cap ({"ix"} \cup Projected))

\* item_is_expired: the table has time to live enabled on attribute "ttl".
Expired(item) == "ttl" \in DOMAIN item /\ item["ttl"] <= now

-----------------------------------------------------------------------------
(* Requests.  An operation names its key; cond is the ConditionExpression  *)
(* and update the UpdateExpression it carries, attrs the attributes given. *)

Conditions == {"none", "attribute_exists", "attribute_not_exists", "malformed"}
Updates == {"none", "add", "increment"}

\* evaluate_boolean_expr on a condition over the primary key: 1, 0 or -1.
Evaluate(cond, current) ==
    CASE cond = "none" -> 1
      [] cond = "attribute_exists" -> IF current # None THEN 1 ELSE 0
      [] cond = "attribute_not_exists" -> IF current = None THEN 1 ELSE 0
      [] cond = "malformed" -> 0 - 1

\* "add" is ADD n :one, "increment" is SET n = n + :one: the second one fails
\* on an item that has no n.
UpdateFails(op, current) ==
    op.update = "increment" /\ (current = None \/ "n" \notin DOMAIN current)

EmptyMap == [a \in {} |-> 0]

\* The item an update leaves: the current one, with n counted up, and the
\* attributes the expression sets.
Updated(op, current) ==
    LET working == IF current = None THEN EmptyMap ELSE current
        counted == IF op.update = "none" THEN working
                   ELSE [a \in DOMAIN working \cup {"n"} |->
                            IF a # "n" THEN working[a]
                            ELSE IF "n" \in DOMAIN working THEN working["n"] + 1
                                 ELSE 1]
    IN  [a \in DOMAIN counted \cup DOMAIN op.attrs |->
            IF a \in DOMAIN op.attrs THEN op.attrs[a] ELSE counted[a]]

Op(req, i) == req.ops[i]
KeysOf(req) == {op.key : op \in Range(req.ops)}

\* A handler's verdict on the item it finds: an error, or what to store.
Fail(reply) == [reply |-> reply, item |-> None]
Write(item) == [reply |-> "ok", item |-> item]

\* A write that goes ahead only if the operation's condition holds.
Conditional(op, current, write) ==
    CASE Evaluate(op.cond, current) < 0 -> Fail("ValidationException")
      [] Evaluate(op.cond, current) = 0 -> Fail("ConditionalCheckFailedException")
      [] OTHER -> write

handle_put_item(op, current) == Conditional(op, current, Write(op.attrs))

handle_delete_item(op, current) == Conditional(op, current, Write(None))

handle_update_item(op, current) ==
    Conditional(op, current, IF UpdateFails(op, current) THEN Fail("ValidationException")
                             ELSE Write(Updated(op, current)))

\* PartiQL writes carry no condition, and create what they do not find.
partiql_update(op, current) == Write(Updated(op, current))
partiql_delete(op, current) == Write(None)

\* The mutator a handler hands to storage.mutate.
Mutator(req, current) ==
    CASE req.op = "PutItem" -> handle_put_item(Op(req, 1), current)
      [] req.op = "DeleteItem" -> handle_delete_item(Op(req, 1), current)
      [] req.op = "UpdateItem" -> handle_update_item(Op(req, 1), current)
      [] req.op = "PartiqlUpdate" -> partiql_update(Op(req, 1), current)
      [] req.op = "PartiqlDelete" -> partiql_delete(Op(req, 1), current)

\* What an operation of a batch or a transaction leaves under its key.
Result(op, current) ==
    CASE op.kind = "put" -> op.attrs
      [] op.kind = "delete" -> None
      [] op.kind = "update" -> Updated(op, current)
      [] op.kind = "check" -> current

Call(name, i) == [call |-> name, i |-> i]

\* Handlers that write through one storage.mutate.
MutateRequests ==
    {"PutItem", "DeleteItem", "UpdateItem", "PartiqlUpdate", "PartiqlDelete"}

\* Mutation: the old item is read when it has been overwritten.
OldReadAfterWrite(req) ==
    FlattenSeq([i \in DOMAIN req.ops |->
        IF Op(req, i).kind = "check" THEN <<>>
        ELSE <<Call("write", i), Call("old", i)>>])

\* Operation by operation: read the old item, write the new one.
WriteCalls(req) ==
    FlattenSeq([i \in DOMAIN req.ops |->
        IF Op(req, i).kind = "check" THEN <<>>
        ELSE <<Call("old", i), Call("write", i)>>])

\* Phase 1 of TransactWriteItems: every condition is evaluated and every
\* update computed before anything is written.
CheckCalls(req) ==
    FlattenSeq([i \in DOMAIN req.ops |->
        (IF Op(req, i).cond # "none" THEN <<Call("check", i)>> ELSE <<>>)
        \o (IF Op(req, i).kind = "update" THEN <<Call("compute", i)>> ELSE <<>>)])

\* Mutation: each action is checked when its turn to be written comes.
CheckedOneByOne(req) ==
    FlattenSeq([i \in DOMAIN req.ops |->
        SelectSeq(CheckCalls(req) \o WriteCalls(req), LAMBDA call : call.i = i)])

TransactCalls(req) == CheckCalls(req) \o WriteCalls(req)

\* Mutation: the outcome is not remembered.
NothingStored(req) == <<>>

StoreCalls(req) == IF req.token # None THEN <<Call("store", 0)>> ELSE <<>>

\* A transaction may not act on the same item twice.
RepeatsTarget(req) ==
    \E i, j \in DOMAIN req.ops : i # j /\ Op(req, i).key = Op(req, j).key

\* BatchWriteItem and PartiQL INSERT write without a condition.
handle_batch_write_item(req) == WriteCalls(req)
partiql_insert(req) == WriteCalls(req)

handle_transact_write_items(req) ==
    (IF req.token # None THEN <<Call("lookup", 0)>> ELSE <<>>)
    \o TransactCalls(req) \o StoreCalls(req)

handle_get_item(req) == <<Call("get", 1)>>

\* The calls a request starts with.
Handler(req) ==
    CASE req.op \in MutateRequests -> <<Call("mutate", 1)>>
      [] req.op = "GetItem" -> handle_get_item(req)
      [] req.op = "BatchWriteItem" -> handle_batch_write_item(req)
      [] req.op = "PartiqlInsert" -> partiql_insert(req)
      [] req.op = "TransactWriteItems" -> handle_transact_write_items(req)

\* Requests the handler answers with a validation error before any call.  A
\* transaction with a token consults the cache first (see Lookup).
Refused(req) ==
    \/ req.shape = "malformed"
    \/ req.op = "TransactWriteItems" /\ RepeatsTarget(req)

RefusedOutright(req) == req.shape = "too many" \/ (Refused(req) /\ req.token = None)

-----------------------------------------------------------------------------
(* The progress of a request.                                              *)

Idle == [todo |-> <<>>, req |-> None, old |-> None, new |-> None,
         pre |-> <<>>, reply |-> "none", before |-> <<>>, interfered |-> FALSE]

Busy(c) == client[c].todo # <<>>
At(c, name) == Busy(c) /\ Head(client[c].todo).call = name
Current(c) == Op(client[c].req, Head(client[c].todo).i)

\* Keys a request has read or written and not finished indexing and streaming.
Holding(c) ==
    IF Busy(c) /\ Head(client[c].todo).call \in {"write", "unindex", "index", "emit"}
    THEN {Current(c).key} ELSE {}

\* Mutation: the old entry is left to be overwritten by the new one.
OldEntryKept(i, old, new) ==
    (IF IndexValue(old) # None /\ IndexValue(new) = None
     THEN <<Call("unindex", i)>> ELSE <<>>)
    \o (IF IndexValue(new) # None THEN <<Call("index", i)>> ELSE <<>>)
    \o (IF old # None \/ new # None THEN <<Call("emit", i)>> ELSE <<>>)

\* Mutation: a removal is not streamed.
RemovalNotStreamed(i, old, new) ==
    (IF IndexValue(old) # None THEN <<Call("unindex", i)>> ELSE <<>>)
    \o (IF IndexValue(new) # None THEN <<Call("index", i)>> ELSE <<>>)
    \o (IF new # None THEN <<Call("emit", i)>> ELSE <<>>)

\* maintain_indexes and emit_stream after a write of operation i: the old
\* entry is removed and the new one put, one storage call each; an absent
\* item that stays absent is not streamed.
FollowUps(i, old, new) ==
    (IF IndexValue(old) # None THEN <<Call("unindex", i)>> ELSE <<>>)
    \o (IF IndexValue(new) # None THEN <<Call("index", i)>> ELSE <<>>)
    \o (IF old # None \/ new # None THEN <<Call("emit", i)>> ELSE <<>>)

\* A request answers.  The model keeps the answers of transactions, which a
\* property reads.
Answer(request, reply) ==
    [Idle EXCEPT !.reply = IF request.req.op = "TransactWriteItems" THEN reply ELSE "none"]

\* The request goes on with todo, or answers when there is nothing left.
Continue(request, todo) ==
    IF todo = <<>> THEN Answer(request, "ok") ELSE [request EXCEPT !.todo = todo]

Resume(c) == Continue(client[c], Tail(client[c].todo))

\* What a write of key k by c means to the requests that are under way.
Noticed(c, k) ==
    [d \in Clients |->
        IF d # c /\ Busy(d) /\ client[d].req.op = "TransactWriteItems"
           /\ k \in KeysOf(client[d].req)
        THEN [client[d] EXCEPT !.interfered = TRUE]
        ELSE client[d]]

Overlaps(c, k) == \E d \in Clients \ {c} : k \in Holding(d)
BetweenOldAndWrite(c, k) ==
    \E d \in Clients \ {c} : At(d, "write") /\ Current(d).key = k

AddIf(set, k, condition) == IF condition THEN set \cup {k} ELSE set

-----------------------------------------------------------------------------
(* A request arrives.                                                      *)

Accept(c) ==
    /\ ~Busy(c)
    /\ issued.requests < MaxRequests
    /\ \E req \in Requests :
        LET begun == [Idle EXCEPT !.todo = Handler(req), !.req = req,
                                  !.pre = [i \in DOMAIN req.ops |-> None],
                                  !.before = [k \in KeysOf(req) |-> base[k]]]
            doubled == {t \in Tokens : t = req.token
                          /\ \E d \in Clients \ {c} : Busy(d) /\ client[d].req.token = t}
        IN  /\ issued.ops + Len(req.ops) <= MaxOps
            /\ issued' = [requests |-> issued.requests + 1, ops |-> issued.ops + Len(req.ops)]
            /\ client' = [client EXCEPT ![c] =
                             IF RefusedOutright(req)
                             THEN Answer(begun, "ValidationException") ELSE begun]
            /\ excused' = excused \cup doubled
    /\ UNCHANGED <<store, stream, cache, now, crashes, origin, tainted, unchained, applied>>

-----------------------------------------------------------------------------
(* PutItem, DeleteItem, UpdateItem and the PartiQL UPDATE and DELETE.      *)

\* storage.mutate: condition, new item and write under the engine's lock.
Mutate(c) ==
    /\ At(c, "mutate")
    /\ LET op == Current(c)
           old == base[op.key]
           verdict == Mutator(client[c].req, old)
           new == verdict.item
       IN  IF verdict.reply # "ok"
           THEN /\ client' = [client EXCEPT ![c] = Answer(client[c], verdict.reply)]
                /\ UNCHANGED <<base, tainted, unchained>>
           ELSE /\ base' = [base EXCEPT ![op.key] = new]
                /\ client' = [Noticed(c, op.key) EXCEPT ![c] =
                                Continue([client[c] EXCEPT !.old = old, !.new = new],
                                         FollowUps(1, old, new))]
                /\ tainted' = AddIf(tainted, op.key, Overlaps(c, op.key))
                /\ unchained' = AddIf(unchained, op.key, BetweenOldAndWrite(c, op.key))
    /\ UNCHANGED <<index, stream, cache, now, issued, crashes, origin, applied, excused>>

-----------------------------------------------------------------------------
(* GetItem reads, and removes an item it finds expired in a second call.   *)

Get(c) ==
    /\ At(c, "get")
    /\ LET item == base[Current(c).key]
       IN  client' = [client EXCEPT ![c] =
                        Continue(client[c], IF item # None /\ Expired(item)
                                            THEN <<Call("reap", 1)>> ELSE <<>>)]
    /\ UNCHANGED <<store, stream, cache, now, issued, crashes, history>>

Reap(c) ==
    /\ At(c, "reap")
    /\ LET k == Current(c).key
       IN  /\ base' = [base EXCEPT ![k] = None]
           /\ client' = [Noticed(c, k) EXCEPT ![c] = Answer(client[c], "ok")]
           /\ tainted' = tainted \cup {k}
           /\ unchained' = unchained \cup {k}
    /\ UNCHANGED <<index, stream, cache, now, issued, crashes, origin, applied, excused>>

-----------------------------------------------------------------------------
(* BatchWriteItem, PartiQL INSERT and phase 2 of TransactWriteItems.       *)

\* The old item, read for the index and the stream.
ReadOld(c) ==
    /\ At(c, "old")
    /\ LET op == Current(c)
       IN  /\ client' = [client EXCEPT ![c].old = base[op.key],
                                       ![c].todo = Tail(@)]
           /\ tainted' = AddIf(tainted, op.key, Overlaps(c, op.key))
           /\ LET token == client[c].req.token
                  first == Head(WriteCalls(client[c].req))
              IN  applied' = [t \in Tokens |->
                                IF t = token /\ Head(client[c].todo) = first
                                THEN applied[t] + 1 ELSE applied[t]]
    /\ UNCHANGED <<store, stream, cache, now, issued, crashes, origin, unchained, excused>>

\* storage.put or storage.remove; an update's item was computed in phase 1.
WriteItem(c) ==
    /\ At(c, "write")
    /\ LET op == Current(c)
           i == Head(client[c].todo).i
           old == client[c].old
           new == IF op.kind = "update" THEN client[c].pre[i] ELSE Result(op, old)
       IN  /\ base' = [base EXCEPT ![op.key] = new]
           /\ client' = [Noticed(c, op.key) EXCEPT ![c] =
                            Continue([client[c] EXCEPT !.new = new],
                                     FollowUps(i, old, new) \o Tail(client[c].todo))]
           /\ tainted' = AddIf(tainted, op.key, Overlaps(c, op.key))
           /\ unchained' = AddIf(unchained, op.key, BetweenOldAndWrite(c, op.key))
    /\ UNCHANGED <<index, stream, cache, now, issued, crashes, origin, applied, excused>>

-----------------------------------------------------------------------------
(* maintain_indexes and emit_stream.                                       *)

IndexRemove(c) ==
    /\ At(c, "unindex")
    /\ index' = [index EXCEPT ![IndexValue(client[c].old), Current(c).key] = None]
    /\ client' = [client EXCEPT ![c] = Resume(c)]
    /\ UNCHANGED <<base, stream, cache, now, issued, crashes, history>>

\* Mutation: the new entry is put under the old item's index key.
IndexPutUnderOldKey(c) ==
    /\ At(c, "index")
    /\ LET value == IF IndexValue(client[c].old) # None
                    THEN IndexValue(client[c].old) ELSE IndexValue(client[c].new)
       IN  index' = [index EXCEPT ![value, Current(c).key] = project_for_index(client[c].new)]
    /\ client' = [client EXCEPT ![c] = Resume(c)]
    /\ UNCHANGED <<base, stream, cache, now, issued, crashes, history>>

IndexPut(c) ==
    /\ At(c, "index")
    /\ index' = [index EXCEPT ![IndexValue(client[c].new), Current(c).key] =
                    project_for_index(client[c].new)]
    /\ client' = [client EXCEPT ![c] = Resume(c)]
    /\ UNCHANGED <<base, stream, cache, now, issued, crashes, history>>

EventName(old, new) ==
    CASE old = None -> "INSERT"
      [] new = None -> "REMOVE"
      [] OTHER -> "MODIFY"

EmitStream(c) ==
    /\ At(c, "emit")
    /\ LET old == client[c].old
           new == client[c].new
       IN  stream' = Append(stream, [event |-> EventName(old, new),
                                     key |-> Current(c).key,
                                     old |-> old, new |-> new])
    /\ client' = [client EXCEPT ![c] = Resume(c)]
    /\ UNCHANGED <<store, cache, now, issued, crashes, history>>

-----------------------------------------------------------------------------
(* TransactWriteItems.                                                     *)

\* IdempotencyCache::lookup, then the checks that need no storage.  A token
\* found too old is dropped from the entries and stays in the order.
Lookup(c) ==
    /\ At(c, "lookup")
    /\ LET req == client[c].req
           entry == entries[req.token]
           stale == entry # None /\ now - entry.at > CacheTtl
           hit == entry # None /\ ~stale
       IN  /\ entries' = IF stale THEN [entries EXCEPT ![req.token] = None] ELSE entries
           /\ excused' = AddIf(excused, req.token, stale)
           /\ client' = [client EXCEPT ![c] =
                IF hit /\ entry.body # req
                THEN Answer(client[c], "IdempotentParameterMismatchException")
                ELSE IF hit THEN Answer(client[c], "cached")
                ELSE IF Refused(req) THEN Answer(client[c], "ValidationException")
                ELSE Resume(c)]
    /\ UNCHANGED <<store, stream, order, now, issued, crashes, origin, tainted,
                   unchained, applied>>

\* Phase 1: one condition, on a fresh read of its item.
CheckCondition(c) ==
    /\ At(c, "check")
    /\ LET op == Current(c)
           r == Evaluate(op.cond, base[op.key])
       IN  client' = [client EXCEPT ![c] =
                IF r < 0 THEN Answer(client[c], "ValidationException")
                ELSE IF r = 0 THEN Answer(client[c], "TransactionCanceledException")
                ELSE Resume(c)]
    /\ UNCHANGED <<store, stream, cache, now, issued, crashes, history>>

\* Phase 1: one update, computed from another read of its item.
ComputeUpdate(c) ==
    /\ At(c, "compute")
    /\ LET op == Current(c)
           i == Head(client[c].todo).i
           current == base[op.key]
       IN  client' = [client EXCEPT ![c] =
                IF UpdateFails(op, current) THEN Answer(client[c], "ValidationException")
                ELSE Continue([client[c] EXCEPT !.pre[i] = Updated(op, current)],
                              Tail(client[c].todo))]
    /\ UNCHANGED <<store, stream, cache, now, issued, crashes, history>>

\* The tokens an eviction removes: from the front of the order while there are
\* more than CacheSize entries.  A token queued twice goes at its first turn.
Evictions(full, queue) ==
    LET Live(n) == {t \in Tokens : full[t] # None} \ Range(SubSeq(queue, 1, n))
    IN  Min({n \in 0 .. Len(queue) :
                Cardinality(Live(n)) <= CacheSize \/ n = Len(queue)})

\* IdempotencyCache::store
Store(c) ==
    /\ At(c, "store")
    /\ LET token == client[c].req.token
           queue == IF entries[token] = None THEN Append(order, token) ELSE order
           full == [entries EXCEPT ![token] = [body |-> client[c].req, at |-> now]]
           gone == Evictions(full, queue)
           evicted == Range(SubSeq(queue, 1, gone))
       IN  /\ order' = SubSeq(queue, gone + 1, Len(queue))
           /\ entries' = [t \in Tokens |-> IF t \in evicted THEN None ELSE full[t]]
           /\ excused' = excused \cup evicted
    /\ client' = [client EXCEPT ![c] = Answer(client[c], "ok")]
    /\ UNCHANGED <<store, stream, now, issued, crashes, origin, tainted, unchained, applied>>

-----------------------------------------------------------------------------
(* Time passes; the process is killed and started again.                   *)

\* The clock is read against what is stored only, so it may as well stand
\* still while nothing that is stored can age.
Ages ==
    \/ \E t \in Tokens : entries[t] # None
    \/ \E k \in Keys : base[k] # None /\ "ttl" \in DOMAIN base[k]

Tick ==
    /\ now < MaxTime /\ Ages
    /\ now' = now + 1
    /\ UNCHANGED <<store, stream, cache, client, issued, crashes, history>>

NoEntries == [t \in Tokens |-> None]

Crash ==
    /\ crashes < MaxCrashes
    /\ crashes' = crashes + 1
    /\ LET held == UNION {Holding(c) : c \in Clients}
       IN  /\ tainted' = tainted \cup held
           /\ unchained' = unchained \cup held
    /\ client' = [c \in Clients |-> Idle]
    /\ stream' = <<>>
    /\ origin' = base
    /\ entries' = NoEntries
    /\ order' = <<>>
    /\ excused' = Tokens
    /\ UNCHANGED <<store, now, issued, applied>>

-----------------------------------------------------------------------------

\* An index that holds exactly the projections of the items.
IndexOf(items) ==
    [p \in IndexValues \X Keys |->
        IF IndexValue(items[p[2]]) = p[1] THEN project_for_index(items[p[2]]) ELSE None]

CONSTANT InitialItems   \* the tables a behaviour may start from

Init ==
    /\ base \in InitialItems
    /\ index = IndexOf(base)
    /\ stream = <<>>
    /\ entries = NoEntries
    /\ order = <<>>
    /\ now = 0
    /\ client = [c \in Clients |-> Idle]
    /\ issued = [requests |-> 0, ops |-> 0]
    /\ crashes = 0
    /\ origin = base
    /\ tainted = {}
    /\ unchained = {}
    /\ applied = [t \in Tokens |-> 0]
    /\ excused = {}

Step(c) ==
    \/ Accept(c)
    \/ Mutate(c)
    \/ Get(c)
    \/ Reap(c)
    \/ ReadOld(c)
    \/ WriteItem(c)
    \/ IndexRemove(c)
    \/ IndexPut(c)
    \/ EmitStream(c)
    \/ Lookup(c)
    \/ CheckCondition(c)
    \/ ComputeUpdate(c)
    \/ Store(c)

Next == (\E c \in Clients : Step(c)) \/ Tick \/ Crash

Spec == Init /\ [][Next]_vars

-----------------------------------------------------------------------------
(* Properties.                                                             *)

Quiet(k) == \A c \in Clients : k \notin Holding(c)

\* Every variable has its type.
TypeOK ==
    /\ DOMAIN base = Keys /\ \A k \in Keys : base[k] # None => IsItem(base[k])
    /\ DOMAIN index = IndexValues \X Keys
    /\ \A p \in DOMAIN index : index[p] # None => IsItem(index[p]) /\ index[p]["ix"] = p[1]
    /\ \A i \in DOMAIN stream : stream[i].key \in Keys
    /\ Cardinality({t \in Tokens : entries[t] # None}) <= CacheSize
    /\ order \in Seq(Tokens)
    /\ now \in 0 .. MaxTime /\ issued.requests <= MaxRequests
    /\ \A c \in Clients : client[c].todo # <<>> => client[c].req \in Requests
    /\ tainted \subseteq Keys /\ unchained \subseteq Keys /\ excused \subseteq Tokens

\* Once nobody is working on a key, its index entries are exactly the
\* projection of its item: the entry of every earlier value was removed
\* (maintain_indexes).  Keys with overlapping writers, a crash midway or a
\* lazy time-to-live removal are out: there the code promises nothing.
IndexFollowsTable ==
    \A k \in Keys \ tainted : Quiet(k) =>
        \A x \in IndexValues : index[x, k] = IndexOf(base)[x, k]

RecordsOf(k) == SelectSeq(stream, LAMBDA r : r.key = k)

\* A sequence of records leads from one item to another.
Leads(records, from, to) ==
    /\ \A i \in DOMAIN records :
          records[i].old = (IF i = 1 THEN from ELSE records[i - 1].new)
    /\ to = (IF records = <<>> THEN from ELSE Last(records).new)

\* Once nobody is working on a key, replaying its stream records in order
\* turns the item the stream began with into the item that is stored.
StreamReplaysTable ==
    \A k \in Keys \ tainted : Quiet(k) => Leads(RecordsOf(k), origin[k], base[k])

\* Even when writers of a key overlap, no change is missing from the stream
\* and none is reported with images that were never stored, as long as every
\* old image was the item the write replaced: some order of the key's records
\* is its history.
StreamMissesNoChange ==
    \A k \in Keys \ unchained : Quiet(k) =>
        LET records == RecordsOf(k)
            n == Len(records)
        IN  \/ Leads(records, origin[k], base[k])
            \/ \E nth \in {p \in [1 .. n -> 1 .. n] : Range(p) = 1 .. n} :
                    Leads([i \in 1 .. n |-> records[nth[i]]], origin[k], base[k])

\* A TransactWriteItems whose items nobody else writes meanwhile is
\* all-or-nothing: it succeeds only if every condition held when it began, and
\* then every item is what its operation makes of the item it found; it fails
\* only with every item as it was.
TransactionsAreAllOrNothing ==
    [][\A c \in Clients :
        LET req == client[c].req
            before == client[c].before
            reply == client'[c].reply
        IN  (/\ Busy(c) /\ client'[c].todo = <<>>
             /\ req.op = "TransactWriteItems"
             /\ ~client[c].interfered
             /\ crashes' = crashes)
            => IF reply = "ok"
               THEN \A op \in Range(req.ops) :
                        /\ Evaluate(op.cond, before[op.key]) = 1
                        /\ base'[op.key] = Result(op, before[op.key])
               ELSE \A k \in KeysOf(req) : base'[k] = before[k]]_vars

\* A ClientRequestToken's writes are applied at most once, while the cache
\* remembers the token and no two requests carry it at the same time.
TokenAppliedOnce ==
    \A t \in Tokens \ excused : applied[t] <= 1

=============================================================================
