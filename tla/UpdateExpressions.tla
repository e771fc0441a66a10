------------------------- MODULE UpdateExpressions -------------------------
(***************************************************************************)
(* UpdateExpression (src/expressions/update_expression.cpp) on the shared  *)
(* pointers it works with.  The working item is a copy of the stored       *)
(* item's map, whose values are the stored ones; so are the values of      *)
(* ExpressionAttributeValues once a clause has assigned them.  Values are  *)
(* objects on a heap: the elements of a list and the entries of a map are  *)
(* pointers, that is, indices of the heap.                                 *)
(*                                                                         *)
(* A clause is one path with its operand, after parsing; a clause that     *)
(* does not parse is "malformed".                                          *)
(***************************************************************************)
EXTENDS Documents

CONSTANTS
    Clauses,          \* the clauses an expression is made of
    InitialHeap,      \* the objects of the stored item and of the values
    StoredItem,       \* the stored item, by attribute name
    ExpressionValues, \* ExpressionAttributeValues, by placeholder
    MaxClauses        \* bound: clauses of an expression

VARIABLES
    heap,      \* the objects
    working,   \* the Applier's item: attribute name to pointer
    item,      \* the caller's item
    status,    \* "idle", "running", "failed", "applied"
    applied    \* the clauses run so far

updateVars == <<heap, working, item, status, applied>>

-----------------------------------------------------------------------------
(* Objects.                                                                *)

\* An operation's outcome: the heap after it, its result, and fail()'s mark.
Got(h, ptr) == [heap |-> h, ptr |-> ptr, error |-> FALSE]
Failed(h) == [heap |-> h, ptr |-> Missing, error |-> TRUE]

Alloc(h, object) == Got(Append(h, object), Len(h) + 1)

\* The child of an object along a step.
PointerAt(h, ptr, step) == IF ptr = Missing THEN Missing ELSE Child(h[ptr], step)

\* read_path, and the walks of write_path and erase_path to the leaf's parent.
Follow(h, ptr, steps) == FoldLeft(LAMBDA p, step : PointerAt(h, p, step), ptr, steps)

read_path(h, it, path) ==
    IF path[1].at \notin DOMAIN it THEN Missing ELSE Follow(h, it[path[1].at], Tail(path))

\* Mutation: only the object itself is copied, not what it points to.
shallow_clone(h, ptr) == Alloc(h, h[ptr])

\* Mutation: nothing is copied.
no_clone(h, ptr) == Got(h, ptr)

RECURSIVE clone_list(_, _, _), clone_map(_, _, _, _), clone(_, _)

\* got is the clone of the child in front; done are the clones before it.
NextElement(got, rest, done) == clone_list(got.heap, rest, Append(done, got.ptr))
clone_list(h, rest, done) ==
    IF rest = <<>> THEN Alloc(h, [type |-> "L", v |-> done])
    ELSE NextElement(clone(h, Head(rest)), Tail(rest), done)

NextEntry(got, rest, map, done, name) ==
    clone_map(got.heap, rest, map, [n \in DOMAIN done \cup {name} |->
                                        IF n = name THEN got.ptr ELSE done[n]])
clone_map(h, names, map, done) ==
    IF names = {} THEN Alloc(h, [type |-> "M", v |-> done])
    ELSE LET name == CHOOSE n \in names : TRUE
         IN  NextEntry(clone(h, map[name]), names \ {name}, map, done, name)

clone(h, ptr) ==
    CASE h[ptr].type = "L" -> clone_list(h, h[ptr].v, <<>>)
      [] h[ptr].type = "M" -> clone_map(h, DOMAIN h[ptr].v, h[ptr].v, [n \in {} |-> Missing])
      [] OTHER -> Alloc(h, h[ptr])

\* A tree of new objects: an object reached twice is copied twice.
deep_clone(h, ptr) == clone(h, ptr)

-----------------------------------------------------------------------------
(* Writes into an item.  A write's outcome is the heap and the item.       *)

Wrote(h, it) == [heap |-> h, item |-> it, error |-> FALSE]
WriteFailed(h, it) == [heap |-> h, item |-> it, error |-> TRUE]

Assign(map, name, x) == [n \in DOMAIN map \cup {name} |-> IF n = name THEN x ELSE map[n]]
Drop(map, name) == [n \in DOMAIN map \ {name} |-> map[n]]

Leaf(path) == path[Len(path)]

\* The leaf below the parent set to value, if the parent's type allows it: an
\* index may be the list's size.
SetLeaf(h, parent, leaf, value) ==
    CASE leaf.kind = "name" /\ h[parent].type = "M" ->
            [h EXCEPT ![parent].v = Assign(@, leaf.at, value)]
      [] leaf.kind = "index" /\ h[parent].type = "L" /\ leaf.at < Len(h[parent].v) ->
            [h EXCEPT ![parent].v[leaf.at + 1] = value]
      [] leaf.kind = "index" /\ h[parent].type = "L" /\ leaf.at = Len(h[parent].v) ->
            [h EXCEPT ![parent].v = Append(@, value)]
      [] OTHER -> Missing

EraseLeaf(h, parent, leaf) ==
    CASE leaf.kind = "name" /\ h[parent].type = "M" -> [h EXCEPT ![parent].v = Drop(@, leaf.at)]
      [] leaf.kind = "index" /\ h[parent].type = "L" /\ leaf.at < Len(h[parent].v) ->
            [h EXCEPT ![parent].v = RemoveAt(@, leaf.at + 1)]
      [] OTHER -> h

\* The parent of the leaf, in the copy of the root.
ParentIn(root, path) == Follow(root.heap, root.ptr, SubSeq(path, 2, Len(path) - 1))

Rooted(h, it, path, root) ==
    IF h = Missing THEN WriteFailed(root.heap, it) ELSE Wrote(h, Assign(it, path[1].at, root.ptr))

WriteBelow(it, path, value, root, parent) ==
    IF parent = Missing THEN WriteFailed(root.heap, it)
    ELSE Rooted(SetLeaf(root.heap, parent, Leaf(path), value), it, path, root)

EraseBelow(it, path, root, parent) ==
    IF parent = Missing \/ (Leaf(path).kind = "index" /\ root.heap[parent].type # "L")
    THEN Wrote(root.heap, it)
    ELSE Rooted(EraseLeaf(root.heap, parent, Leaf(path)), it, path, root)

WithRoot(it, path, value, root) == WriteBelow(it, path, value, root, ParentIn(root, path))
WithoutLeaf(it, path, root) == EraseBelow(it, path, root, ParentIn(root, path))

write_path(h, it, path, value) ==
    CASE Len(path) = 1 -> Wrote(h, Assign(it, path[1].at, value))
      [] Len(path) > 1 /\ path[1].at \notin DOMAIN it -> WriteFailed(h, it)
      [] OTHER -> WithRoot(it, path, value, deep_clone(h, it[path[1].at]))

\* What is not there is erased already.
erase_path(h, it, path) ==
    CASE Len(path) = 1 -> Wrote(h, Drop(it, path[1].at))
      [] Len(path) > 1 /\ path[1].at \notin DOMAIN it -> Wrote(h, it)
      [] OTHER -> WithoutLeaf(it, path, deep_clone(h, it[path[1].at]))

-----------------------------------------------------------------------------
(* Operands: [form |-> "value" | "path" | "if_not_exists" | "list_append" | *)
(* "plus" | "minus", ...].  An operand may resolve to nothing without an    *)
(* error, for an absent path.                                              *)

resolve_value_ref(h, name) ==
    IF name \in DOMAIN ExpressionValues THEN Got(h, ExpressionValues[name]) ELSE Failed(h)

\* Whether a pointer leads to an object of this type.
Is(h, ptr, type) == ptr # Missing /\ h[ptr].type = type

\* The existing value has precedence, but an error in the fallback counts.
IfNotExists(existing, fallback) ==
    IF existing # Missing THEN [fallback EXCEPT !.ptr = existing] ELSE fallback

\* The elements of both lists, not copies of them.
Appended(a, b) ==
    IF b.error \/ ~Is(b.heap, a, "L") \/ ~Is(b.heap, b.ptr, "L") THEN Failed(b.heap)
    ELSE Alloc(b.heap, [type |-> "L", v |-> b.heap[a].v \o b.heap[b.ptr].v])

Arithmetic(form, a, b) ==
    IF b.error \/ ~Is(b.heap, a, "N") \/ ~Is(b.heap, b.ptr, "N") THEN Failed(b.heap)
    ELSE LET l == b.heap[a].v
             r == b.heap[b.ptr].v
         IN  Alloc(b.heap, N(IF form = "plus" THEN l + r ELSE l - r))

RECURSIVE parse_operand(_, _, _)

\* The second operand is resolved after the first.
Second(left, it, operand) ==
    IF left.error THEN left
    ELSE IF operand.form = "list_append"
         THEN Appended(left.ptr, parse_operand(left.heap, it, operand.right))
         ELSE Arithmetic(operand.form, left.ptr, parse_operand(left.heap, it, operand.right))

\* parse_operand and parse_additive
parse_operand(h, it, operand) ==
    CASE operand.form = "value" -> resolve_value_ref(h, operand.name)
      [] operand.form = "path" -> Got(h, read_path(h, it, operand.path))
      [] operand.form = "if_not_exists" ->
            IfNotExists(read_path(h, it, operand.path), parse_operand(h, it, operand.right))
      [] operand.form \in {"list_append", "plus", "minus"} ->
            Second(parse_operand(h, it, operand.left), it, operand)

-----------------------------------------------------------------------------
(* Clauses: [section |-> "SET" | "REMOVE" | "ADD" | "DELETE" | "malformed", *)
(* path |-> ..., operand |-> ...].                                         *)

do_set(it, path, value) ==
    IF value.error \/ value.ptr = Missing THEN WriteFailed(value.heap, it)
    ELSE write_path(value.heap, it, path, value.ptr)

Stored(it, path, got) == write_path(got.heap, it, path, got.ptr)

\* A number is added to 0 where there is no number; a set is united with a set
\* of its type.
do_add(it, path, value, existing) ==
    LET h == value.heap
        operand == h[value.ptr]
        base == IF Is(h, existing, "N") THEN h[existing].v ELSE 0
    IN  CASE value.error -> WriteFailed(h, it)
          [] ~value.error /\ operand.type = "N" -> Stored(it, path, Alloc(h, N(base + operand.v)))
          [] ~value.error /\ operand.type \in {"SS", "NS"} ->
                CASE existing = Missing -> write_path(h, it, path, value.ptr)
                  [] Is(h, existing, operand.type) ->
                        Stored(it, path, Alloc(h, [operand EXCEPT !.v = @ \cup h[existing].v]))
                  [] OTHER -> WriteFailed(h, it)
          [] OTHER -> WriteFailed(h, it)

\* Elements are taken out of a set of the same type; an empty set is removed.
do_delete(it, path, value, existing) ==
    LET h == value.heap
        operand == h[value.ptr]
        rest == h[existing].v \ operand.v
    IN  CASE value.error -> WriteFailed(h, it)
          [] ~value.error /\ operand.type \in {"SS", "NS"} /\ Is(h, existing, operand.type) ->
                IF rest = {} THEN erase_path(h, it, path)
                ELSE Stored(it, path, Alloc(h, [operand EXCEPT !.v = rest]))
          [] OTHER -> Wrote(h, it)

run(h, it, clause) ==
    CASE clause.section = "SET" -> do_set(it, clause.path, parse_operand(h, it, clause.operand))
      [] clause.section = "REMOVE" -> erase_path(h, it, clause.path)
      [] clause.section = "ADD" ->
            do_add(it, clause.path, parse_operand(h, it, clause.operand), read_path(h, it, clause.path))
      [] clause.section = "DELETE" ->
            do_delete(it, clause.path, parse_operand(h, it, clause.operand),
                      read_path(h, it, clause.path))
      [] OTHER -> WriteFailed(h, it)

-----------------------------------------------------------------------------

UpdateInit ==
    /\ heap = InitialHeap
    /\ working = StoredItem
    /\ item = StoredItem
    /\ status = "idle"
    /\ applied = <<>>

\* The clauses of an expression run one after the other on the copy.
RunClause(clause) ==
    /\ status \in {"idle", "running"} /\ Len(applied) < MaxClauses
    /\ \E result \in {run(heap, working, clause)} :
        /\ heap' = result.heap
        /\ working' = result.item
        /\ status' = IF result.error THEN "failed" ELSE "running"
    /\ applied' = Append(applied, clause)
    /\ UNCHANGED item

\* The end of the expression: the caller's item becomes the copy.  An empty
\* expression is refused.
Finish ==
    /\ status \in {"idle", "running"}
    /\ status' = IF status = "idle" THEN "failed" ELSE "applied"
    /\ item' = IF status = "idle" THEN item ELSE working
    /\ UNCHANGED <<heap, working, applied>>

UpdateNext ==
    \/ \E clause \in Clauses : RunClause(clause)
    \/ Finish

UpdateSpec == UpdateInit /\ [][UpdateNext]_updateVars
=============================================================================
