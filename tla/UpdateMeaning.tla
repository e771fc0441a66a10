--------------------------- MODULE UpdateMeaning ---------------------------
(***************************************************************************)
(* What an UpdateExpression means, on values: there are no pointers, and a *)
(* clause gives a new item.  A clause without a meaning is an error.       *)
(***************************************************************************)
EXTENDS UpdateExpressions

\* The value an object stands for, and the items pointers make up.
RECURSIVE ValueAt(_, _)
ValueAt(h, ptr) ==
    CASE h[ptr].type = "L" -> [type |-> "L", v |-> [i \in DOMAIN h[ptr].v |-> ValueAt(h, h[ptr].v[i])]]
      [] h[ptr].type = "M" -> [type |-> "M", v |-> [n \in DOMAIN h[ptr].v |-> ValueAt(h, h[ptr].v[n])]]
      [] OTHER -> h[ptr]

ItemOf(h, it) == [n \in DOMAIN it |-> ValueAt(h, it[n])]

-----------------------------------------------------------------------------
(* Values with a part replaced or taken out.                               *)

Replaced(value, step, x) ==
    CASE x = Missing -> Missing
      [] x # Missing /\ step.kind = "name" /\ value.type = "M" ->
            [value EXCEPT !.v = Assign(@, step.at, x)]
      [] x # Missing /\ step.kind = "index" /\ value.type = "L" /\ step.at < Len(value.v) ->
            [value EXCEPT !.v[step.at + 1] = x]
      [] x # Missing /\ step.kind = "index" /\ value.type = "L" /\ step.at = Len(value.v) ->
            [value EXCEPT !.v = Append(@, x)]
      [] OTHER -> Missing

\* x at the end of the steps; Missing if they lead nowhere.
RECURSIVE With(_, _, _)
With(value, steps, x) ==
    CASE steps = <<>> -> x
      [] Len(steps) = 1 -> Replaced(value, steps[1], x)
      [] OTHER -> LET child == Child(value, steps[1])
                  IN  IF child = Missing THEN Missing
                      ELSE Replaced(value, steps[1], With(child, Tail(steps), x))

RECURSIVE Without(_, _)
Without(value, steps) ==
    LET child == Child(value, steps[1])
    IN  CASE child = Missing -> value
          [] child # Missing /\ Len(steps) > 1 ->
                Replaced(value, steps[1], Without(child, Tail(steps)))
          [] child # Missing /\ Len(steps) = 1 /\ steps[1].kind = "name" ->
                [value EXCEPT !.v = Drop(@, steps[1].at)]
          [] OTHER -> [value EXCEPT !.v = RemoveAt(@, steps[1].at + 1)]

\* An item is treated as the map it is.
AsMap(it) == [type |-> "M", v |-> it]

-----------------------------------------------------------------------------
(* Operands and clauses.  An operand is a value, Missing or "error".        *)

Error == [type |-> "error", v |-> 0]
HasType(value, type) == value # Missing /\ value.type = type

ValueOfPlaceholder(name) ==
    IF name \in DOMAIN ExpressionValues THEN ValueAt(InitialHeap, ExpressionValues[name])
    ELSE Error

RECURSIVE OperandMeans(_, _)
OperandMeans(it, operand) ==
    CASE operand.form = "value" -> ValueOfPlaceholder(operand.name)
      [] operand.form = "path" -> navigate_path(operand.path, it)
      [] operand.form = "if_not_exists" ->
            LET existing == navigate_path(operand.path, it)
                fallback == OperandMeans(it, operand.right)
            IN  IF existing = Missing \/ fallback = Error THEN fallback ELSE existing
      [] OTHER ->
            LET a == OperandMeans(it, operand.left)
                b == OperandMeans(it, operand.right)
                Types(t) == HasType(a, t) /\ HasType(b, t)
            IN  CASE operand.form = "list_append" /\ Types("L") -> [a EXCEPT !.v = @ \o b.v]
                  [] operand.form = "plus" /\ Types("N") -> N(a.v + b.v)
                  [] operand.form = "minus" /\ Types("N") -> N(a.v - b.v)
                  [] OTHER -> Error

\* The value a clause puts at its path; Missing takes out what is there.
NewValue(it, clause) ==
    LET operand == OperandMeans(it, clause.operand)
        old == navigate_path(clause.path, it)
        sets == operand # Missing /\ operand.type \in {"SS", "NS"}
    IN  CASE clause.section = "SET" -> IF operand = Missing THEN Error ELSE operand
          [] clause.section = "REMOVE" -> Missing
          [] clause.section = "ADD" ->
                CASE HasType(operand, "N") -> N(operand.v + IF HasType(old, "N") THEN old.v ELSE 0)
                  [] sets /\ old = Missing -> operand
                  [] sets /\ HasType(old, operand.type) -> [operand EXCEPT !.v = @ \cup old.v]
                  [] OTHER -> Error
          [] clause.section = "DELETE" ->
                CASE operand = Error -> Error
                  [] sets /\ HasType(old, operand.type) ->
                        IF old.v \subseteq operand.v THEN Missing
                        ELSE [old EXCEPT !.v = @ \ operand.v]
                  [] OTHER -> old
          [] OTHER -> Error

\* The item after a clause, as a map value; Missing for an error.
ClauseMeans(it, clause) ==
    LET x == NewValue(it, clause)
    IN  CASE x = Error -> Missing
          [] x = Missing -> Without(AsMap(it), clause.path)
          [] OTHER -> With(AsMap(it), clause.path, x)

\* What a sequence of clauses makes of the stored item.
RECURSIVE ExpressionMeans(_)
ExpressionMeans(clauses) ==
    IF clauses = <<>> THEN AsMap(ItemOf(InitialHeap, StoredItem))
    ELSE LET before == ExpressionMeans(Front(clauses))
         IN  IF before = Missing THEN Missing
             ELSE ClauseMeans(before.v, clauses[Len(clauses)])

-----------------------------------------------------------------------------
(* Properties.                                                             *)

\* The pointers never show: the working item always is what the clauses so far
\* make of the item's values, and an expression fails exactly if a clause has
\* no meaning.  Attributes that came to share an object (SET a = b, a value
\* used twice, list_append of a list with itself) do not change together when
\* one of them is written into.
UpdatesActByValue ==
    LET means == ExpressionMeans(applied)
    IN  /\ status = "failed" <=> (means = Missing \/ (applied = <<>> /\ status # "idle"))
        /\ status # "failed" => AsMap(ItemOf(heap, working)) = means

\* Until the expression has been applied as a whole the caller's item is the
\* stored one, and no clause changes an object of the stored item or of
\* ExpressionAttributeValues, which other requests may be reading:
\* "a nested mutation never aliases the value objects shared with the stored
\* item" (update_expression.cpp:113).
StoredItemUntouched ==
    /\ ItemOf(heap, StoredItem) = ItemOf(InitialHeap, StoredItem)
    /\ ItemOf(heap, ExpressionValues) = ItemOf(InitialHeap, ExpressionValues)
    /\ status # "applied" => item = StoredItem

=============================================================================
