----------------------------- MODULE Documents -----------------------------
(***************************************************************************)
(* Attribute values and the document paths into them, as expressions of    *)
(* src/expressions see them.                                               *)
(*                                                                         *)
(* A value is [type |-> type, v |-> ...]: a number for N, a sequence of bytes *)
(* for S and B, a Boolean for BOOL, 0 for NULL, a set for SS, NS and BS, a *)
(* sequence of values for L, a function from names to values for M.  An    *)
(* item is a function from attribute names to values.                      *)
(***************************************************************************)
EXTENDS KeyCodec

CONSTANT Missing   \* the null pointer: no value

N(n) == [type |-> "N", v |-> n]
S(bytes) == [type |-> "S", v |-> bytes]

\* Steps of a path: into a map by name, into a list by index.
Name(n) == [kind |-> "name", at |-> n]
Index(i) == [kind |-> "index", at |-> i]

Child(value, step) ==
    CASE value = Missing -> Missing
      [] value # Missing /\ step.kind = "name" ->
            IF value.type = "M" /\ step.at \in DOMAIN value.v THEN value.v[step.at] ELSE Missing
      [] value # Missing /\ step.kind = "index" ->
            IF value.type = "L" /\ step.at < Len(value.v) THEN value.v[step.at + 1] ELSE Missing

\* The value a path leads to, step by step from the attribute it is rooted at.
navigate_path(path, item) ==
    IF path[1].at \notin DOMAIN item THEN Missing
    ELSE FoldLeft(Child, item[path[1].at], Tail(path))

-----------------------------------------------------------------------------
(* Comparison.                                                             *)

Before(a, b) == IF a.type = "N" THEN a.v < b.v ELSE Less(a.v, b.v)

\* Values are ordered within S, N and B; BOOL and NULL can only be equal; all
\* else, values of different types and a missing operand included, compares
\* false under every operator.
compare_values(a, b, op) ==
    /\ a # Missing /\ b # Missing
    /\ a.type = b.type
    /\ \/ /\ a.type \in {"S", "N", "B", "BOOL", "NULL"}
          /\ \/ op = "=" /\ a.v = b.v
             \/ op = "<>" /\ a.v # b.v
       \/ /\ a.type \in {"S", "N", "B"}
          /\ \/ op = "<" /\ Before(a, b)
             \/ op = "<=" /\ ~Before(b, a)
             \/ op = ">" /\ Before(b, a)
             \/ op = ">=" /\ ~Before(a, b)

begins_with(a, b) ==
    /\ a # Missing /\ b # Missing
    /\ a.type = b.type /\ a.type \in {"S", "B"}
    /\ HasPrefix(a.v, b.v)

contains(a, b) ==
    /\ a # Missing /\ b # Missing
    /\ \/ /\ a.type = "S" /\ b.type = "S"
          /\ \E i \in 1 .. Len(a.v) + 1 : HasPrefix(SubSeq(a.v, i, Len(a.v)), b.v)
       \/ a.type = "SS" /\ b.type = "S" /\ b.v \in a.v
       \/ a.type = "NS" /\ b.type = "N" /\ b.v \in a.v

\* The bytes of a type's name.
type_code ==
    [S |-> <<83>>, N |-> <<78>>, B |-> <<66>>, BOOL |-> <<66, 79, 79, 76>>,
     NULL |-> <<78, 85, 76, 76>>, M |-> <<77>>, L |-> <<76>>,
     SS |-> <<83, 83>>, NS |-> <<78, 83>>, BS |-> <<66, 83>>]

attribute_type(a, type) ==
    /\ a # Missing /\ type # Missing
    /\ type.type = "S" /\ type_code[a.type] = type.v

Size(a) ==
    CASE a = Missing -> Missing
      [] a # Missing /\ a.type \in {"S", "B", "L"} -> N(Len(a.v))
      [] a # Missing /\ a.type \in {"SS", "NS", "BS"} -> N(Cardinality(a.v))
      [] a # Missing /\ a.type = "M" -> N(Cardinality(DOMAIN a.v))
      [] OTHER -> Missing

=============================================================================
