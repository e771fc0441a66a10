---------------------------- MODULE MCExpressions ----------------------------
(* Small instances of ConditionExpressions and UpdateExpressions.             *)
EXTENDS ConditionMeaning, UpdateMeaning, TLC

\* Fragments that meet in every position of the grammar, valid and not.
MCFragments ==
    { <<"attribute_exists", "(", "a", ")">>, <<"attribute_not_exists", "(", "m", ".", "#n", ")">>,
      <<"a">>, <<"=">>, <<":one">>, <<"<", ":two">>, <<"l", "[1]">>,
      <<"a", "BETWEEN", ":one">>, <<"and", ":two">>, <<"IN", "(", ":two">>, <<",">>,
      <<"AND">>, <<"AND", "attribute_exists", "(", "l", "[1]", ")">>, <<"OR">>, <<"NOT">>,
      <<"(">>, <<")">>, <<"size", "(">>, <<"?">>, <<"SET">>,
      <<"begins_with", "(", "a", ",", ":s", ")">>, <<"contains", "(", "t", ",", ":s", ")">>,
      <<"attribute_type", "(", "t", ",", ":ss", ")">> }
MCIdentifiers == {"a", "m", "l", "t", "size", "begins_with", "contains", "attribute_type"}
MCNameMap == "#n" :> "b"
\* :s and :ss are the strings "S" and "SS", the names of two types.
MCValueMap == (":one" :> N(1)) @@ (":two" :> N(2))
              @@ (":s" :> S(<<83>>)) @@ (":ss" :> S(<<83, 83>>))
MCIndexOf == "[1]" :> 1

MCList(s) == [type |-> "L", v |-> s]
MCMap(f) == [type |-> "M", v |-> f]
MCSet(s) == [type |-> "SS", v |-> s]

MCConditionItems ==
    { [a |-> N(2), m |-> MCMap([b |-> N(1)]), l |-> MCList(<<N(1), N(1)>>)],
      [a |-> S(<<83, 1>>), l |-> MCList(<<N(1)>>), t |-> MCSet({<<83>>})],
      [a |-> S(<<1, 83>>), t |-> S(<<1, 83>>)] }

-----------------------------------------------------------------------------
\* The stored item {m: {k: {x: 1}}, l: [{x: 1}], n: 1, s: {1, 2}} and the values
\* :n = 5, :m = {x: 5}, :s = {2, 3}, as objects that point to each other.
MCHeap == << N(1), MCMap([x |-> 1]), MCMap([k |-> 2]), N(1), MCMap([x |-> 4]), MCList(<<5>>),
             N(1), MCSet({1, 2}), N(5), MCMap([x |-> 9]), MCSet({2, 3}) >>
MCStoredItem == [m |-> 3, l |-> 6, n |-> 7, s |-> 8]
MCExpressionValues == (":n" :> 9) @@ (":m" :> 10) @@ (":s" :> 11)

MCTop(n) == <<Name(n)>>
MCUnder(n, m) == <<Name(n), Name(m)>>
MCkx(n) == <<Name(n), Name("k"), Name("x")>>
MCElem(n, i) == <<Name(n), Index(i)>>

MCValue(n) == [form |-> "value", name |-> n]
MCPath(p) == [form |-> "path", path |-> p]
MCTwo(form, l, r) == [form |-> form, left |-> l, right |-> r]
MCClause(section, p, operand) == [section |-> section, path |-> p, operand |-> operand]

MCSets ==
    { MCClause("SET", MCTop("a"), MCPath(MCTop("m"))),
      MCClause("SET", MCkx("a"), MCValue(":n")),
      MCClause("SET", MCkx("m"), MCTwo("plus", MCPath(MCTop("n")), MCValue(":n"))),
      MCClause("SET", MCTop("l"), MCTwo("list_append", MCPath(MCTop("l")), MCPath(MCTop("l")))),
      MCClause("SET", <<Name("l"), Index(0), Name("x")>>, MCValue(":m")),
      MCClause("SET", MCElem("l", 1), MCValue(":m")),
      MCClause("SET", <<Name("l"), Index(1), Name("x")>>,
          [form |-> "if_not_exists", path |-> MCkx("m"),
           right |-> MCTwo("minus", MCPath(MCTop("n")), MCValue(":n"))]),
      MCClause("SET", MCUnder("m", "k"), MCValue(":m")),
      MCClause("SET", MCTop("b"), MCValue(":absent")) }

MCOthers ==
    { MCClause("REMOVE", MCElem("l", 0), MCValue(":n")),
      MCClause("REMOVE", MCkx("m"), MCValue(":n")),
      MCClause("REMOVE", MCTop("n"), MCValue(":n")),
      MCClause("ADD", MCTop("n"), MCValue(":n")),
      MCClause("ADD", MCTop("s"), MCValue(":s")),
      MCClause("ADD", MCUnder("m", "t"), MCValue(":s")),
      MCClause("ADD", MCTop("l"), MCValue(":s")),
      MCClause("DELETE", MCTop("s"), MCValue(":s")),
      MCClause("DELETE", MCUnder("m", "t"), MCValue(":s")),
      MCClause("DELETE", MCTop("l"), MCValue(":m")),
      MCClause("malformed", MCTop("n"), MCValue(":n")) }

MCClauses == MCSets \cup MCOthers
=============================================================================
