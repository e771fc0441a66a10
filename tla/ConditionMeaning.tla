-------------------------- MODULE ConditionMeaning --------------------------
(***************************************************************************)
(* What a condition expression means, defined on its tokens without a      *)
(* parser: an expression is cut at the connective that binds least, from   *)
(* outside inwards.  "bad" is the meaning of what is no condition.         *)
(***************************************************************************)
EXTENDS ConditionExpressions

From(toks, i) == SubSeq(toks, i, Len(toks))
UpToBefore(toks, i) == SubSeq(toks, 1, i - 1)
Inside(toks) == SubSeq(toks, 2, Len(toks) - 1)

\* How many parentheses are open around token i.
Level(toks, i) ==
    Cardinality({j \in 1 .. i - 1 : toks[j].type = "("})
    - Cardinality({j \in 1 .. i : toks[j].type = ")"})

Balanced(toks) ==
    /\ \A i \in DOMAIN toks : Level(toks, i) >= 0
    /\ Cardinality({j \in DOMAIN toks : toks[j].type = "("})
       = Cardinality({j \in DOMAIN toks : toks[j].type = ")"})

Outermost(toks) == {i \in DOMAIN toks : Level(toks, i) = 0}
Outer(toks, token) == {i \in Outermost(toks) : toks[i] = token}
OuterKeyword(toks, keyword) == Outer(toks, Token("KEYWORD", keyword))

\* The ANDs that are not part of a BETWEEN.
Conjunctions(toks) ==
    LET ands == OuterKeyword(toks, "AND")
    IN  {i \in ands : ~\E j \in OuterKeyword(toks, "BETWEEN") :
                            j < i /\ ~\E k \in ands : j < k /\ k < i}

Commas(toks) == Cardinality(Outer(toks, Token(",", ",")))

\* The n-th piece between the outermost commas.
Piece(toks, n) ==
    LET cuts == Outer(toks, Token(",", ",")) \cup {0, Len(toks) + 1}
        Nth(m) == CHOOSE c \in cuts : Cardinality({d \in cuts : d < c}) = m
    IN  SubSeq(toks, Nth(n - 1) + 1, Nth(n) - 1)

\* One pair of parentheses around everything after token i.
Enclosed(toks, i) ==
    /\ Len(toks) >= i + 2 /\ toks[i + 1].type = "("
    /\ \A j \in i + 2 .. Len(toks) - 1 : Level(toks, j) > 0
    /\ toks[Len(toks)].type = ")"

RECURSIVE IsSteps(_)
IsSteps(toks) ==
    \/ toks = <<>>
    \/ /\ toks # <<>> /\ toks[1].type = "INDEX"
       /\ IsSteps(Tail(toks))
    \/ /\ Len(toks) >= 2 /\ toks[1].type = "."
       /\ toks[2].type \in {"IDENTIFIER", "KEYWORD", "PLACEHOLDER_NAME"}
       /\ IsSteps(From(toks, 3))

IsName(token) == \/ token.type \in {"IDENTIFIER", "PLACEHOLDER_NAME"}
                 \/ token.type = "KEYWORD" /\ is_allowed_function_name(token.value)
IsPath(toks) == toks # <<>> /\ IsName(toks[1]) /\ IsSteps(Tail(toks))

PathOf(toks) ==
    LET steps == SelectSeq(toks, LAMBDA token : token.type # ".")
    IN  [i \in DOMAIN steps |-> IF steps[i].type = "INDEX" THEN Index(steps[i].value)
                                ELSE Name(steps[i].value)]

IsPlaceholder(toks) == Len(toks) = 1 /\ toks[1].type = "PLACEHOLDER_VALUE"
IsCall(toks) ==
    Len(toks) >= 3 /\ toks[1].type # "PLACEHOLDER_NAME" /\ IsName(toks[1]) /\ Enclosed(toks, 1)

Argument(toks, n) == Piece(SubSeq(toks, 3, Len(toks) - 1), n)
Arity(toks) == IF Len(toks) = 3 THEN 0 ELSE 1 + Commas(SubSeq(toks, 3, Len(toks) - 1))

\* The value of an operand.  A condition in parentheses has none.
RECURSIVE ValueOf(_, _)
ValueOf(toks, item) ==
    CASE Enclosed(toks, 0) -> ValueOf(Inside(toks), item)
      [] IsPath(toks) -> navigate_path(Resolved(PathOf(toks)), item)
      [] IsPlaceholder(toks) -> ValueMap[toks[1].value]
      [] IsCall(toks) /\ toks[1].value = "size" /\ Arity(toks) = 1 ->
            Size(ValueOf(Argument(toks, 1), item))
      [] OTHER -> Missing

Truth(b) == IF b THEN "yes" ELSE "no"
Good(meanings, b) == IF "bad" \in meanings THEN "bad" ELSE Truth(b)

RECURSIVE Means(_, _)

\* What may be compared: a path, a placeholder, a call, a condition in
\* parentheses.
Operand(toks, item) ==
    CASE Enclosed(toks, 0) -> Means(Inside(toks), item)
      [] IsCall(toks) ->
            IF Arity(toks) > kMaxFunctionArgs THEN "bad"
            ELSE Good({Means(Argument(toks, n), item) : n \in 1 .. Arity(toks)},
                      Apply(toks[1].value,
                            [n \in 1 .. Arity(toks) |-> ValueOf(Argument(toks, n), item)]))
      [] IsPath(toks) \/ IsPlaceholder(toks) -> "no"
      [] OTHER -> "bad"

\* left op right, where op is token i
Comparison(toks, i, item) ==
    LET left == UpToBefore(toks, i)
        right == From(toks, i + 1)
    IN  Good({Operand(left, item), Operand(right, item)},
             compare_values(ValueOf(left, item), ValueOf(right, item), toks[i].value))

\* v BETWEEN lo AND hi, where BETWEEN is token i
Interval(toks, i, item) ==
    LET ands == {j \in OuterKeyword(toks, "AND") : j > i}
        k == CHOOSE j \in ands : \A l \in ands : j <= l
        v == UpToBefore(toks, i)
        lo == SubSeq(toks, i + 1, k - 1)
        hi == From(toks, k + 1)
    IN  IF ands = {} THEN "bad"
        ELSE Good({Operand(v, item), Operand(lo, item), Operand(hi, item)},
                  /\ compare_values(ValueOf(lo, item), ValueOf(v, item), "<=")
                  /\ compare_values(ValueOf(v, item), ValueOf(hi, item), "<="))

\* v IN ( operands ), where IN is token i
Membership(toks, i, item) ==
    LET v == UpToBefore(toks, i)
        list == Inside(From(toks, i + 1))
        candidates == {Piece(list, n) : n \in 1 .. Commas(list) + 1}
    IN  IF ~Enclosed(toks, i) \/ Commas(list) + 1 > kMaxFunctionArgs THEN "bad"
        ELSE Good({Operand(c, item) : c \in candidates \cup {v}},
                  \E c \in candidates : compare_values(ValueOf(v, item), ValueOf(c, item), "="))

Rightmost(set) == CHOOSE i \in set : \A j \in set : j <= i
Leftmost(set) == CHOOSE i \in set : \A j \in set : i <= j

Both(a, b) == Good({a, b}, a = "yes" /\ b = "yes")
Either(a, b) == Good({a, b}, a = "yes" \/ b = "yes")
Opposite(a) == Good({a}, a = "no")

\* OR binds least, then AND, then NOT, then the comparisons.
Means(toks, item) ==
    LET ors == OuterKeyword(toks, "OR")
        ands == Conjunctions(toks)
        operators == {i \in Outermost(toks) : toks[i].type = "OPERATOR"}
        betweens == OuterKeyword(toks, "BETWEEN")
        ins == OuterKeyword(toks, "IN")
        Cut(i, Join(_, _)) == Join(Means(UpToBefore(toks, i), item), Means(From(toks, i + 1), item))
    IN  IF toks = <<>> \/ ~Balanced(toks) THEN "bad"
        ELSE IF ors # {} THEN Cut(Rightmost(ors), Either)
        ELSE IF ands # {} THEN Cut(Rightmost(ands), Both)
        ELSE IF toks[1] = Token("KEYWORD", "NOT") THEN Opposite(Means(Tail(toks), item))
        ELSE IF operators # {} THEN Comparison(toks, Leftmost(operators), item)
        ELSE IF betweens # {} THEN Interval(toks, Leftmost(betweens), item)
        ELSE IF ins # {} THEN Membership(toks, Leftmost(ins), item)
        ELSE Operand(toks, item)

\* An update keyword in front is passed over.
Meaning(toks, item) ==
    IF toks # <<>> /\ toks[1].value \in {"SET", "REMOVE", "ADD", "DELETE"}
    THEN Means(Tail(toks), item) ELSE Means(toks, item)

-----------------------------------------------------------------------------

Connectives(toks) ==
    Cardinality({i \in DOMAIN toks : toks[i].type = "KEYWORD" /\ toks[i].value \in {"AND", "OR", "NOT"}})

\* No deeper than the parser follows: each pair of parentheses takes five
\* levels of its recursion, each NOT one.
Shallow(toks) ==
    \A i \in DOMAIN toks : 4 + 5 * Level(toks, i) + Connectives(toks) <= kMaxParserDepth

\* The parser accepts an expression only if it is a condition, and every
\* condition that is not too long or nested too deep; and on every item the
\* evaluator then says what the condition means, whatever its parentheses,
\* missing attributes and mixed types: OR binds less than AND, AND less than
\* NOT, NOT less than comparisons, and the AND of a BETWEEN is no conjunction.
\* Conditions with more connectives than the evaluator's depth limit are out:
\* there its answer is FALSE for the innermost terms.
ConditionMeansWhatItSays ==
    \A item \in ConditionItems :
        LET meaning == Meaning(expression, item)
        IN  /\ parsed.ok => meaning # "bad"
            /\ (meaning # "bad" /\ Shallow(expression) /\ Len(expression) < kMaxParserTokens)
                    => parsed.ok
            /\ (parsed.ok /\ Connectives(expression) <= MaxEvalDepth)
                    => (evaluate_condition(parsed.node, item, 0) <=> meaning = "yes")

=============================================================================
