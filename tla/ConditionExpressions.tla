------------------------ MODULE ConditionExpressions ------------------------
(***************************************************************************)
(* Condition and filter expressions: the tokens of src/expressions/        *)
(* lexer.cpp, the recursive-descent parser of parser.cpp and the           *)
(* evaluator of evaluator.cpp, against what such an expression means.      *)
(*                                                                         *)
(* An expression grows by fragments of whole lexemes, for as long as the   *)
(* parser would have read on.  Characters are left out: a lexeme is a      *)
(* string, and its class is looked up.                                     *)
(***************************************************************************)
EXTENDS Documents

CONSTANTS
    Fragments,          \* sequences of lexemes an expression is grown from
    Identifiers,        \* lexemes that are plain identifiers
    NameMap,            \* ExpressionAttributeNames, by #lexeme
    ValueMap,           \* ExpressionAttributeValues, by :lexeme
    IndexOf,            \* the index of a [i] lexeme
    ConditionItems,     \* the items conditions are evaluated on
    MaxFragments,       \* bound: fragments of an expression
    kMaxParserDepth,    \* recursion of the parser
    kMaxParserTokens,   \* tokens of an expression, its end included
    kMaxFunctionArgs,   \* arguments of a function or of IN
    MaxEvalDepth        \* recursion of the evaluator

VARIABLES
    expression,   \* the tokens so far
    fragments,    \* how many fragments they are
    parsed        \* what parse_expression returns for them

conditionVars == <<expression, fragments, parsed>>

-----------------------------------------------------------------------------
(* Tokens.                                                                 *)

Keywords ==
    {"SET", "REMOVE", "ADD", "DELETE", "AND", "OR", "NOT", "BETWEEN", "IN",
     "ATTRIBUTE_EXISTS", "ATTRIBUTE_NOT_EXISTS"}

\* Keywords are recognised in any case, and become upper case.
Upper == [and |-> "AND", attribute_exists |-> "ATTRIBUTE_EXISTS",
          attribute_not_exists |-> "ATTRIBUTE_NOT_EXISTS"]

Operators == {"=", "<>", "<", "<=", ">", ">="}

Token(type, value) == [type |-> type, value |-> value]

next_token(lexeme) ==
    CASE lexeme \in Keywords -> Token("KEYWORD", lexeme)
      [] lexeme \in DOMAIN Upper -> Token("KEYWORD", Upper[lexeme])
      [] lexeme \in Identifiers -> Token("IDENTIFIER", lexeme)
      [] lexeme \in DOMAIN NameMap -> Token("PLACEHOLDER_NAME", lexeme)
      [] lexeme \in DOMAIN ValueMap -> Token("PLACEHOLDER_VALUE", lexeme)
      [] lexeme \in DOMAIN IndexOf -> Token("INDEX", IndexOf[lexeme])
      [] lexeme \in Operators -> Token("OPERATOR", lexeme)
      [] lexeme \in {"(", ")", ",", "."} -> Token(lexeme, lexeme)
      [] OTHER -> Token("INVALID", lexeme)

END_OF_FILE == Token("END_OF_FILE", "")

-----------------------------------------------------------------------------
(* The parser.  A result has the node and the position after it, or says   *)
(* how far the parser came.                                                *)

Fail(pos) == [ok |-> FALSE, node |-> Missing, pos |-> pos]
Parsed(node, pos) == [ok |-> TRUE, node |-> node, pos |-> pos]

peek(toks, pos) == IF pos > Len(toks) THEN END_OF_FILE ELSE toks[pos]
Sees(toks, pos, type) == peek(toks, pos).type = type
SeesKeyword(toks, pos, keyword) == peek(toks, pos) = Token("KEYWORD", keyword)

BinaryOpNode(op, left, right) == [node |-> "binary", op |-> op, args |-> <<left, right>>]
FunctionCallNode(fn, args) == [node |-> "function", op |-> fn, args |-> args]
PathNode(segments) == [node |-> "path", op |-> "", args |-> segments]
PlaceholderNode(name) == [node |-> "placeholder", op |-> name, args |-> <<>>]

is_allowed_function_name(name) == name \in {"ATTRIBUTE_EXISTS", "ATTRIBUTE_NOT_EXISTS", "NOT"}

\* The result of a rule, with its node put into a larger one.
Wrap(result, node) == IF result.ok THEN Parsed(node, result.pos) ELSE result

\* The steps after the root of a path.
RECURSIVE parse_path(_, _, _)
parse_path(toks, segments, pos) ==
    CASE ~Sees(toks, pos, ".") /\ ~Sees(toks, pos, "INDEX") -> Parsed(PathNode(segments), pos)
      [] Len(segments) > kMaxParserDepth -> Fail(pos)
      [] Sees(toks, pos, "INDEX") ->
            parse_path(toks, Append(segments, Index(toks[pos].value)), pos + 1)
      [] OTHER ->
            IF peek(toks, pos + 1).type \in {"IDENTIFIER", "KEYWORD", "PLACEHOLDER_NAME"}
            THEN parse_path(toks, Append(segments, Name(toks[pos + 1].value)), pos + 2)
            ELSE Fail(pos + 2)

RECURSIVE parse_or(_, _, _), OrRest(_, _, _), AndRest(_, _, _), parse_not(_, _, _)
RECURSIVE parse_primary(_, _, _), Arguments(_, _, _, _, _), Operands(_, _, _, _)

\* A closing parenthesis after a result.
Close(toks, result, node) ==
    IF ~result.ok THEN result
    ELSE IF Sees(toks, result.pos, ")") THEN Parsed(node, result.pos + 1) ELSE Fail(result.pos)

\* The arguments of a call, args of them read: each is a condition.
Arguments(toks, args, result, fn, depth) ==
    CASE ~result.ok -> result
      [] result.ok /\ ~Sees(toks, result.pos, ",") ->
            Close(toks, result, FunctionCallNode(fn, Append(args, result.node)))
      [] OTHER -> IF Len(args) + 1 >= kMaxFunctionArgs THEN Fail(result.pos + 1)
                  ELSE Arguments(toks, Append(args, result.node),
                                 parse_or(toks, result.pos + 1, depth + 1), fn, depth)

\* A call whose opening parenthesis is at pos.
Call(toks, fn, pos, depth) ==
    IF Sees(toks, pos + 1, ")") THEN Parsed(FunctionCallNode(fn, <<>>), pos + 2)
    ELSE Arguments(toks, <<>>, parse_or(toks, pos + 1, depth + 1), fn, depth)

\* An identifier or keyword: a function that is called, or a path.
Named(toks, token, pos, depth) ==
    CASE token.type = "KEYWORD" /\ ~is_allowed_function_name(token.value) -> Fail(pos)
      [] OTHER -> IF Sees(toks, pos, "(") THEN Call(toks, token.value, pos, depth)
                  ELSE parse_path(toks, <<Name(token.value)>>, pos)

Parenthesised(toks, inner) == Close(toks, inner, inner.node)

parse_primary(toks, pos, depth) ==
    LET token == peek(toks, pos)
    IN  IF depth > kMaxParserDepth THEN Fail(pos)
        ELSE CASE token.type = "(" -> Parenthesised(toks, parse_or(toks, pos + 1, depth + 1))
               [] token.type \in {"IDENTIFIER", "KEYWORD"} -> Named(toks, token, pos + 1, depth)
               [] token.type = "PLACEHOLDER_NAME" ->
                    parse_path(toks, <<Name(token.value)>>, pos + 1)
               [] token.type = "PLACEHOLDER_VALUE" ->
                    Parsed(PlaceholderNode(token.value), pos + 1)
               [] OTHER -> Fail(pos + 1)

\* The operands of IN, args of them read, the tested one included.
Operands(toks, args, result, depth) ==
    CASE ~result.ok -> result
      [] result.ok /\ ~Sees(toks, result.pos, ",") ->
            Close(toks, result, FunctionCallNode("IN", Append(args, result.node)))
      [] OTHER -> IF Len(args) + 1 > kMaxFunctionArgs THEN Fail(result.pos + 1)
                  ELSE Operands(toks, Append(args, result.node),
                                parse_primary(toks, result.pos + 1, depth + 1), depth)

\* AND hi, after the lower bound
UpTo(toks, left, lo, hi) == Wrap(hi, FunctionCallNode("BETWEEN", <<left, lo, hi.node>>))

Between(toks, left, lo, depth) ==
    CASE ~lo.ok -> lo
      [] lo.ok /\ ~SeesKeyword(toks, lo.pos, "AND") -> Fail(lo.pos)
      [] OTHER -> UpTo(toks, left, lo.node, parse_primary(toks, lo.pos + 1, depth + 1))

Binary(op, left, right) == Wrap(right, BinaryOpNode(op, left.node, right.node))

\* What follows the left operand of a comparison.
Compared(toks, left, depth) ==
    LET op == peek(toks, left.pos)
        next == left.pos + 1
    IN  CASE ~left.ok -> left
          [] left.ok /\ op.type = "OPERATOR" ->
                Binary(op.value, left, parse_primary(toks, next, depth + 1))
          [] left.ok /\ op = Token("KEYWORD", "BETWEEN") ->
                Between(toks, left.node, parse_primary(toks, next, depth + 1), depth)
          [] left.ok /\ op = Token("KEYWORD", "IN") ->
                IF ~Sees(toks, next, "(") THEN Fail(next)
                ELSE Operands(toks, <<left.node>>, parse_primary(toks, next + 1, depth + 1), depth)
          [] OTHER -> left

parse_comparison(toks, pos, depth) ==
    IF depth > kMaxParserDepth THEN Fail(pos)
    ELSE Compared(toks, parse_primary(toks, pos, depth + 1), depth)

Negated(operand) == Wrap(operand, FunctionCallNode("NOT", <<operand.node>>))

\* NOT takes the operand before a comparison, not the comparison.
NotBindsTighter(toks, pos, depth) ==
    IF SeesKeyword(toks, pos, "NOT") THEN Negated(parse_primary(toks, pos + 1, depth + 1))
    ELSE parse_comparison(toks, pos, depth + 1)

parse_not(toks, pos, depth) ==
    CASE depth > kMaxParserDepth -> Fail(pos)
      [] depth <= kMaxParserDepth /\ SeesKeyword(toks, pos, "NOT") ->
            Negated(parse_not(toks, pos + 1, depth + 1))
      [] OTHER -> parse_comparison(toks, pos, depth + 1)

\* left, and every AND and its right operand after it.
AndRest(toks, left, depth) ==
    IF ~left.ok \/ ~SeesKeyword(toks, left.pos, "AND") THEN left
    ELSE AndRest(toks, Binary("AND", left, parse_not(toks, left.pos + 1, depth + 1)), depth)

parse_and(toks, pos, depth) ==
    IF depth > kMaxParserDepth THEN Fail(pos)
    ELSE AndRest(toks, parse_not(toks, pos, depth + 1), depth)

OrRest(toks, left, depth) ==
    IF ~left.ok \/ ~SeesKeyword(toks, left.pos, "OR") THEN left
    ELSE OrRest(toks, Binary("OR", left, parse_and(toks, left.pos + 1, depth + 1)), depth)

parse_or(toks, pos, depth) ==
    IF depth > kMaxParserDepth THEN Fail(pos)
    ELSE OrRest(toks, parse_and(toks, pos, depth + 1), depth)

AtEnd(toks, result) ==
    IF result.ok /\ ~Sees(toks, result.pos, "END_OF_FILE") THEN Fail(result.pos) ELSE result

\* A condition may start with the keyword of an update section.
parse_expression(toks) ==
    CASE Len(toks) + 1 > kMaxParserTokens -> Fail(0)
      [] \E i \in DOMAIN toks : toks[i].type = "INVALID" -> Fail(0)
      [] OTHER ->
            LET section == \E k \in {"SET", "REMOVE", "ADD", "DELETE"} : SeesKeyword(toks, 1, k)
            IN  AtEnd(toks, parse_or(toks, IF section THEN 2 ELSE 1, 0))

-----------------------------------------------------------------------------
(* The evaluator.                                                          *)

\* A name is looked up under ExpressionAttributeNames when it has a #.
Resolved(segments) ==
    [i \in DOMAIN segments |->
        IF segments[i].kind = "name" /\ segments[i].at \in DOMAIN NameMap
        THEN Name(NameMap[segments[i].at]) ELSE segments[i]]

\* Only paths, placeholders and size() have a value.
RECURSIVE evaluate_expression(_, _)
evaluate_expression(node, item) ==
    CASE node.node = "path" -> navigate_path(Resolved(node.args), item)
      [] node.node = "placeholder" -> ValueMap[node.op]
      [] node.node = "function" /\ node.op = "size" /\ Len(node.args) = 1 ->
            Size(evaluate_expression(node.args[1], item))
      [] OTHER -> Missing

\* A function over the values of its arguments; another number of arguments, or
\* another name, makes it false.
Apply(fn, args) ==
    \/ fn = "ATTRIBUTE_EXISTS" /\ Len(args) = 1 /\ args[1] # Missing
    \/ fn = "ATTRIBUTE_NOT_EXISTS" /\ Len(args) = 1 /\ args[1] = Missing
    \/ fn = "begins_with" /\ Len(args) = 2 /\ begins_with(args[1], args[2])
    \/ fn = "contains" /\ Len(args) = 2 /\ contains(args[1], args[2])
    \/ fn = "attribute_type" /\ Len(args) = 2 /\ attribute_type(args[1], args[2])
    \/ /\ fn = "BETWEEN" /\ Len(args) = 3
       /\ compare_values(args[1], args[2], ">=") /\ compare_values(args[1], args[3], "<=")
    \/ /\ fn = "IN" /\ Len(args) >= 2
       /\ \E i \in 2 .. Len(args) : compare_values(args[1], args[i], "=")

RECURSIVE evaluate_condition(_, _, _)
evaluate_condition(node, item, depth) ==
    LET Values == [i \in DOMAIN node.args |-> evaluate_expression(node.args[i], item)]
        Holds(i) == evaluate_condition(node.args[i], item, depth + 1)
    IN  /\ depth <= MaxEvalDepth
        /\ CASE node.node = "binary" /\ node.op = "AND" -> Holds(1) /\ Holds(2)
             [] node.node = "binary" /\ node.op = "OR" -> Holds(1) \/ Holds(2)
             [] node.node = "binary" /\ node.op \in Operators ->
                    compare_values(Values[1], Values[2], node.op)
             [] node.node = "function" ->
                    IF node.op = "NOT" THEN Len(node.args) = 1 /\ ~Holds(1)
                    ELSE Apply(node.op, Values)
             [] OTHER -> FALSE

-----------------------------------------------------------------------------
(* An expression grows by a fragment as long as the parser reaches its end. *)

ConditionInit ==
    /\ expression = <<>>
    /\ fragments = 0
    /\ parsed = parse_expression(<<>>)

tokenize(lexemes) == [i \in DOMAIN lexemes |-> next_token(lexemes[i])]

Evaluate(toks) ==
    /\ expression' = toks
    /\ parsed' = parse_expression(toks)

Extend(lexemes) ==
    /\ fragments < MaxFragments
    /\ parsed.ok \/ parsed.pos > Len(expression)
    /\ fragments' = fragments + 1
    /\ Evaluate(expression \o tokenize(lexemes))

ConditionNext == \E lexemes \in Fragments : Extend(lexemes)

ConditionSpec == ConditionInit /\ [][ConditionNext]_conditionVars
=============================================================================
